------------------------------ MODULE Checkout ------------------------------
(***************************************************************************)
(* razorpayCheckout of gateway.js: the browser orders, opens Razorpay's    *)
(* form, has the payment verified and answers the page that called it,     *)
(* over the payment endpoints of PaymentService.                           *)
(*                                                                         *)
(* Razorpay is the environment: the form stays open after a payment failed *)
(* in it, closes when one succeeds or the customer closes it, and every    *)
(* event of a payment is sent to the webhook, in any order and again until *)
(* it is answered with success.  The page waits for its call a minute at   *)
(* most, so checkouts overlap.                                             *)
(***************************************************************************)
EXTENDS PaymentService

VARIABLES
  call,             (* per checkout: where the script stands             *)
  answer,           (* per checkout: what its promise was resolved with; *)
                    (* "gone" when the page is gone with it              *)
  paid,             (* at Razorpay: payments that were made              *)
  hooks             (* at Razorpay: events to deliver still              *)

browser == <<call, answer>>
razorpay == <<paid, hooks>>
vars == <<serverVars, browser, razorpay>>

None == "none"

Init ==
  /\ ServerInit
  /\ call = [c \in Checkouts |-> "unused"] /\ answer = [c \in Checkouts |-> None]
  /\ paid = {} /\ hooks = {}
-----------------------------------------------------------------------------
At(c, pc) == call' = [call EXCEPT ![c] = pc]

(* Slip: a later answer replaces the first. *)
Resolve_Again(c, a) == answer' = [answer EXCEPT ![c] = a]
(* Of a promise the first resolve counts. *)
Resolve(c, a) == answer' = [answer EXCEPT ![c] = IF @ = None THEN a ELSE @]

(* The button; without Checkout.js the call ends here. *)
Click(c) ==
  /\ call[c] = "unused"
  /\ \/ At(c, "ordering") /\ UNCHANGED answer
     \/ At(c, "done") /\ Resolve(c, "no")
  /\ UNCHANGED <<serverVars, razorpay>>

(* The order endpoint answers, but not with success. *)
OrderRefused(c) ==
  /\ call[c] = "ordering"
  /\ At(c, "done") /\ Resolve(c, "no")
  /\ UNCHANGED <<serverVars, razorpay>>

(* Something up to the opening of the form throws, and is caught. *)
OrderThrows(c) ==
  /\ call[c] = "ordering"
  /\ At(c, "done") /\ Resolve(c, "no")
  /\ UNCHANGED <<serverVars, razorpay>>

OpenForm(c) ==
  /\ call[c] = "ordering"
  /\ At(c, "open")
  /\ UNCHANGED <<serverVars, answer, razorpay>>

(* payment.failed: the call is answered, the form stays. *)
PaymentFailed(c) ==
  /\ call[c] = "open"
  /\ Resolve(c, "no")
  /\ UNCHANGED <<serverVars, call, razorpay>>

(* Slip: nobody listens to it. *)
Dismiss_Unheard(c) ==
  /\ call[c] = "open"
  /\ At(c, "closed")
  /\ UNCHANGED <<serverVars, answer, razorpay>>

(* modal.ondismiss *)
Dismiss(c) ==
  /\ call[c] = "open"
  /\ At(c, "closed") /\ Resolve(c, "no")
  /\ UNCHANGED <<serverVars, razorpay>>

Made(c) ==
  /\ c \notin paid
  /\ paid' = paid \cup {c} /\ hooks' = hooks \cup {<<c, e>> : e \in Events}

(* A payment is made and the handler called: it asks for verification.  The   *)
(* signature is not valid when the server's key is not that of the order.     *)
Handler(c, signed) ==
  /\ call[c] = "open" /\ Made(c)
  /\ At(c, "verifying")
  /\ request' = [request EXCEPT ![c] = Arriving(c, Verify, signed)]
  /\ UNCHANGED <<seen, audit, mirror, history, bounds, answer>>

(* Slip: the status of the response is not looked at. *)
Verified_AnyStatus(c) ==
  /\ call[c] = "verifying" /\ request[c].pc \in Answers
  /\ At(c, "done") /\ Resolve(c, "ok")
  /\ UNCHANGED <<serverVars, razorpay>>

Verified(c) ==
  /\ call[c] = "verifying" /\ request[c].pc \in Answers
  /\ At(c, "done") /\ Resolve(c, IF request[c].pc = "ok" THEN "ok" ELSE "no")
  /\ UNCHANGED <<serverVars, razorpay>>

(* The request throws, or its answer is no JSON: nobody catches that, and the *)
(* promise is never resolved.                                                 *)
VerifyThrows(c) ==
  /\ call[c] = "verifying" /\ faults < MaxFaults
  /\ At(c, "stuck") /\ faults' = faults + 1
  /\ UNCHANGED <<request, seen, audit, mirror, history, crashes, answer, razorpay>>
-----------------------------------------------------------------------------
(* The page is reloaded, by the customer or by ReconnectModal: its calls end. *)
Reload ==
  /\ faults < MaxFaults /\ faults' = faults + 1
  /\ call' = [c \in Checkouts |-> CASE call[c] = "open" -> "closed"
                                   [] call[c] \in {"unused", "closed"} -> call[c]
                                   [] OTHER -> "done"]
  /\ answer' = [c \in Checkouts |->
       IF answer[c] = None /\ call[c] # "unused" THEN "gone" ELSE answer[c]]
  /\ UNCHANGED <<request, seen, audit, mirror, history, crashes, razorpay>>

(* The customer pays in another app when the form is gone. *)
PaysLate(c) ==
  /\ call[c] = "closed" /\ Made(c)
  /\ UNCHANGED <<serverVars, browser>>

Deliver(c, e) ==
  LET idle == {d \in Deliveries : request[d].pc = "idle"}
  IN  /\ <<c, e>> \in hooks /\ idle # {}
      /\ request' = [request EXCEPT ![CHOOSE d \in idle : TRUE] = Arriving(c, e, TRUE)]
      /\ UNCHANGED <<seen, audit, mirror, history, bounds, browser, razorpay>>

(* Somebody else posts to the webhook. *)
Forge(d, c, e) ==
  /\ request[d].pc = "idle" /\ faults < MaxFaults
  /\ request' = [request EXCEPT ![d] = Arriving(c, e, FALSE)] /\ faults' = faults + 1
  /\ UNCHANGED <<seen, audit, mirror, history, crashes, browser, razorpay>>

Answered(d) ==
  /\ request[d].pc \in Answers
  /\ request' = [request EXCEPT ![d] = Idle]
  /\ hooks' = IF request[d].pc = "ok"
                 THEN hooks \ {<<request[d].payment, request[d].event>>} ELSE hooks
  /\ UNCHANGED <<seen, audit, mirror, history, bounds, browser, paid>>

Script(c) ==
  OrderRefused(c) \/ OrderThrows(c) \/ OpenForm(c) \/ Verified(c) \/ VerifyThrows(c)
Form(c) == Dismiss(c) \/ \E signed \in BOOLEAN : Handler(c, signed)

Next ==
  \/ ServerNext /\ UNCHANGED <<browser, razorpay>>
  \/ \E c \in Checkouts :
       \/ Click(c) \/ Script(c) \/ Form(c) \/ PaymentFailed(c) \/ PaysLate(c)
       \/ \E e \in Events : Deliver(c, e) \/ \E d \in Deliveries : Forge(d, c, e)
  \/ \E d \in Deliveries : Answered(d)
  \/ Reload

Spec == Init /\ [][Next]_vars

(* Handlers of the server and the script of the page are scheduled, and       *)
(* Razorpay delivers until it is answered.                                    *)
FairSpec ==
  /\ Spec
  /\ \A r \in Requests : WF_vars(Handle(r) /\ UNCHANGED <<browser, razorpay>>)
  /\ \A c \in Checkouts :
       WF_vars(Script(c)) /\ \A e \in Events : WF_vars(Deliver(c, e))
  /\ \A d \in Deliveries : WF_vars(Answered(d))
-----------------------------------------------------------------------------
(* Every variable has its type, and only what was paid is delivered. *)
TypeOK ==
  /\ ServerTypeOK
  /\ call \in [Checkouts -> {"unused", "ordering", "open", "verifying", "stuck", "closed", "done"}]
  /\ answer \in [Checkouts -> {None, "ok", "no", "gone"}]
  /\ paid \subseteq Checkouts /\ hooks \subseteq paid \X Events

RecordedAs(c, state) == \E n \in 1..Len(rows) : rows[n].payment = c /\ rows[n].state = state

(* The page is told that a payment was verified only when it was made, and    *)
(* the log says so: over failing requests, restarts, and forms that report a  *)
(* failure first.                                                             *)
OkIsRecorded ==
  \A c \in Checkouts : answer[c] = "ok" => c \in paid /\ RecordedAs(c, "verified")

(* If customers finish with the form, every call is answered, unless the      *)
(* request for verification threw: then the script of the page never ends.    *)
CustomerFairness == \A c \in Checkouts : WF_vars(Form(c))
CheckoutAnswers ==
  CustomerFairness =>
    \A c \in Checkouts : call[c] # "unused" ~> answer[c] # None \/ call[c] = "stuck"

(* A payment that was made is recorded in the end, by the verification or by  *)
(* a webhook, whatever the page does, whatever fails or restarts: unless the  *)
(* append of a webhook failed after it was marked as seen.                    *)
CapturedIsRecorded ==
  \A c \in Checkouts :
    c \in paid ~> RecordedAs(c, "verified") \/ RecordedAs(c, "accepted") \/ c \in unkept

(* Browser and server together keep the promise of PaymentLedger. *)
Ledger == INSTANCE PaymentLedger WITH
  verified <- {c \in Checkouts : RecordedAs(c, "verified")},
  answer <- [c \in Checkouts |-> IF answer[c] \in {None, "ok"} THEN answer[c] ELSE "no"]
KeepsPaymentLedger == Ledger!Spec
=============================================================================
