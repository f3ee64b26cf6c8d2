--------------------------- MODULE PaymentService ---------------------------
(***************************************************************************)
(* The payment endpoints of the UI's server (Program.cs) and behind them   *)
(* RazorpayPaymentService and PaymentAuditService: the verification of a   *)
(* payment the browser made, the webhooks about it, and the log both are   *)
(* recorded in.                                                            *)
(*                                                                         *)
(* A checkout stands for its order and for the payment that is made of it. *)
(* A row of the log is its number there, which is also its hash: a hash    *)
(* commits to the hash before it, a time and a content, so no two rows     *)
(* share one.  Genesis is the hash before the first.                       *)
(***************************************************************************)
EXTENDS Integers, Sequences

CONSTANTS
  Checkouts,        (* calls of razorpayCheckout; each verifies once     *)
  Deliveries,       (* webhook requests under way at the same time       *)
  Nobody,           (* no request                                        *)
  Events,           (* names of the events Razorpay sends of a payment   *)
  MaxCrashes,       (* bound: restarts of the server                     *)
  MaxFaults         (* bound: requests, writes and answers that fail     *)

Requests == Checkouts \cup Deliveries
Genesis == 0
Verify == "verify"  (* what a request of the verify endpoint asks for *)

ASSUME NamesAssumption ==
  /\ Checkouts \cap Deliveries = {} /\ Nobody \notin Requests
  /\ Verify \notin Events
ASSUME BoundsAssumption == MaxCrashes \in Nat /\ MaxFaults \in Nat

VARIABLES
  request,          (* per request: where its handler stands             *)
  seen,             (* _processedWebhookEvents                           *)
  gate,             (* holder of the audit's semaphore                   *)
  previous,         (* _previousHash                                     *)
  rows,             (* the lines of payment-webhooks.jsonl               *)
  forwards,         (* rows on their way to the Go server                *)
  goLog,            (* rows the Go server has appended                   *)
  starts,           (* history: rows there were when the server started  *)
  unkept,           (* history: marked as seen, but the append failed    *)
  crashes, faults

audit == <<gate, previous, rows>>
mirror == <<forwards, goLog>>
history == <<starts, unkept>>
bounds == <<crashes, faults>>
serverVars == <<request, seen, audit, mirror, history, bounds>>

Idle == [pc |-> "idle", payment |-> Nobody, event |-> Verify, signed |-> FALSE,
         base |-> Genesis]
Arriving(c, e, signed) ==
  [Idle EXCEPT !.pc = "received", !.payment = c, !.event = e, !.signed = signed]
Answers == {"ok", "refused", "error"}

ServerInit ==
  /\ request = [r \in Requests |-> Idle]
  /\ seen = {} /\ gate = Nobody /\ previous = Genesis /\ rows = <<>>
  /\ forwards = {} /\ goLog = {}
  /\ starts = {0} /\ unkept = {} /\ crashes = 0 /\ faults = 0
-----------------------------------------------------------------------------
Goto(r, pc) == request' = [request EXCEPT ![r].pc = pc]

(* Slip: a valid signature is answered at once. *)
ReceiveVerify_Unrecorded(r) ==
  /\ request[r].pc = "received" /\ request[r].event = Verify
  /\ Goto(r, IF request[r].signed THEN "ok" ELSE "queued")
  /\ UNCHANGED <<seen, audit, mirror, history, bounds>>

(* VerifyPaymentAsync: whatever the signature is worth, it is recorded. *)
ReceiveVerify(r) ==
  /\ request[r].pc = "received" /\ request[r].event = Verify
  /\ Goto(r, "queued")
  /\ UNCHANGED <<seen, audit, mirror, history, bounds>>

(* Slip: the payment is marked before the signature is checked. *)
RefuseWebhook_Marked(d) ==
  /\ request[d].pc = "received" /\ request[d].event \in Events /\ ~request[d].signed
  /\ seen' = seen \cup {request[d].payment}
  /\ Goto(d, "refused")
  /\ UNCHANGED <<audit, mirror, history, bounds>>

RefuseWebhook(d) ==
  /\ request[d].pc = "received" /\ request[d].event \in Events /\ ~request[d].signed
  /\ Goto(d, "refused")
  /\ UNCHANGED <<seen, audit, mirror, history, bounds>>

IgnoreWebhook(d) ==
  /\ request[d].pc = "received" /\ request[d].event \in Events /\ request[d].signed
  /\ request[d].payment \in seen
  /\ Goto(d, "ok")
  /\ UNCHANGED <<seen, audit, mirror, history, bounds>>

(* Slip: the event is looked up here and marked elsewhere. *)
MarkWebhook_CheckOnly(d) ==
  /\ request[d].pc = "received" /\ request[d].event \in Events /\ request[d].signed
  /\ request[d].payment \notin seen
  /\ Goto(d, "queued")
  /\ UNCHANGED <<seen, audit, mirror, history, bounds>>

(* TryAdd marks the payment, and only then the row is written. *)
MarkWebhook(d) ==
  /\ request[d].pc = "received" /\ request[d].event \in Events /\ request[d].signed
  /\ request[d].payment \notin seen
  /\ seen' = seen \cup {request[d].payment}
  /\ Goto(d, "queued")
  /\ UNCHANGED <<audit, mirror, history, bounds>>
-----------------------------------------------------------------------------
(* PaymentAuditService._gate *)
Free == gate = Nobody

(* Slip: the row is sent to the Go server before it is written. *)
Enter_Forwards(r) ==
  /\ request[r].pc = "queued" /\ Free
  /\ gate' = r
  /\ request' = [request EXCEPT ![r].pc = "writing", ![r].base = previous]
  /\ forwards' = forwards \cup {Len(rows) + 1}
  /\ UNCHANGED <<seen, previous, rows, goLog, history, bounds>>

(* AppendAsync: past the gate, the row is built on the last hash. *)
Enter(r) ==
  /\ request[r].pc = "queued" /\ Free
  /\ gate' = r
  /\ request' = [request EXCEPT ![r].pc = "writing", ![r].base = previous]
  /\ UNCHANGED <<seen, previous, rows, mirror, history, bounds>>

StateOf(q) ==
  IF q.event \in Events THEN "accepted" ELSE IF q.signed THEN "verified" ELSE "rejected"
Row(q) == [payment |-> q.payment, event |-> q.event, state |-> StateOf(q), prev |-> q.base]

(* The line is written, its hash remembered, the gate released, and the row   *)
(* sent to the Go server without waiting for it; then the request is answered. *)
Write(r) ==
  /\ request[r].pc = "writing"
  /\ rows' = Append(rows, Row(request[r])) /\ previous' = Len(rows')
  /\ gate' = Nobody /\ forwards' = forwards \cup {Len(rows')}
  /\ request' = [request EXCEPT ![r].pc = IF request[r].signed THEN "ok" ELSE "refused",
                                ![r].base = Genesis]
  /\ UNCHANGED <<seen, goLog, history, bounds>>

(* In AppendAsync on behalf of a webhook. *)
Marked(r) == request[r].event \in Events /\ request[r].pc \in {"queued", "writing"}
(* Slip: the gate is not released. *)
Fail_KeepsGate(r) ==
  /\ request[r].pc \in {"received", "queued", "writing"} /\ faults < MaxFaults
  /\ faults' = faults + 1
  /\ unkept' = IF Marked(r) THEN unkept \cup {request[r].payment} ELSE unkept
  /\ Goto(r, "error")
  /\ UNCHANGED <<seen, audit, mirror, starts, crashes>>

(* Slip: a request that waits for the gate releases it. *)
Fail_Releases(r) ==
  /\ request[r].pc \in {"received", "queued", "writing"} /\ faults < MaxFaults
  /\ faults' = faults + 1 /\ gate' = Nobody
  /\ unkept' = IF Marked(r) THEN unkept \cup {request[r].payment} ELSE unkept
  /\ Goto(r, "error")
  /\ UNCHANGED <<seen, previous, rows, mirror, starts, crashes>>

(* The client hung up, the settings are missing, the body is no JSON or the   *)
(* line cannot be written: the handler throws, and the gate is released if it *)
(* was entered.                                                               *)
Fail(r) ==
  /\ request[r].pc \in {"received", "queued", "writing"} /\ faults < MaxFaults
  /\ faults' = faults + 1
  /\ gate' = IF gate = r THEN Nobody ELSE gate
  /\ unkept' = IF Marked(r) THEN unkept \cup {request[r].payment} ELSE unkept
  /\ Goto(r, "error")
  /\ UNCHANGED <<seen, previous, rows, mirror, starts, crashes>>
-----------------------------------------------------------------------------
(* ForwardToGoAsync: tried once, on its own, in no order.  The Go server      *)
(* appends what it is sent (handlePaymentEvent).                              *)
Forward(n) ==
  /\ n \in forwards
  /\ forwards' = forwards \ {n} /\ goLog' = goLog \cup {n}
  /\ UNCHANGED <<request, seen, audit, history, bounds>>

ForwardFails(n) ==
  /\ n \in forwards /\ faults < MaxFaults
  /\ forwards' = forwards \ {n} /\ faults' = faults + 1
  /\ UNCHANGED <<request, seen, audit, goLog, history, crashes>>

(* The server stops and starts: what it knew of webhooks and of the last hash *)
(* is lost, and so are the requests it had not answered.                      *)
Restart ==
  /\ crashes < MaxCrashes
  /\ crashes' = crashes + 1
  /\ seen' = {} /\ gate' = Nobody /\ previous' = Genesis /\ forwards' = {}
  /\ starts' = starts \cup {Len(rows)}
  /\ unkept' = unkept \cup {request[r].payment : r \in {q \in Requests : Marked(q)}}
  /\ request' = [r \in Requests |->
       IF request[r].pc \in Answers \cup {"idle"} THEN request[r]
       ELSE [request[r] EXCEPT !.pc = "error"]]
  /\ UNCHANGED <<rows, goLog, faults>>

Handle(r) ==
  \/ ReceiveVerify(r) \/ RefuseWebhook(r) \/ IgnoreWebhook(r) \/ MarkWebhook(r)
  \/ Enter(r) \/ Write(r)

ServerNext ==
  \/ \E r \in Requests : Handle(r) \/ Fail(r)
  \/ \E n \in forwards : Forward(n) \/ ForwardFails(n)
  \/ Restart
-----------------------------------------------------------------------------
(* Every variable has its type. *)
ServerTypeOK ==
  /\ request \in [Requests ->
       [pc : {"idle", "received", "queued", "writing"} \cup Answers,
        payment : Checkouts \cup {Nobody}, event : Events \cup {Verify},
        signed : BOOLEAN, base : Nat]]
  /\ seen \subseteq Checkouts /\ gate \in Requests \cup {Nobody} /\ previous \in Nat
  /\ rows \in Seq([payment : Checkouts, event : Events \cup {Verify},
                   state : {"verified", "rejected", "accepted"}, prev : Nat])
  /\ forwards \subseteq 1..Len(rows) /\ goLog \subseteq 1..Len(rows)
  /\ starts \subseteq Nat /\ unkept \subseteq Checkouts
  /\ crashes \in 0..MaxCrashes /\ faults \in 0..MaxFaults

(* "A separate hash-chained audit stream": however requests overlap and       *)
(* fail, every row is chained to the one before it, but for the first one     *)
(* after a start of the server, which begins a chain of its own.              *)
ChainPerStart ==
  \A n \in 1..Len(rows) :
    rows[n].prev = IF n - 1 \in starts THEN Genesis ELSE n - 1

(* "Ignores duplicate payment events": between two starts of the server a     *)
(* payment's webhooks leave one row, also when they arrive at the same time   *)
(* or again while the first is being written.                                 *)
WebhookOncePerStart ==
  \A m, n \in 1..Len(rows) :
    /\ m < n /\ rows[m].event \in Events /\ rows[n].event \in Events
    /\ rows[m].payment = rows[n].payment
    => \E s \in starts : m <= s /\ s < n

(* A payment whose webhooks are ignored from now on has its row, or a request *)
(* is about to write it, or the append of its first webhook is known to have  *)
(* failed: there is no other way to lose one.                                 *)
SeenIsRecorded ==
  \A c \in seen :
    \/ \E n \in 1..Len(rows) : rows[n].payment = c /\ rows[n].event \in Events
    \/ \E r \in Requests : Marked(r) /\ request[r].payment = c
    \/ c \in unkept

(* "Validates the signature and records accepted events": an event that was   *)
(* answered with success has a row, or a request is about to write it.        *)
AcceptedIsRecorded ==
  \A d \in Deliveries :
    LET About(payment, event) == payment = request[d].payment /\ event = request[d].event
    IN  request[d].event \in Events /\ request[d].pc = "ok" =>
          \/ \E n \in 1..Len(rows) : About(rows[n].payment, rows[n].event)
          \/ \E r \in Requests : Marked(r) /\ About(request[r].payment, request[r].event)
=============================================================================
