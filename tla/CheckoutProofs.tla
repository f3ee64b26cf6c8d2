--------------------------- MODULE CheckoutProofs ---------------------------
(***************************************************************************)
(* Theorems about Checkout and the payment service it talks to: for any    *)
(* number of checkouts, webhook requests, restarts and failures the log is *)
(* chained between two starts, a webhook leaves one row between them, what *)
(* is marked as seen is accounted for, and the page is told "ok" only of a *)
(* payment that was made and recorded.                                     *)
(***************************************************************************)
EXTENDS Checkout, SequenceTheorems, TLAPS

-----------------------------------------------------------------------------
(* The gate is held by the request that writes, and by it only. *)
GateHeld == \A r \in Requests : request[r].pc = "writing" <=> gate = r

(* The row in hand is chained to the last one, or starts a chain. *)
LastHash == previous = IF Len(rows) \in starts THEN Genesis ELSE Len(rows)
BuiltOnLast == \A r \in Requests : request[r].pc = "writing" => request[r].base = previous
StartsAreBehind == \A s \in starts : s <= Len(rows)

(* A request knows what it is about; a checkout's is the verification of the  *)
(* payment that was made of it, a delivery's an event.                        *)
Addressed ==
  /\ \A r \in Requests : request[r].pc # "idle" => request[r].payment \in Checkouts
  /\ \A c \in Checkouts :
       /\ request[c].event = Verify
       /\ request[c].pc # "idle" => request[c].payment = c /\ c \in paid
  /\ \A d \in Deliveries : request[d].pc # "idle" => request[d].event \in Events

ChainInv == GateHeld /\ LastHash /\ BuiltOnLast /\ StartsAreBehind /\ ChainPerStart

-----------------------------------------------------------------------------
LEMMA InitTypes == Init => TypeOK /\ Addressed
<1> SUFFICES ASSUME Init PROVE TypeOK /\ Addressed
  OBVIOUS
<1> USE DEF Init, ServerInit, Idle, Genesis
<1>1. ServerTypeOK
  <2>1. rows \in Seq([payment : Checkouts, event : Events \cup {Verify},
                      state : {"verified", "rejected", "accepted"}, prev : Nat])
    BY DEF ServerInit
  <2> QED
    BY <2>1, BoundsAssumption DEF ServerTypeOK
<1>2. TypeOK
  BY <1>1 DEF TypeOK
<1> QED
  BY <1>2 DEF Addressed, Requests

(* What an action does to the requests: the one it is about changes its place *)
(* and keeps what it asks, the others keep everything.                        *)
RequestType ==
  [pc : {"idle", "received", "queued", "writing"} \cup Answers,
   payment : Checkouts \cup {Nobody}, event : Events \cup {Verify},
   signed : BOOLEAN, base : Nat]
RowType ==
  [payment : Checkouts, event : Events \cup {Verify},
   state : {"verified", "rejected", "accepted"}, prev : Nat]

SameQuestion(r) ==
  /\ request'[r].payment = request[r].payment /\ request'[r].event = request[r].event
  /\ request'[r].signed = request[r].signed
Moved(r, pc, base) ==
  /\ request' \in [Requests -> RequestType]
  /\ request'[r].pc = pc /\ request'[r].base = base /\ SameQuestion(r)
  /\ \A q \in Requests \ {r} : request'[q] = request[q]

LEMMA Movement ==
  ASSUME request \in [Requests -> RequestType], NEW r \in Requests,
         NEW pc \in {"idle", "received", "queued", "writing"} \cup Answers, NEW base \in Nat
  PROVE  /\ Goto(r, pc) => Moved(r, pc, request[r].base)
         /\ request' = [request EXCEPT ![r].pc = pc, ![r].base = base]
              => Moved(r, pc, base)
<1> DEFINE A == [request[r] EXCEPT !.pc = pc]
           B == [A EXCEPT !.base = base]
<1>1. request[r] \in RequestType
  OBVIOUS
<1>2. /\ A \in RequestType /\ A.pc = pc /\ A.base = request[r].base
      /\ A.payment = request[r].payment /\ A.event = request[r].event
      /\ A.signed = request[r].signed
  BY <1>1 DEF RequestType
<1>3. /\ B \in RequestType /\ B.pc = pc /\ B.base = base
      /\ B.payment = request[r].payment /\ B.event = request[r].event
      /\ B.signed = request[r].signed
  BY <1>2 DEF RequestType
<1>4. Goto(r, pc) => request' = [request EXCEPT ![r] = A]
  BY DEF Goto
<1>5. request' = [request EXCEPT ![r].pc = pc, ![r].base = base]
        => request' = [request EXCEPT ![r] = B]
  OBVIOUS
<1> HIDE DEF A, B
<1>6. Goto(r, pc) => Moved(r, pc, request[r].base)
  BY <1>2, <1>4 DEF Moved, SameQuestion
<1>7. request' = [request EXCEPT ![r].pc = pc, ![r].base = base] => Moved(r, pc, base)
  BY <1>3, <1>5 DEF Moved, SameQuestion
<1> QED
  BY <1>6, <1>7

(* A restart leaves a request where it is or answers it with an error. *)
Stopped ==
  /\ request' \in [Requests -> RequestType]
  /\ \A r \in Requests :
       /\ SameQuestion(r) /\ request'[r].base = request[r].base
       /\ request'[r].pc = IF request[r].pc \in Answers \cup {"idle"}
                            THEN request[r].pc ELSE "error"

LEMMA RestartStops ==
  ASSUME request \in [Requests -> RequestType], Restart
  PROVE  Stopped
<1> DEFINE E(r) == [request[r] EXCEPT !.pc = "error"]
<1>1. ASSUME NEW r \in Requests
      PROVE  /\ E(r) \in RequestType /\ E(r).pc = "error" /\ E(r).base = request[r].base
             /\ E(r).payment = request[r].payment /\ E(r).event = request[r].event
             /\ E(r).signed = request[r].signed
  BY DEF RequestType, Answers
<1>2. request' = [r \in Requests |->
        IF request[r].pc \in Answers \cup {"idle"} THEN request[r] ELSE E(r)]
  BY DEF Restart
<1> HIDE DEF E
<1> QED
  BY <1>1, <1>2 DEF Stopped, SameQuestion

LEMMA Moves ==
  ASSUME TypeOK, NEW r \in Requests
  PROVE  /\ ReceiveVerify(r) => Moved(r, "queued", request[r].base)
         /\ RefuseWebhook(r) => Moved(r, "refused", request[r].base)
         /\ IgnoreWebhook(r) => Moved(r, "ok", request[r].base)
         /\ MarkWebhook(r) => Moved(r, "queued", request[r].base)
         /\ Enter(r) => Moved(r, "writing", previous)
         /\ Write(r) => Moved(r, IF request[r].signed THEN "ok" ELSE "refused", Genesis)
         /\ Fail(r) => Moved(r, "error", request[r].base)
<1>1. /\ request \in [Requests -> RequestType] /\ previous \in Nat /\ Genesis \in Nat
      /\ {"queued", "writing", "refused", "ok", "error"}
           \subseteq {"idle", "received", "queued", "writing"} \cup Answers
  BY DEF TypeOK, ServerTypeOK, RequestType, Genesis, Answers
<1>2. Enter(r) => Moved(r, "writing", previous)
  BY <1>1, Movement DEF Enter
<1>3. Write(r) => Moved(r, IF request[r].signed THEN "ok" ELSE "refused", Genesis)
  <2>1. (IF request[r].signed THEN "ok" ELSE "refused") \in {"ok", "refused"}
    OBVIOUS
  <2> DEFINE answered == IF request[r].signed THEN "ok" ELSE "refused"
  <2>2. Write(r) => request' = [request EXCEPT ![r].pc = answered, ![r].base = Genesis]
    BY DEF Write
  <2> HIDE DEF answered
  <2>3. answered \in {"ok", "refused"}
    BY <2>1 DEF answered
  <2>4. Write(r) => Moved(r, answered, Genesis)
    BY <1>1, <2>2, <2>3, Movement
  <2> QED
    BY <2>4 DEF answered
<1> QED
  BY <1>1, <1>2, <1>3, Movement DEF ReceiveVerify, RefuseWebhook, IgnoreWebhook, MarkWebhook, Fail

(* What Checkout does to a request: the browser and Razorpay start one that   *)
(* was idle, and an answered one is idle again.                               *)
Started(r, c, e, signed) ==
  /\ request' \in [Requests -> RequestType]
  /\ request'[r].pc = "received" /\ request'[r].payment = c /\ request'[r].event = e
  /\ request'[r].signed = signed
  /\ \A q \in Requests \ {r} : request'[q] = request[q]

LEMMA Starts ==
  ASSUME request \in [Requests -> RequestType], NEW r \in Requests,
         NEW c \in Checkouts, NEW e \in Events \cup {Verify}, NEW signed \in BOOLEAN,
         request' = [request EXCEPT ![r] = Arriving(c, e, signed)]
  PROVE  Started(r, c, e, signed)
<1>1. /\ Arriving(c, e, signed) \in RequestType /\ Arriving(c, e, signed).pc = "received"
      /\ Arriving(c, e, signed).payment = c /\ Arriving(c, e, signed).event = e
      /\ Arriving(c, e, signed).signed = signed
  BY DEF Arriving, Idle, RequestType, Genesis
<1> QED
  BY <1>1 DEF Started

-----------------------------------------------------------------------------
(* The types, in parts: the requests, the rows and the rest. *)
ServerRestOK ==
  /\ seen \subseteq Checkouts /\ gate \in Requests \cup {Nobody} /\ previous \in Nat
  /\ forwards \subseteq 1..Len(rows) /\ goLog \subseteq 1..Len(rows)
  /\ starts \subseteq Nat /\ unkept \subseteq Checkouts
  /\ crashes \in 0..MaxCrashes /\ faults \in 0..MaxFaults
BrowserOK ==
  /\ call \in [Checkouts -> {"unused", "ordering", "open", "verifying", "stuck", "closed", "done"}]
  /\ answer \in [Checkouts -> {None, "ok", "no", "gone"}]
  /\ paid \subseteq Checkouts /\ hooks \subseteq paid \X Events
Parts ==
  /\ request \in [Requests -> RequestType] /\ rows \in Seq(RowType)
  /\ ServerRestOK /\ BrowserOK

LEMMA TypesAreParts == TypeOK <=> Parts
BY DEF TypeOK, ServerTypeOK, Parts, RequestType, RowType, ServerRestOK, BrowserOK

LEMMA BrowserUnchanged == BrowserOK /\ UNCHANGED <<browser, razorpay>> => BrowserOK'
BY DEF BrowserOK, browser, razorpay

LEMMA MovedStaysAddressed ==
  ASSUME Addressed, NEW r \in Requests, NEW pc, NEW base, Moved(r, pc, base),
         request[r].pc # "idle", paid' = paid
  PROVE  Addressed' /\ request' \in [Requests -> RequestType]
BY DEF Addressed, Moved, SameQuestion, Requests

-----------------------------------------------------------------------------
(* Types: what the server does. *)
LEMMA ServerTypes ==
  ASSUME Parts, Addressed, ServerNext, UNCHANGED <<browser, razorpay>>
  PROVE  Parts' /\ Addressed'
<1>1. TypeOK /\ BrowserOK' /\ paid' = paid
  BY TypesAreParts, BrowserUnchanged DEF Parts, razorpay
<1>2. SUFFICES Addressed' /\ request' \in [Requests -> RequestType]
               /\ rows' \in Seq(RowType) /\ ServerRestOK'
  BY <1>1 DEF Parts
<1> USE DEF serverVars, audit, mirror, history, bounds
<1>3. ASSUME NEW r \in Requests, Handle(r) \/ Fail(r)
      PROVE  Addressed' /\ request' \in [Requests -> RequestType]
  <2>1. request[r].pc # "idle"
    BY <1>3 DEF Handle, ReceiveVerify, RefuseWebhook, IgnoreWebhook, MarkWebhook, Enter,
                Write, Fail
  <2>2. \E pc, base : Moved(r, pc, base)
    BY <1>1, <1>3, Moves DEF Handle
  <2> QED
    BY <1>1, <2>1, <2>2, MovedStaysAddressed
<1>4. ASSUME NEW r \in Requests,
             ReceiveVerify(r) \/ RefuseWebhook(r) \/ IgnoreWebhook(r)
      PROVE  rows' \in Seq(RowType) /\ ServerRestOK'
  BY <1>4 DEF ReceiveVerify, RefuseWebhook, IgnoreWebhook, Parts, ServerRestOK
<1>5. ASSUME NEW r \in Requests, request[r].pc # "idle" PROVE request[r].payment \in Checkouts
  BY <1>5 DEF Addressed
<1>6. ASSUME NEW r \in Requests, MarkWebhook(r) \/ Enter(r) \/ Fail(r)
      PROVE  rows' \in Seq(RowType) /\ ServerRestOK'
  BY <1>5, <1>6, BoundsAssumption
     DEF MarkWebhook, Enter, Fail, Marked, Parts, ServerRestOK
<1>7. ASSUME NEW r \in Requests, Write(r)
      PROVE  rows' \in Seq(RowType) /\ ServerRestOK'
  <2>1. Row(request[r]) \in RowType
    BY <1>5, <1>7 DEF Write, Row, StateOf, RowType, RequestType, Parts
  <2>2. rows' \in Seq(RowType) /\ Len(rows') = Len(rows) + 1 /\ Len(rows) \in Nat
    BY <1>7, <2>1 DEF Write, Parts
  <2> QED
    BY <1>7, <2>2 DEF Write, Parts, ServerRestOK
<1>8. ASSUME NEW n \in forwards, Forward(n) \/ ForwardFails(n)
      PROVE  rows' \in Seq(RowType) /\ ServerRestOK'
  <2>1. CASE Forward(n)
    BY <2>1 DEF Forward, Parts, ServerRestOK
  <2>2. CASE ForwardFails(n)
    BY <2>2, BoundsAssumption DEF ForwardFails, Parts, ServerRestOK
  <2> QED
    BY <1>8, <2>1, <2>2
<1>9. ASSUME NEW n \in forwards, Forward(n) \/ ForwardFails(n)
      PROVE  Addressed' /\ request' \in [Requests -> RequestType]
  BY <1>1, <1>9 DEF Forward, ForwardFails, Parts, Addressed
<1>10. ASSUME Restart
       PROVE  rows' \in Seq(RowType) /\ ServerRestOK'
  <2>1. Len(rows) \in Nat
    BY DEF Parts
  <2>2. \A r \in Requests : Marked(r) => request[r].payment \in Checkouts
    BY <1>5 DEF Marked
  <2> QED
    BY <1>10, <2>1, <2>2, BoundsAssumption DEF Restart, Genesis, Parts, ServerRestOK
<1>11. ASSUME Restart
       PROVE  Addressed' /\ request' \in [Requests -> RequestType]
  BY <1>1, <1>11, RestartStops DEF Parts, Stopped, SameQuestion, Addressed, Requests
<1> QED
  BY <1>3, <1>4, <1>6, <1>7, <1>8, <1>9, <1>10, <1>11 DEF ServerNext, Handle

-----------------------------------------------------------------------------
(* Types: what the browser and Razorpay do.  The steps that reach the server  *)
(* are those that start a request and the one that makes it idle again.       *)
Elsewhere == \E c \in Checkouts :
  \/ Click(c) \/ OrderRefused(c) \/ OrderThrows(c) \/ OpenForm(c) \/ PaymentFailed(c)
  \/ Dismiss(c) \/ Verified(c) \/ VerifyThrows(c) \/ PaysLate(c)
Asks == \E c \in Checkouts :
  \/ \E signed \in BOOLEAN : Handler(c, signed)
  \/ \E e \in Events : Deliver(c, e) \/ \E d \in Deliveries : Forge(d, c, e)

LEMMA NextSteps ==
  Next => \/ ServerNext /\ UNCHANGED <<browser, razorpay>>
          \/ Elsewhere \/ Asks \/ Reload \/ \E d \in Deliveries : Answered(d)
BY DEF Next, Script, Form, Elsewhere, Asks

LEMMA PageTypes ==
  ASSUME BrowserOK, Elsewhere \/ Reload
  PROVE  BrowserOK'
<1> USE DEF BrowserOK, razorpay, At, Resolve, None
<1>1. ASSUME NEW c \in Checkouts,
             Click(c) \/ OrderRefused(c) \/ OrderThrows(c) \/ OpenForm(c)
      PROVE  BrowserOK'
  BY <1>1 DEF Click, OrderRefused, OrderThrows, OpenForm
<1>2. ASSUME NEW c \in Checkouts,
             PaymentFailed(c) \/ Dismiss(c) \/ Verified(c) \/ VerifyThrows(c)
      PROVE  BrowserOK'
  BY <1>2 DEF PaymentFailed, Dismiss, Verified, VerifyThrows
<1>3. ASSUME NEW c \in Checkouts, PaysLate(c) PROVE BrowserOK'
  BY <1>3 DEF PaysLate, Made, browser
<1>4. ASSUME Reload PROVE BrowserOK'
  BY <1>4 DEF Reload
<1> QED
  BY <1>1, <1>2, <1>3, <1>4 DEF Elsewhere

(* Only failures are counted when nothing reaches the server. *)
LEMMA PageLeavesServer ==
  ASSUME Parts, Elsewhere \/ Reload
  PROVE  /\ UNCHANGED <<request, seen, audit, mirror, history, crashes>>
         /\ faults' \in 0..MaxFaults
BY BoundsAssumption
   DEF Parts, ServerRestOK, Elsewhere, Reload, Click, OrderRefused, OrderThrows, OpenForm,
       PaymentFailed, Dismiss, Verified, VerifyThrows, PaysLate, serverVars, bounds

(* A request is asked for where none is under way. *)
LEMMA AskStarts ==
  ASSUME Parts, Addressed, Asks
  PROVE  /\ \E r \in Requests, c \in Checkouts, e \in Events \cup {Verify}, signed \in BOOLEAN :
              /\ request[r].pc = "idle" /\ Started(r, c, e, signed)
              /\ r \in Checkouts => e = Verify /\ r = c /\ c \in paid'
              /\ r \in Deliveries => e \in Events
         /\ UNCHANGED <<seen, audit, mirror, history, crashes>>
         /\ faults' \in 0..MaxFaults /\ paid \subseteq paid' /\ BrowserOK'
<1> USE DEF bounds, browser, razorpay
<1>r. /\ request \in [Requests -> RequestType] /\ Checkouts \subseteq Requests
      /\ Deliveries \subseteq Requests /\ Deliveries \cap Checkouts = {}
  BY NamesAssumption DEF Parts, Requests
<1>f. /\ faults' = faults => faults' \in 0..MaxFaults
      /\ faults < MaxFaults /\ faults' = faults + 1 => faults' \in 0..MaxFaults
  BY BoundsAssumption DEF Parts, ServerRestOK
<1>b. UNCHANGED <<call, answer, paid, hooks>> => BrowserOK'
  BY DEF Parts, BrowserOK
<1>1. ASSUME NEW c \in Checkouts, NEW signed \in BOOLEAN, Handler(c, signed)
      PROVE  /\ request[c].pc = "idle" /\ Started(c, c, Verify, signed) /\ c \in paid'
             /\ UNCHANGED <<seen, audit, mirror, history, crashes>>
             /\ faults' \in 0..MaxFaults /\ paid \subseteq paid' /\ BrowserOK'
  <2>1. request[c].pc = "idle" /\ c \in paid' /\ paid \subseteq paid'
    BY <1>1 DEF Handler, Made, Addressed
  <2>2. Started(c, c, Verify, signed)
    <3>1. c \in Requests /\ request' = [request EXCEPT ![c] = Arriving(c, Verify, signed)]
      BY <1>1, <1>r DEF Handler
    <3> QED
      BY <1>r, <3>1, Starts
  <2>3. BrowserOK'
    BY <1>1 DEF Handler, Made, At, Parts, BrowserOK
  <2> QED
    BY <1>1, <1>f, <2>1, <2>2, <2>3 DEF Handler
<1>2. ASSUME NEW c \in Checkouts, NEW e \in Events, Deliver(c, e)
      PROVE  /\ \E d \in Deliveries : request[d].pc = "idle" /\ Started(d, c, e, TRUE)
             /\ UNCHANGED <<seen, audit, mirror, history, crashes>>
             /\ faults' \in 0..MaxFaults /\ paid' = paid /\ BrowserOK'
  <2> DEFINE idle == {d \in Deliveries : request[d].pc = "idle"}
             d == CHOOSE x \in idle : TRUE
  <2>1. d \in idle /\ request' = [request EXCEPT ![d] = Arriving(c, e, TRUE)]
    BY <1>2 DEF Deliver
  <2> HIDE DEF d
  <2>2. Started(d, c, e, TRUE)
    BY <1>r, <2>1, Starts
  <2> QED
    BY <1>2, <1>f, <1>b, <2>1, <2>2 DEF Deliver
<1>3. ASSUME NEW d \in Deliveries, NEW c \in Checkouts, NEW e \in Events, Forge(d, c, e)
      PROVE  /\ request[d].pc = "idle" /\ Started(d, c, e, FALSE)
             /\ UNCHANGED <<seen, audit, mirror, history, crashes>>
             /\ faults' \in 0..MaxFaults /\ paid' = paid /\ BrowserOK'
  <2>1. d \in Requests /\ request' = [request EXCEPT ![d] = Arriving(c, e, FALSE)]
    BY <1>3, <1>r DEF Forge
  <2>2. Started(d, c, e, FALSE)
    BY <1>r, <2>1, Starts
  <2> QED
    BY <1>3, <1>f, <1>b, <2>2 DEF Forge
<1>4. Asks => /\ UNCHANGED <<seen, audit, mirror, history, crashes>>
              /\ faults' \in 0..MaxFaults /\ paid \subseteq paid' /\ BrowserOK'
  BY <1>1, <1>2, <1>3 DEF Asks
<1> QED
  BY <1>1, <1>2, <1>3, <1>4, <1>r DEF Asks

(* A request that starts is addressed as its sender addresses it. *)
LEMMA StartedIsAddressed ==
  ASSUME Addressed, paid \subseteq paid', NEW r \in Requests, NEW c \in Checkouts,
         NEW e, NEW signed, Started(r, c, e, signed),
         r \in Checkouts => e = Verify /\ r = c /\ c \in paid',
         r \in Deliveries => e \in Events
  PROVE  Addressed'
<1>1. Checkouts \subseteq Requests /\ Deliveries \subseteq Requests
  BY DEF Requests
<1>2. ASSUME NEW q \in Requests, request'[q].pc # "idle"
      PROVE  request'[q].payment \in Checkouts
  BY <1>2 DEF Addressed, Started
<1>3. ASSUME NEW d \in Checkouts
      PROVE  /\ request'[d].event = Verify
             /\ request'[d].pc # "idle" => request'[d].payment = d /\ d \in paid'
  <2>1. CASE d = r
    BY <1>3, <2>1 DEF Started
  <2>2. CASE d # r
    BY <1>1, <1>3, <2>2 DEF Addressed, Started
  <2> QED
    BY <2>1, <2>2
<1>4. ASSUME NEW d \in Deliveries, request'[d].pc # "idle"
      PROVE  request'[d].event \in Events
  BY <1>1, <1>4 DEF Addressed, Started
<1> QED
  BY <1>2, <1>3, <1>4 DEF Addressed

Ended(d) ==
  /\ request' \in [Requests -> RequestType] /\ request'[d].pc = "idle"
  /\ \A q \in Requests \ {d} : request'[q] = request[q]

LEMMA AnsweredEnds ==
  ASSUME Parts, NEW d \in Deliveries, Answered(d)
  PROVE  /\ request[d].pc \in Answers /\ Ended(d) /\ BrowserOK'
         /\ UNCHANGED <<seen, audit, mirror, history, bounds, browser, paid>>
<1>1. Idle \in RequestType /\ Idle.pc = "idle"
  BY DEF Idle, RequestType, Genesis
<1>2. request' = [request EXCEPT ![d] = Idle]
  BY DEF Answered
<1>3. Ended(d)
  BY <1>1, <1>2 DEF Parts, Ended, Requests
<1>4. BrowserOK'
  BY DEF Answered, Parts, BrowserOK, browser
<1> QED
  BY <1>3, <1>4 DEF Answered

LEMMA Types ==
  ASSUME Parts, Addressed, [Next]_vars
  PROVE  Parts' /\ Addressed'
<1> USE DEF serverVars, audit, mirror, history, bounds
<1>1. CASE ServerNext /\ UNCHANGED <<browser, razorpay>>
  BY <1>1, ServerTypes
<1>2. CASE Elsewhere \/ Reload
  <2>1. BrowserOK' /\ paid \subseteq paid'
    BY <1>2, PageTypes DEF Parts, Elsewhere, Reload, Click, OrderRefused, OrderThrows, OpenForm,
       PaymentFailed, Dismiss, Verified, VerifyThrows, PaysLate, Made, razorpay
  <2> QED
    BY <1>2, <2>1, PageLeavesServer DEF Parts, ServerRestOK, Addressed
<1>3. CASE Asks
  <2>1. ServerRestOK' /\ rows' \in Seq(RowType) /\ BrowserOK'
    BY <1>3, AskStarts DEF Parts, ServerRestOK
  <2>2. PICK r \in Requests, c \in Checkouts, e \in Events \cup {Verify}, signed \in BOOLEAN :
          /\ Started(r, c, e, signed)
          /\ r \in Checkouts => e = Verify /\ r = c /\ c \in paid'
          /\ r \in Deliveries => e \in Events
    BY <1>3, AskStarts
  <2>3. paid \subseteq paid'
    BY <1>3, AskStarts
  <2>4. Addressed'
    BY <2>2, <2>3, StartedIsAddressed
  <2>5. request' \in [Requests -> RequestType]
    BY <2>2 DEF Started
  <2> QED
    BY <2>1, <2>4, <2>5 DEF Parts
<1>4. CASE \E d \in Deliveries : Answered(d)
  <2>1. ServerRestOK' /\ rows' \in Seq(RowType) /\ BrowserOK'
    BY <1>4, AnsweredEnds DEF Parts, ServerRestOK
  <2>2. Addressed' /\ request' \in [Requests -> RequestType]
    BY <1>4, AnsweredEnds, NamesAssumption DEF Addressed, Ended, Requests
  <2> QED
    BY <2>1, <2>2 DEF Parts
<1>5. CASE UNCHANGED vars
  BY <1>5 DEF vars, browser, razorpay, Parts, ServerRestOK, BrowserOK, Addressed
<1> QED
  BY <1>1, <1>2, <1>3, <1>4, <1>5, NextSteps

(* Every variable has its type. *)
THEOREM TypeCorrect == Spec => []TypeOK
<1>1. Init => Parts /\ Addressed
  BY InitTypes, TypesAreParts
<1>2. Parts /\ Addressed /\ [Next]_vars => (Parts /\ Addressed)'
  BY Types
<1> QED
  BY <1>1, <1>2, TypesAreParts, PTL DEF Spec

-----------------------------------------------------------------------------
(* The chain. *)
LEMMA Written ==
  ASSUME Parts, NEW r \in Requests, Write(r)
  PROVE  /\ Len(rows) \in Nat /\ Len(rows') = Len(rows) + 1
         /\ \A n \in 1..Len(rows) : rows'[n] = rows[n]
         /\ rows'[Len(rows) + 1] = Row(request[r])
         /\ \A n \in 1..Len(rows') : n \in 1..Len(rows) \/ n = Len(rows) + 1
<1>1. Len(rows) \in Nat /\ rows' = Append(rows, Row(request[r]))
  BY DEF Parts, Write
<1>2. /\ Len(rows') = Len(rows) + 1
      /\ \A n \in 1..Len(rows) : rows'[n] = rows[n]
      /\ rows'[Len(rows) + 1] = Row(request[r])
  BY <1>1 DEF Parts
<1> QED
  BY <1>1, <1>2

(* A step that lets a request start, be received, be answered or wait, or     *)
(* that is none of the server's, leaves the audit and who writes alone.       *)
Apart ==
  /\ UNCHANGED <<audit, starts>>
  /\ \A q \in Requests :
       \/ request'[q] = request[q]
       \/ request[q].pc # "writing" /\ request'[q].pc # "writing"

LEMMA ApartKeepsChain == ASSUME ChainInv, Apart PROVE ChainInv'
<1> USE DEF Apart, audit
<1>1. GateHeld' /\ LastHash' /\ StartsAreBehind' /\ ChainPerStart'
  BY DEF ChainInv, GateHeld, LastHash, StartsAreBehind, ChainPerStart
<1>2. BuiltOnLast'
  BY DEF ChainInv, BuiltOnLast
<1> QED
  BY <1>1, <1>2 DEF ChainInv

LEMMA Chained ==
  ASSUME Parts, Addressed, ChainInv, [Next]_vars
  PROVE  ChainInv'
<1>1. TypeOK /\ Len(rows) \in Nat /\ starts \subseteq Nat
  BY TypesAreParts DEF Parts, ServerRestOK
<1>2. ASSUME NEW r \in Requests,
             ReceiveVerify(r) \/ RefuseWebhook(r) \/ IgnoreWebhook(r) \/ MarkWebhook(r)
      PROVE  Apart
  BY <1>1, <1>2, Moves
     DEF ReceiveVerify, RefuseWebhook, IgnoreWebhook, MarkWebhook, Moved, Apart, history
<1>3. ASSUME NEW n \in forwards, Forward(n) \/ ForwardFails(n) PROVE Apart
  BY <1>3 DEF Forward, ForwardFails, Apart, history
<1>4. CASE Elsewhere \/ Reload
  BY <1>4, PageLeavesServer, ApartKeepsChain DEF Apart, history
<1>5. CASE Asks
  BY <1>5, AskStarts, ApartKeepsChain DEF Started, Apart, history
<1>6. CASE \E d \in Deliveries : Answered(d)
  BY <1>6, AnsweredEnds, ApartKeepsChain DEF Ended, Answers, Apart, history, Requests
<1>7. CASE UNCHANGED vars
  BY <1>7, ApartKeepsChain DEF vars, serverVars, history, Apart
<1>8. ASSUME NEW r \in Requests, Enter(r) PROVE ChainInv'
  <2>1. Moved(r, "writing", previous) /\ gate = Nobody /\ gate' = r
        /\ UNCHANGED <<previous, rows, starts>>
    BY <1>1, <1>8, Moves DEF Enter, Free, history
  <2>2. GateHeld'
    BY <2>1, NamesAssumption DEF ChainInv, GateHeld, Moved
  <2>3. BuiltOnLast'
    BY <2>1 DEF ChainInv, BuiltOnLast, Moved
  <2> QED
    BY <2>1, <2>2, <2>3 DEF ChainInv, LastHash, StartsAreBehind, ChainPerStart
<1>9. ASSUME NEW r \in Requests, Write(r) PROVE ChainInv'
  <2>1. /\ Moved(r, IF request[r].signed THEN "ok" ELSE "refused", Genesis)
        /\ request[r].pc = "writing" /\ gate' = Nobody /\ previous' = Len(rows')
        /\ starts' = starts
    BY <1>1, <1>9, Moves DEF Write, history
  <2>2. \A q \in Requests : request'[q].pc # "writing"
    BY <2>1 DEF ChainInv, GateHeld, Moved
  <2>3. GateHeld' /\ BuiltOnLast'
    BY <2>1, <2>2, NamesAssumption DEF GateHeld, BuiltOnLast
  <2>4. LastHash' /\ StartsAreBehind'
    BY <1>1, <1>9, <2>1, Written DEF ChainInv, StartsAreBehind, LastHash
  <2>5. rows'[Len(rows) + 1].prev = IF Len(rows) \in starts THEN Genesis ELSE Len(rows)
    <3>1. Row(request[r]).prev = request[r].base
      BY DEF Row
    <3> QED
      BY <1>9, <2>1, <3>1, Written DEF ChainInv, BuiltOnLast, LastHash
  <2>6. ChainPerStart'
    BY <1>1, <1>9, <2>1, <2>5, Written DEF ChainInv, ChainPerStart
  <2> QED
    BY <2>3, <2>4, <2>6 DEF ChainInv
<1>10. ASSUME NEW r \in Requests, Fail(r) PROVE ChainInv'
  <2>1. /\ Moved(r, "error", request[r].base) /\ gate' = (IF gate = r THEN Nobody ELSE gate)
        /\ UNCHANGED <<previous, rows, starts>>
    BY <1>1, <1>10, Moves DEF Fail
  <2>2. GateHeld'
    BY <2>1, NamesAssumption DEF ChainInv, GateHeld, Moved
  <2>3. BuiltOnLast'
    BY <2>1 DEF ChainInv, BuiltOnLast, Moved
  <2> QED
    BY <2>1, <2>2, <2>3 DEF ChainInv, LastHash, StartsAreBehind, ChainPerStart
<1>11. CASE Restart
  <2>1. /\ Stopped /\ gate' = Nobody /\ previous' = Genesis /\ rows' = rows
        /\ starts' = starts \cup {Len(rows)}
    BY <1>11, RestartStops DEF Restart, Parts
  <2>2. \A q \in Requests : request'[q].pc # "writing"
    BY <2>1 DEF Stopped, Answers
  <2>3. GateHeld' /\ BuiltOnLast'
    BY <2>1, <2>2, NamesAssumption DEF GateHeld, BuiltOnLast
  <2>4. LastHash' /\ StartsAreBehind' /\ ChainPerStart'
    BY <1>1, <2>1 DEF ChainInv, LastHash, StartsAreBehind, ChainPerStart
  <2> QED
    BY <2>3, <2>4 DEF ChainInv
<1> QED
  BY <1>2, <1>3, <1>4, <1>5, <1>6, <1>7, <1>8, <1>9, <1>10, <1>11, NextSteps, ApartKeepsChain
     DEF ServerNext, Handle

-----------------------------------------------------------------------------
(* Webhooks: a row or a request about to write one means the payment is       *)
(* marked; only one request is about to, and it finds no row of this start.   *)
Past(n) == \E s \in starts : n <= s
RowIsSeen ==
  \A n \in 1..Len(rows) : rows[n].event \in Events => rows[n].payment \in seen \/ Past(n)
MarkedIsSeen == \A r \in Requests : Marked(r) => request[r].payment \in seen
MarkedIsFirst ==
  \A r \in Requests, n \in 1..Len(rows) :
    /\ Marked(r) /\ rows[n].event \in Events /\ rows[n].payment = request[r].payment
    => Past(n)
MarkedOnce ==
  \A q, r \in Requests :
    Marked(q) /\ Marked(r) /\ request[q].payment = request[r].payment => q = r

HookInv ==
  /\ RowIsSeen /\ MarkedIsSeen /\ MarkedIsFirst /\ MarkedOnce
  /\ WebhookOncePerStart /\ SeenIsRecorded

(* Steps that leave the marks, the rows and who is about to write alone. *)
Unmarking ==
  /\ UNCHANGED <<seen, rows, history>>
  /\ \A q \in Requests : Marked(q)' <=> Marked(q)
  /\ \A q \in Requests : Marked(q) => request'[q].payment = request[q].payment

LEMMA UnmarkingKeepsHooks == ASSUME HookInv, Unmarking PROVE HookInv'
<1> USE DEF Unmarking, history
<1>1. RowIsSeen' /\ WebhookOncePerStart'
  BY DEF HookInv, RowIsSeen, WebhookOncePerStart, Past
<1>2. MarkedIsSeen' /\ MarkedIsFirst' /\ MarkedOnce'
  BY DEF HookInv, MarkedIsSeen, MarkedIsFirst, MarkedOnce, Past
<1>3. SeenIsRecorded'
  BY DEF HookInv, SeenIsRecorded
<1> QED
  BY <1>1, <1>2, <1>3 DEF HookInv

LEMMA HooksKept ==
  ASSUME Parts, Addressed, ChainInv, HookInv, [Next]_vars
  PROVE  HookInv'
<1>1. TypeOK /\ Len(rows) \in Nat /\ starts \subseteq Nat
  BY TypesAreParts DEF Parts, ServerRestOK
<1> USE DEF audit, history
<1>2. ASSUME NEW r \in Requests, ReceiveVerify(r) \/ RefuseWebhook(r) \/ IgnoreWebhook(r)
      PROVE  Unmarking
  BY <1>1, <1>2, Moves, NamesAssumption
     DEF ReceiveVerify, RefuseWebhook, IgnoreWebhook, Moved, SameQuestion, Unmarking, Marked
<1>3. ASSUME NEW r \in Requests, Enter(r) PROVE Unmarking
  BY <1>1, <1>3, Moves DEF Enter, Moved, SameQuestion, Unmarking, Marked
<1>4. ASSUME NEW n \in forwards, Forward(n) \/ ForwardFails(n) PROVE Unmarking
  BY <1>4 DEF Forward, ForwardFails, Unmarking, Marked
<1>5. CASE Elsewhere \/ Reload
  BY <1>5, PageLeavesServer, UnmarkingKeepsHooks DEF Unmarking, Marked
<1>6. CASE Asks
  BY <1>6, AskStarts, UnmarkingKeepsHooks DEF Started, Unmarking, Marked
<1>7. CASE \E d \in Deliveries : Answered(d)
  BY <1>7, AnsweredEnds, UnmarkingKeepsHooks DEF Ended, Answers, Unmarking, Marked, Requests
<1>8. CASE UNCHANGED vars
  BY <1>8, UnmarkingKeepsHooks DEF vars, serverVars, Unmarking, Marked
<1>9. ASSUME NEW r \in Requests, MarkWebhook(r) PROVE HookInv'
  <2>1. /\ Moved(r, "queued", request[r].base) /\ request[r].payment \notin seen
        /\ seen' = seen \cup {request[r].payment} /\ UNCHANGED <<rows, starts, unkept>>
        /\ request[r].event \in Events /\ request[r].pc = "received"
    BY <1>1, <1>9, Moves DEF MarkWebhook
  <2>2. /\ Marked(r)' /\ ~Marked(r) /\ request'[r].payment = request[r].payment
        /\ \A q \in Requests \ {r} : (Marked(q)' <=> Marked(q)) /\ request'[q] = request[q]
    BY <2>1 DEF Moved, SameQuestion, Marked
  <2>3. RowIsSeen' /\ WebhookOncePerStart'
    BY <2>1 DEF HookInv, RowIsSeen, WebhookOncePerStart, Past
  <2>4. MarkedIsSeen' /\ MarkedOnce'
    BY <2>1, <2>2 DEF HookInv, MarkedIsSeen, MarkedOnce
  <2>5. MarkedIsFirst'
    BY <2>1, <2>2 DEF HookInv, MarkedIsFirst, RowIsSeen, Past
  <2>6. SeenIsRecorded'
    BY <2>1, <2>2 DEF HookInv, SeenIsRecorded
  <2> QED
    BY <2>3, <2>4, <2>5, <2>6 DEF HookInv
<1>10. ASSUME NEW r \in Requests, Write(r) PROVE HookInv'
  <2>1. /\ Moved(r, IF request[r].signed THEN "ok" ELSE "refused", Genesis)
        /\ request[r].pc = "writing" /\ UNCHANGED <<seen, starts, unkept>>
    BY <1>1, <1>10, Moves DEF Write
  <2>2. /\ ~Marked(r)'
        /\ \A q \in Requests \ {r} : (Marked(q)' <=> Marked(q)) /\ request'[q] = request[q]
    BY <2>1 DEF Moved, Marked
  <2>3. /\ Row(request[r]).event = request[r].event
        /\ Row(request[r]).payment = request[r].payment
    BY DEF Row
  <2> DEFINE new == Len(rows) + 1
  <2>4. /\ rows'[new].event = request[r].event /\ rows'[new].payment = request[r].payment
        /\ new \in 1..Len(rows')
        /\ \A n \in 1..Len(rows) : rows'[n] = rows[n] /\ n \in 1..Len(rows')
        /\ \A n \in 1..Len(rows') : n \in 1..Len(rows) \/ n = new
    BY <1>1, <1>10, <2>3, Written
  <2>5. request[r].event \in Events => Marked(r)
    BY <2>1 DEF Marked
  <2>6. RowIsSeen'
    BY <2>1, <2>4, <2>5 DEF HookInv, RowIsSeen, MarkedIsSeen, Past
  <2>7. MarkedIsSeen' /\ MarkedOnce'
    BY <2>1, <2>2 DEF HookInv, MarkedIsSeen, MarkedOnce
  <2>8. MarkedIsFirst'
    BY <2>1, <2>2, <2>4, <2>5 DEF HookInv, MarkedIsFirst, MarkedOnce, Past
  <2>9. WebhookOncePerStart'
    <3>1. SUFFICES ASSUME NEW m \in 1..Len(rows'), NEW n \in 1..Len(rows'), m < n,
                          rows'[m].event \in Events, rows'[n].event \in Events,
                          rows'[m].payment = rows'[n].payment
                   PROVE  \E s \in starts : m <= s /\ s < n
      BY <2>1 DEF WebhookOncePerStart
    <3>2. CASE n \in 1..Len(rows)
      BY <1>1, <2>4, <3>1, <3>2 DEF HookInv, WebhookOncePerStart
    <3>3. CASE n = new
      <4>1. m \in 1..Len(rows) /\ Marked(r) /\ rows[m].payment = request[r].payment
        BY <1>1, <2>4, <2>5, <3>1, <3>3
      <4>2. Past(m)
        BY <2>4, <3>1, <4>1 DEF HookInv, MarkedIsFirst
      <4> QED
        BY <1>1, <3>3, <4>2 DEF Past, ChainInv, StartsAreBehind
    <3> QED
      BY <2>4, <3>2, <3>3
  <2>10. SeenIsRecorded'
    <3>1. SUFFICES ASSUME NEW c \in seen
                   PROVE  \/ \E n \in 1..Len(rows') :
                               rows'[n].payment = c /\ rows'[n].event \in Events
                          \/ \E q \in Requests : Marked(q)' /\ request'[q].payment = c
                          \/ c \in unkept
      BY <2>1 DEF SeenIsRecorded
    <3>2. CASE \E n \in 1..Len(rows) : rows[n].payment = c /\ rows[n].event \in Events
      BY <2>4, <3>2
    <3>3. CASE Marked(r) /\ request[r].payment = c
      BY <2>4, <3>3 DEF Marked
    <3>4. CASE \E q \in Requests \ {r} : Marked(q) /\ request[q].payment = c
      BY <2>2, <3>4
    <3> QED
      BY <3>2, <3>3, <3>4 DEF HookInv, SeenIsRecorded
  <2> QED
    BY <2>6, <2>7, <2>8, <2>9, <2>10 DEF HookInv
<1>11. ASSUME NEW r \in Requests, Fail(r) PROVE HookInv'
  <2>1. /\ Moved(r, "error", request[r].base) /\ UNCHANGED <<seen, rows, starts>>
        /\ unkept \subseteq unkept'
        /\ Marked(r) => request[r].payment \in unkept'
    BY <1>1, <1>11, Moves DEF Fail
  <2>2. /\ ~Marked(r)'
        /\ \A q \in Requests \ {r} : (Marked(q)' <=> Marked(q)) /\ request'[q] = request[q]
    BY <2>1 DEF Moved, Marked
  <2>3. RowIsSeen' /\ WebhookOncePerStart'
    BY <2>1 DEF HookInv, RowIsSeen, WebhookOncePerStart, Past
  <2>4. MarkedIsSeen' /\ MarkedOnce' /\ MarkedIsFirst'
    BY <2>1, <2>2 DEF HookInv, MarkedIsSeen, MarkedOnce, MarkedIsFirst, Past
  <2>5. SeenIsRecorded'
    BY <2>1, <2>2 DEF HookInv, SeenIsRecorded
  <2> QED
    BY <2>3, <2>4, <2>5 DEF HookInv
<1>12. CASE Restart
  <2>1. Stopped /\ seen' = {} /\ rows' = rows /\ starts' = starts \cup {Len(rows)}
    BY <1>12, RestartStops DEF Restart, Parts
  <2>2. \A q \in Requests : ~Marked(q)'
    BY <2>1 DEF Stopped, Answers, Marked
  <2>3. RowIsSeen' /\ WebhookOncePerStart'
    BY <1>1, <2>1 DEF HookInv, RowIsSeen, WebhookOncePerStart, Past
  <2>4. MarkedIsSeen' /\ MarkedOnce' /\ MarkedIsFirst' /\ SeenIsRecorded'
    BY <2>1, <2>2 DEF MarkedIsSeen, MarkedOnce, MarkedIsFirst, SeenIsRecorded
  <2> QED
    BY <2>3, <2>4 DEF HookInv
<1> QED
  BY <1>2, <1>3, <1>4, <1>5, <1>6, <1>7, <1>8, <1>9, <1>10, <1>11, <1>12, NextSteps,
     UnmarkingKeepsHooks DEF ServerNext, Handle

-----------------------------------------------------------------------------
(* Verifications: the request of a checkout is answered with success when the *)
(* row is written, and the page is told what it was answered.                 *)
OkHasRow == \A c \in Checkouts : request[c].pc = "ok" => RecordedAs(c, "verified")

VerifyInv == OkHasRow /\ OkIsRecorded

LEMMA RowsStay ==
  ASSUME Parts, [Next]_vars, NEW c \in Checkouts, NEW state, RecordedAs(c, state)
  PROVE  RecordedAs(c, state)'
<1> USE DEF audit
<1>1. CASE rows' = rows
  BY <1>1 DEF RecordedAs
<1>2. ASSUME NEW r \in Requests, Write(r) PROVE RecordedAs(c, state)'
  <2>1. \A n \in 1..Len(rows) : n \in 1..Len(rows') /\ rows'[n] = rows[n]
    BY <1>2, Written
  <2> QED
    BY <2>1 DEF RecordedAs
<1>3. rows' = rows \/ \E r \in Requests : Write(r)
  <2>1. CASE ServerNext
    BY <2>1 DEF ServerNext, Handle, ReceiveVerify, RefuseWebhook, IgnoreWebhook, MarkWebhook,
                Enter, Fail, Forward, ForwardFails, Restart
  <2>2. CASE Elsewhere \/ Reload
    BY <2>2, PageLeavesServer
  <2>3. CASE Asks
    BY <2>3 DEF Asks, Handler, Deliver, Forge
  <2>4. CASE \E d \in Deliveries : Answered(d)
    BY <2>4 DEF Answered
  <2>5. CASE UNCHANGED vars
    BY <2>5 DEF vars, serverVars
  <2> QED
    BY <2>1, <2>2, <2>3, <2>4, <2>5, NextSteps
<1> QED
  BY <1>1, <1>2, <1>3

LEMMA OkRowsKept ==
  ASSUME Parts, Addressed, OkHasRow, [Next]_vars
  PROVE  OkHasRow'
<1>1. SUFFICES ASSUME NEW c \in Checkouts, request'[c].pc = "ok", request[c].pc # "ok"
               PROVE  RecordedAs(c, "verified")'
  BY RowsStay DEF OkHasRow
<1>2. TypeOK /\ c \in Requests /\ request[c].event = Verify /\ Verify \notin Events
  BY TypesAreParts, NamesAssumption DEF Addressed, Requests
<1>3. ASSUME NEW r \in Requests, Write(r) PROVE RecordedAs(c, "verified")'
  <2>1. /\ Moved(r, IF request[r].signed THEN "ok" ELSE "refused", Genesis)
        /\ request[r].pc = "writing"
    BY <1>2, <1>3, Moves DEF Write
  <2>2. r = c /\ request[c].signed
    BY <1>1, <1>2, <2>1 DEF Moved
  <2>3. request[c].payment = c
    BY <2>1, <2>2 DEF Addressed
  <2>4. Row(request[c]).payment = c /\ Row(request[c]).state = "verified"
    BY <1>2, <2>2, <2>3 DEF Row, StateOf
  <2> QED
    BY <1>3, <2>2, <2>4, Written DEF RecordedAs
<1>4. ASSUME NEW r \in Requests, Handle(r) \/ Fail(r), ~Write(r) PROVE FALSE
  BY <1>1, <1>2, <1>4, Moves
     DEF Handle, Moved, IgnoreWebhook
<1>5. ASSUME NEW n \in forwards, Forward(n) \/ ForwardFails(n) PROVE FALSE
  BY <1>1, <1>5 DEF Forward, ForwardFails
<1>6. CASE Restart
  BY <1>1, <1>2, <1>6, RestartStops DEF Parts, Stopped, Answers
<1>7. CASE Elsewhere \/ Reload
  BY <1>1, <1>7, PageLeavesServer
<1>8. CASE Asks
  BY <1>1, <1>2, <1>8, AskStarts DEF Started
<1>9. CASE \E d \in Deliveries : Answered(d)
  BY <1>1, <1>2, <1>9, AnsweredEnds DEF Ended, Requests
<1>10. CASE UNCHANGED vars
  BY <1>1, <1>10 DEF vars, serverVars
<1> QED
  BY <1>3, <1>4, <1>5, <1>6, <1>7, <1>8, <1>9, <1>10, NextSteps DEF ServerNext

(* Who is told "ok" now was not, or has been before. *)
LEMMA OkIsAnswered ==
  ASSUME Parts, [Next]_vars, NEW c \in Checkouts, answer'[c] = "ok", answer[c] # "ok"
  PROVE  request[c].pc = "ok" /\ call[c] = "verifying"
<1> USE DEF Parts, BrowserOK, Resolve, None
<1>1. ASSUME NEW b \in Checkouts, Verified(b)
      PROVE  request[c].pc = "ok" /\ call[c] = "verifying"
  BY <1>1 DEF Verified
<1>2. ASSUME NEW b \in Checkouts,
             Click(b) \/ OrderRefused(b) \/ OrderThrows(b) \/ OpenForm(b) \/ PaymentFailed(b)
             \/ Dismiss(b) \/ VerifyThrows(b) \/ PaysLate(b)
      PROVE  FALSE
  BY <1>2 DEF Click, OrderRefused, OrderThrows, OpenForm, PaymentFailed, Dismiss, VerifyThrows,
              PaysLate, browser
<1>3. CASE Reload
  BY <1>3 DEF Reload
<1>4. answer' = answer => FALSE
  OBVIOUS
<1>5. Asks \/ (\E d \in Deliveries : Answered(d)) => answer' = answer
  BY DEF Asks, Handler, Deliver, Forge, Answered, browser
<1> QED
  BY <1>1, <1>2, <1>3, <1>4, <1>5, NextSteps DEF Elsewhere, browser, vars

LEMMA PaidStays == ASSUME Parts, Addressed, [Next]_vars PROVE paid \subseteq paid'
<1>1. Elsewhere \/ Reload => paid \subseteq paid'
  BY DEF Elsewhere, Reload, Click, OrderRefused, OrderThrows, OpenForm, PaymentFailed, Dismiss,
         Verified, VerifyThrows, PaysLate, Made, razorpay
<1> QED
  BY <1>1, NextSteps, AskStarts DEF Answered, vars, razorpay

LEMMA VerifyKept ==
  ASSUME Parts, Addressed, VerifyInv, [Next]_vars
  PROVE  VerifyInv'
<1>1. OkHasRow'
  BY OkRowsKept DEF VerifyInv
<1>2. ASSUME NEW c \in Checkouts, answer'[c] = "ok"
      PROVE  c \in paid' /\ RecordedAs(c, "verified")'
  <2>1. CASE answer[c] = "ok"
    BY <2>1, PaidStays, RowsStay DEF VerifyInv, OkIsRecorded
  <2>2. CASE answer[c] # "ok"
    BY <1>2, <2>2, OkIsAnswered, PaidStays, RowsStay DEF VerifyInv, OkHasRow, Addressed
  <2> QED
    BY <2>1, <2>2
<1> QED
  BY <1>1, <1>2 DEF VerifyInv, OkIsRecorded

-----------------------------------------------------------------------------
IInv == Parts /\ Addressed /\ ChainInv /\ HookInv /\ VerifyInv

LEMMA InitIInv == Init => IInv
<1> SUFFICES ASSUME Init PROVE IInv
  OBVIOUS
<1>1. Parts /\ Addressed
  BY InitTypes, TypesAreParts
<1>2. /\ Len(rows) = 0 /\ starts = {0} /\ seen = {} /\ gate = Nobody /\ previous = Genesis
      /\ \A n \in 1..Len(rows) : FALSE
      /\ \A r \in Requests : request[r].pc = "idle"
      /\ \A c \in Checkouts : answer[c] = None
  BY DEF Init, ServerInit, Idle
<1>3. ChainInv
  BY <1>2, NamesAssumption
     DEF ChainInv, GateHeld, LastHash, BuiltOnLast, StartsAreBehind, ChainPerStart, Genesis
<1>4. HookInv
  BY <1>2 DEF HookInv, RowIsSeen, MarkedIsSeen, MarkedIsFirst, MarkedOnce, Marked,
              WebhookOncePerStart, SeenIsRecorded
<1>5. VerifyInv
  BY <1>2 DEF VerifyInv, OkHasRow, OkIsRecorded, None, Requests
<1> QED
  BY <1>1, <1>3, <1>4, <1>5 DEF IInv

LEMMA NextIInv == IInv /\ [Next]_vars => IInv'
BY Types, Chained, HooksKept, VerifyKept DEF IInv

LEMMA Invariant == Spec => []IInv
BY InitIInv, NextIInv, PTL DEF Spec

(* The log of payments is chained, and every start of the server begins a     *)
(* chain of its own: AppendAsync behind its gate, failing or cut short.       *)
THEOREM LogIsChained == Spec => []ChainPerStart
<1>1. IInv => ChainPerStart
  BY DEF IInv, ChainInv
<1> QED
  BY <1>1, Invariant, PTL

(* Between two starts a payment's webhooks leave one row: the mark is taken   *)
(* before the row is written.                                                 *)
THEOREM WebhooksOnce == Spec => []WebhookOncePerStart
<1>1. IInv => WebhookOncePerStart
  BY DEF IInv, HookInv
<1> QED
  BY <1>1, Invariant, PTL

(* A payment whose webhooks are ignored has its row, or is about to, or its   *)
(* append has failed.                                                         *)
THEOREM SeenIsAccountedFor == Spec => []SeenIsRecorded
<1>1. IInv => SeenIsRecorded
  BY DEF IInv, HookInv
<1> QED
  BY <1>1, Invariant, PTL

(* The page is told "ok" only of a payment that was made and is recorded as   *)
(* verified.                                                                  *)
THEOREM OkIsTrue == Spec => []OkIsRecorded
<1>1. IInv => OkIsRecorded
  BY DEF IInv, VerifyInv
<1> QED
  BY <1>1, Invariant, PTL

-----------------------------------------------------------------------------
(* Browser and server implement PaymentLedger: what is on record as verified  *)
(* and what the page was told follow from the rows and the answers.           *)
VerifiedRows == {c \in Checkouts : RecordedAs(c, "verified")}
Told == [c \in Checkouts |-> IF answer[c] \in {None, "ok"} THEN answer[c] ELSE "no"]

Stutter == UNCHANGED <<paid, VerifiedRows, Told>>

LEMMA LedgerSteps ==
  /\ \A c \in Checkouts :
       c \notin paid /\ paid' = paid \cup {c} /\ UNCHANGED <<VerifiedRows, Told>>
         => Ledger!Next
  /\ \A c \in Checkouts :
       /\ c \in paid /\ c \notin VerifiedRows /\ VerifiedRows' = VerifiedRows \cup {c}
       /\ UNCHANGED <<paid, Told>>
       => Ledger!Next
  /\ \A C \in SUBSET Checkouts, a \in {"ok", "no"} :
       /\ C # {} /\ \A c \in C : Told[c] = "none"
       /\ a = "ok" => C \subseteq VerifiedRows
       /\ Told' = [c \in Checkouts |-> IF c \in C THEN a ELSE Told[c]]
       /\ UNCHANGED <<paid, VerifiedRows>>
       => Ledger!Next
  /\ Stutter => UNCHANGED Ledger!vars
<1>1. \A c \in Checkouts :
       c \notin paid /\ paid' = paid \cup {c} /\ UNCHANGED <<VerifiedRows, Told>>
         => Ledger!Pay(c)
  BY DEF Ledger!Pay, VerifiedRows, Told
<1>2. \A c \in Checkouts :
       /\ c \in paid /\ c \notin VerifiedRows /\ VerifiedRows' = VerifiedRows \cup {c}
       /\ UNCHANGED <<paid, Told>>
       => Ledger!Record(c)
  BY DEF Ledger!Record, VerifiedRows, Told
<1>3. \A C \in SUBSET Checkouts, a \in {"ok", "no"} :
       /\ C # {} /\ \A c \in C : Told[c] = "none"
       /\ a = "ok" => C \subseteq VerifiedRows
       /\ Told' = [c \in Checkouts |-> IF c \in C THEN a ELSE Told[c]]
       /\ UNCHANGED <<paid, VerifiedRows>>
       => Ledger!Answer(C, a)
  BY DEF Ledger!Answer, VerifiedRows, Told
<1>4. Stutter => UNCHANGED Ledger!vars
  BY DEF Stutter, Ledger!vars, VerifiedRows, Told
<1> QED
  BY <1>1, <1>2, <1>3, <1>4 DEF Ledger!Next

(* The rows change with Write only, and then by the row of its request. *)
LEMMA RowStep ==
  ASSUME IInv, NEW r \in Requests, Write(r), UNCHANGED <<browser, razorpay>>
  PROVE  Ledger!Next \/ Stutter
<1>1. Told' = Told /\ paid' = paid
  BY DEF Told, browser, razorpay
<1>2. /\ request[r].pc = "writing" /\ request[r].payment \in Checkouts
      /\ Row(request[r]).payment = request[r].payment
      /\ Row(request[r]).state = StateOf(request[r])
  BY DEF Write, Row, IInv, Addressed
<1>3. ASSUME NEW c \in Checkouts
      PROVE  c \in VerifiedRows' <=>
               \/ c \in VerifiedRows
               \/ c = request[r].payment /\ StateOf(request[r]) = "verified"
  <2>1. /\ \A n \in 1..Len(rows) : n \in 1..Len(rows') /\ rows'[n] = rows[n]
        /\ \A n \in 1..Len(rows') : n \in 1..Len(rows) \/ n = Len(rows) + 1
        /\ Len(rows) + 1 \in 1..Len(rows')
        /\ rows'[Len(rows) + 1] = Row(request[r])
    BY Written DEF IInv
  <2> QED
    BY <1>2, <2>1 DEF VerifiedRows, RecordedAs
<1>4. VerifiedRows \subseteq Checkouts /\ VerifiedRows' \subseteq Checkouts
  BY DEF VerifiedRows
<1>5. CASE StateOf(request[r]) = "verified" /\ request[r].payment \notin VerifiedRows
  <2>1. VerifiedRows' = VerifiedRows \cup {request[r].payment}
    BY <1>2, <1>3, <1>4, <1>5
  <2>2. request[r].payment \in paid
    BY <1>2, <1>5 DEF StateOf, IInv, Addressed, Requests
  <2> QED
    BY <1>1, <1>2, <1>5, <2>1, <2>2, LedgerSteps
<1>6. CASE StateOf(request[r]) # "verified" \/ request[r].payment \in VerifiedRows
  <2>1. VerifiedRows' = VerifiedRows
    BY <1>2, <1>3, <1>4, <1>6
  <2> QED
    BY <1>1, <2>1 DEF Stutter
<1> QED
  BY <1>5, <1>6

(* One call is answered, for the first time or in vain. *)
LEMMA ResolveStep ==
  ASSUME IInv, NEW c \in Checkouts, NEW a \in {"ok", "no"}, Resolve(c, a),
         a = "ok" => request[c].pc = "ok", UNCHANGED <<rows, paid>>
  PROVE  Ledger!Next \/ Stutter
<1>1. VerifiedRows' = VerifiedRows /\ paid' = paid
  BY DEF VerifiedRows, RecordedAs
<1>2. answer \in [Checkouts -> {None, "ok", "no", "gone"}]
  BY DEF IInv, Parts, BrowserOK
<1>3. CASE answer[c] = None
  <2>1. Told[c] = "none"
    BY <1>3 DEF Told, None
  <2>2. Told' = [b \in Checkouts |-> IF b \in {c} THEN a ELSE Told[b]]
    BY <1>2, <1>3 DEF Told, Resolve, None
  <2>3. a = "ok" => {c} \subseteq VerifiedRows
    BY DEF IInv, VerifyInv, OkHasRow, VerifiedRows
  <2> QED
    BY <1>1, <2>1, <2>2, <2>3, {c} \in SUBSET Checkouts, LedgerSteps
<1>4. CASE answer[c] # None
  <2>1. answer' = answer
    BY <1>2, <1>4 DEF Resolve
  <2> QED
    BY <1>1, <2>1 DEF Stutter, Told
<1> QED
  BY <1>3, <1>4

LEMMA ReloadStep ==
  ASSUME IInv, Reload
  PROVE  Ledger!Next \/ Stutter
<1>1. VerifiedRows' = VerifiedRows /\ paid' = paid
  BY DEF VerifiedRows, RecordedAs, Reload, audit, razorpay
<1> DEFINE C == {c \in Checkouts : answer[c] = None /\ call[c] # "unused"}
<1>2. answer \in [Checkouts -> {None, "ok", "no", "gone"}]
  BY DEF IInv, Parts, BrowserOK
<1>3. \A c \in C : Told[c] = "none"
  BY DEF Told, None
<1>4. Told' = [c \in Checkouts |-> IF c \in C THEN "no" ELSE Told[c]]
  BY <1>2 DEF Told, Reload, None
<1>5. CASE C = {}
  <2>1. Told' = Told
    BY <1>4, <1>5 DEF Told
  <2> QED
    BY <1>1, <2>1 DEF Stutter
<1>6. CASE C # {}
  <2>1. C \in SUBSET Checkouts
    OBVIOUS
  <2> HIDE DEF C
  <2> QED
    BY <1>1, <1>3, <1>4, <1>6, <2>1, LedgerSteps
<1> QED
  BY <1>5, <1>6

LEMMA LedgerStep ==
  ASSUME IInv, [Next]_vars
  PROVE  Ledger!Next \/ Stutter
<1>0. UNCHANGED <<rows, answer, paid>> => Stutter
  BY DEF Stutter, VerifiedRows, Told, RecordedAs
<1> USE DEF audit, browser, razorpay
<1>1. CASE ServerNext /\ UNCHANGED <<browser, razorpay>>
  <2>1. rows' = rows \/ \E r \in Requests : Write(r)
    BY <1>1 DEF ServerNext, Handle, ReceiveVerify, RefuseWebhook, IgnoreWebhook, MarkWebhook,
                Enter, Fail, Forward, ForwardFails, Restart
  <2> QED
    BY <1>0, <1>1, <2>1, RowStep
<1>2. ASSUME NEW c \in Checkouts,
             Click(c) \/ OrderRefused(c) \/ OrderThrows(c) \/ PaymentFailed(c) \/ Dismiss(c)
      PROVE  Ledger!Next \/ Stutter
  <2>1. (answer' = answer \/ Resolve(c, "no")) /\ UNCHANGED <<rows, paid>>
    BY <1>2 DEF Click, OrderRefused, OrderThrows, PaymentFailed, Dismiss, serverVars
  <2> QED
    BY <1>0, <2>1, ResolveStep
<1>3. ASSUME NEW c \in Checkouts, Verified(c) PROVE Ledger!Next \/ Stutter
  <2> DEFINE a == IF request[c].pc = "ok" THEN "ok" ELSE "no"
  <2>1. Resolve(c, a) /\ UNCHANGED <<rows, paid>>
    BY <1>3 DEF Verified, serverVars
  <2>2. a \in {"ok", "no"} /\ (a = "ok" => request[c].pc = "ok")
    OBVIOUS
  <2> HIDE DEF a
  <2> QED
    BY <2>1, <2>2, ResolveStep
<1>4. ASSUME NEW c \in Checkouts, OpenForm(c) \/ VerifyThrows(c) PROVE Stutter
  BY <1>0, <1>4 DEF OpenForm, VerifyThrows, serverVars
<1>5. ASSUME NEW c \in Checkouts, PaysLate(c) \/ \E signed \in BOOLEAN : Handler(c, signed)
      PROVE  Ledger!Next
  <2>1. c \notin paid /\ paid' = paid \cup {c} /\ UNCHANGED <<rows, answer>>
    BY <1>5 DEF PaysLate, Handler, Made, serverVars
  <2>2. UNCHANGED <<VerifiedRows, Told>>
    BY <2>1 DEF VerifiedRows, Told, RecordedAs
  <2> QED
    BY <2>1, <2>2, LedgerSteps
<1>6. ASSUME NEW c \in Checkouts, NEW e \in Events,
             Deliver(c, e) \/ \E d \in Deliveries : Forge(d, c, e)
      PROVE  Stutter
  BY <1>0, <1>6 DEF Deliver, Forge
<1>7. ASSUME NEW d \in Deliveries, Answered(d) PROVE Stutter
  BY <1>0, <1>7 DEF Answered
<1>8. CASE UNCHANGED vars
  BY <1>0, <1>8 DEF vars, serverVars
<1> QED
  BY <1>1, <1>2, <1>3, <1>4, <1>5, <1>6, <1>7, <1>8, ReloadStep, NextSteps DEF Elsewhere, Asks

(* Whatever fails, restarts or overlaps, a checkout is answered at most once, *)
(* and told "ok" only of a payment that was made and is on record.            *)
THEOREM ImplementsPaymentLedger == Spec => KeepsPaymentLedger
<1>1. Init => Ledger!Init
  BY DEF Init, ServerInit, Ledger!Init, RecordedAs, None
<1>2. IInv /\ [Next]_vars => [Ledger!Next]_(Ledger!vars)
  BY LedgerStep, LedgerSteps
<1> QED
  BY <1>1, <1>2, Invariant, PTL DEF Spec, KeepsPaymentLedger, Ledger!Spec
=============================================================================
