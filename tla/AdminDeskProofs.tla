-------------------------- MODULE AdminDeskProofs --------------------------
(***************************************************************************)
(* Theorems about AdminDesk: whatever batches, redeliveries, crashes and   *)
(* other requests come between the reading of the log and the append of an *)
(* admin's row, what the engine suppressed stays let alone, and what an    *)
(* admin marks as fulfilled was on hold and is not charged again.          *)
(***************************************************************************)
EXTENDS AdminDesk, TLAPS

-----------------------------------------------------------------------------
(* What the policy computes. *)

(* Every event is classified into one of the known reasons. *)
LEMMA ClassifyType ==
  ASSUME NEW ev \in Events
  PROVE  Batch!Classify(ev) \in Batch!Reasons
<1>1. ev.flow \in Batch!Flows /\ ev.signal.code \in Batch!Reasons \cup {""}
  BY EventsAssumption DEF Flows, Reasons, Batch!Flows, Batch!Reasons
<1>2. Batch!ClassifySubscription(ev.signal) \in Batch!Reasons
  BY <1>1 DEF Batch!ClassifySubscription, Batch!Reasons
<1>3. Batch!ClassifyCheckout(ev.signal) \in Batch!Reasons
  BY DEF Batch!ClassifyCheckout, Batch!Reasons
<1>4. Batch!ClassifyReceivable(ev.signal) \in Batch!Reasons
  BY DEF Batch!ClassifyReceivable, Batch!Reasons
<1>5. Batch!ClassifyDegradation(ev.signal) \in Batch!Reasons
  BY <1>1 DEF Batch!ClassifyDegradation, Batch!Reasons
<1>6. Batch!ClassifyVoice(ev.signal) \in Batch!Reasons
  BY DEF Batch!ClassifyVoice, Batch!Reasons
<1>7. Batch!ClassifyPromiseToPay(ev.signal) \in Batch!Reasons
  BY DEF Batch!ClassifyPromiseToPay, Batch!Reasons
<1> QED
  BY <1>1, <1>2, <1>3, <1>4, <1>5, <1>6, <1>7 DEF Batch!Classify, Batch!Flows

Suppressing == {"fraud_suppress", "promise_to_pay_suppress", "ptp_suppress"}
Verdicts == [rule : Batch!Rules, decision : Batch!Decisions]

(* An engine answers with a rule and a decision, and the rules that suppress *)
(* are told by the decision.                                                 *)
LEMMA VerdictType ==
  ASSUME NEW flow, NEW in, NEW t
  PROVE  LET d == Batch!DecideForFlow(flow, in, t)
         IN  d \in Verdicts /\ (d.rule \in Suppressing => d.decision = "suppress")
<1> DEFINE Good(d) == d \in Verdicts /\ (d.rule \in Suppressing => d.decision = "suppress")
<1>1. Good(Batch!BaseRetryDecision(in, t))
  BY DEF Batch!BaseRetryDecision, Batch!Fires, Verdicts,
         Batch!Decisions, Batch!Rules, Suppressing
<1>2. Good(Batch!DecideMandateRetry(in, t))
  BY <1>1 DEF Batch!DecideMandateRetry, Batch!Fires, Verdicts,
         Batch!Decisions, Batch!Rules, Suppressing
<1>3. Good(Batch!DecideCheckoutAbandonment(in, t))
  BY DEF Batch!DecideCheckoutAbandonment, Batch!Fires, Verdicts,
         Batch!Decisions, Batch!Rules, Suppressing
<1>4. Good(Batch!DecideB2BReceivables(in, t))
  BY DEF Batch!DecideB2BReceivables, Batch!Fires, Verdicts,
         Batch!Decisions, Batch!Rules, Suppressing
<1>5. Good(Batch!DecidePaymentDegradation(in))
  BY DEF Batch!DecidePaymentDegradation, Batch!Fires, Verdicts,
         Batch!Decisions, Batch!Rules, Suppressing
<1>6. Good(Batch!DecideHinglishVoice(in, t))
  BY DEF Batch!DecideHinglishVoice, Batch!Fires, Verdicts,
         Batch!Decisions, Batch!Rules, Suppressing
<1>7. Good(Batch!DecidePromiseToPay(in, t))
  BY DEF Batch!DecidePromiseToPay, Batch!Fires, Verdicts,
         Batch!Decisions, Batch!Rules, Suppressing
<1>8. Good(Batch!Fires("no_op", "none"))
  BY DEF Batch!Fires, Verdicts, Batch!Decisions, Batch!Rules, Suppressing
<1> HIDE DEF Good
<1>9. Good(Batch!DecideForFlow(flow, in, t))
  BY <1>1, <1>2, <1>3, <1>4, <1>5, <1>6, <1>7, <1>8 DEF Batch!DecideForFlow
<1> QED
  BY <1>9 DEF Good

(* What a step says of the event it is taken for. *)
LEMMA StepFacts ==
  ASSUME NEW flow, NEW ctx, NEW t
  PROVE  LET step == Batch!StepState(flow, ctx, t)
         IN  /\ step \in Batch!Steps
             /\ step.rule \in Suppressing => step.decision = "suppress"
             /\ step.decision = "suppress" => step.state = "suppressed"
             /\ step.state = "waiting_on_ptp" => step.decision = "hold"
             /\ step.decision \in {"retry", "contact"} =>
                  step.state \in {"retry_scheduled", "contact_scheduled"}
<1> DEFINE d == Batch!DecideForFlow(flow, Batch!StoppingInput(ctx), t)
           state == Batch!StateFor(d.decision, flow)
<1>1. d \in Verdicts /\ (d.rule \in Suppressing => d.decision = "suppress")
  BY VerdictType
<1>2. /\ state \in Batch!States
      /\ d.decision = "suppress" => state = "suppressed"
      /\ state = "waiting_on_ptp" => d.decision = "hold"
      /\ d.decision \in {"retry", "contact"} =>
           state \in {"retry_scheduled", "contact_scheduled"}
  BY DEF Batch!StateFor, Batch!States
<1> HIDE DEF d, state
<1>3. d.rule \in Batch!Rules /\ d.decision \in Batch!Decisions /\ state \in Batch!States
  BY <1>1, <1>2 DEF Verdicts
<1>4. [rule |-> d.rule, decision |-> d.decision, state |-> state] \in Batch!Steps
  BY <1>3 DEF Batch!Steps
<1> QED
  BY <1>1, <1>2, <1>4 DEF Batch!StepState, d, state

(* Suppression is decided by the event and the clock alone, not by what was   *)
(* tried or by whom the customer was touched.                                 *)
Suppressed(ev, now) ==
  Batch!StepState(ev.flow, Batch!FlowContext(ev, 0, 0, now), Tunables).decision = "suppress"

LEMMA SuppressionIsFixed ==
  ASSUME NEW ev, NEW attempt, NEW touches, NEW now
  PROVE  Batch!StepState(ev.flow, Batch!FlowContext(ev, attempt, touches, now),
                         Tunables).decision = "suppress"
         <=> Suppressed(ev, now)
<1> DEFINE a == Batch!StoppingInput(Batch!FlowContext(ev, attempt, touches, now))
           b == Batch!StoppingInput(Batch!FlowContext(ev, 0, 0, now))
           Same(d, e) == d.decision = "suppress" <=> e.decision = "suppress"
<1>1. /\ a.reason = b.reason /\ a.now = b.now /\ a.ptpDate = b.ptpDate
      /\ a.amount = b.amount /\ a.rate = b.rate /\ a.dnc = b.dnc
  BY DEF Batch!StoppingInput, Batch!FlowContext
<1> HIDE DEF a, b
<1>2. Same(Batch!BaseRetryDecision(a, Tunables), Batch!BaseRetryDecision(b, Tunables))
  BY <1>1 DEF Batch!BaseRetryDecision, Batch!Fires
<1>3. \A in : Batch!DecideMandateRetry(in, Tunables).decision = "suppress" <=>
                Batch!BaseRetryDecision(in, Tunables).decision = "suppress"
  BY DEF Batch!DecideMandateRetry, Batch!Fires
<1>4. \A in : /\ Batch!DecideCheckoutAbandonment(in, Tunables).decision # "suppress"
              /\ Batch!DecideB2BReceivables(in, Tunables).decision # "suppress"
  BY DEF Batch!DecideCheckoutAbandonment, Batch!DecideB2BReceivables, Batch!Fires
<1>5. Same(Batch!DecidePaymentDegradation(a), Batch!DecidePaymentDegradation(b))
  BY <1>1 DEF Batch!DecidePaymentDegradation, Batch!Fires
<1>6. Same(Batch!DecideHinglishVoice(a, Tunables), Batch!DecideHinglishVoice(b, Tunables))
  BY <1>1 DEF Batch!DecideHinglishVoice, Batch!Fires
<1>7. Same(Batch!DecidePromiseToPay(a, Tunables), Batch!DecidePromiseToPay(b, Tunables))
  BY <1>1 DEF Batch!DecidePromiseToPay, Batch!Fires
<1>8. Same(Batch!DecideForFlow(ev.flow, a, Tunables),
           Batch!DecideForFlow(ev.flow, b, Tunables))
  BY <1>2, <1>3, <1>4, <1>5, <1>6, <1>7 DEF Batch!DecideForFlow
<1> QED
  BY <1>8 DEF Suppressed, Batch!StepState, a, b

(* Asked without the event's signals, the engine calls by day only. *)
LEMMA NudgesByDay ==
  ASSUME NEW flow, NEW now,
         StepState(flow, buildRecoveryContext(now), Tunables).decision = "contact"
  PROVE  ~QuietHours(now)
<1> DEFINE in == StoppingInput(buildRecoveryContext(now))
<1>1. /\ in.reason = "admin_intervention" /\ in.now = now /\ in.ptpDate = NoDate
      /\ in.visits = 0 /\ in.overdue = 0 /\ in.rate = 0 /\ in.dnc = FALSE
  BY DEF StoppingInput, buildRecoveryContext
<1> HIDE DEF in
<1>2. BaseRetryDecision(in, Tunables).decision # "contact"
  BY DEF BaseRetryDecision, Fires
<1>3. DecideMandateRetry(in, Tunables).decision # "contact"
  BY <1>2 DEF DecideMandateRetry, Fires
<1>4. DecideCheckoutAbandonment(in, Tunables).decision # "contact"
  BY <1>1 DEF DecideCheckoutAbandonment, IsRepeatVisitor, Fires
<1>5. DecideB2BReceivables(in, Tunables).decision # "contact"
  BY <1>1 DEF DecideB2BReceivables, ReceivableTier, Fires
<1>6. DecidePaymentDegradation(in).decision # "contact"
  BY <1>1 DEF DecidePaymentDegradation, Fires
<1>7. DecideHinglishVoice(in, Tunables).decision = "contact" => ~QuietHours(now)
  BY <1>1 DEF DecideHinglishVoice, IsDoNotCall, Fires
<1>8. DecidePromiseToPay(in, Tunables).decision # "contact"
  BY <1>1 DEF DecidePromiseToPay, Fires
<1>9. DecideForFlow(flow, in, Tunables).decision = "contact"
  BY DEF StepState, in
<1> QED
  BY <1>2, <1>3, <1>4, <1>5, <1>6, <1>7, <1>8, <1>9 DEF DecideForFlow, Fires

-----------------------------------------------------------------------------
(* The inductive invariant. *)

Held(r) == r.pc \notin {"idle", "claim"}
Works(r) == Held(r) /\ r.pc # "duplicate"
Done(r) == r.pc = "loop" /\ r.state \in Batch!RunningTerminal

(* The types, and a goroutine past a claim has an event. *)
Types ==
  /\ TypeOK /\ deliveries \in Nat
  /\ \A g \in Goroutines : Held(run[g]) => run[g].cur \in Events

(* A row of a suppressed event: suppressed, and by an admin no action. *)
LetAlone(row) ==
  row.state = "suppressed" /\ (row.actor = "human" => row.decision = "none")

AllLetAlone(rows, pending, id) ==
  /\ \A k \in DOMAIN rows : rows[k].event = id => LetAlone(rows[k])
  /\ \A a \in Admins :
       pending[a] # Nothing /\ pending[a].event = id => LetAlone(pending[a])

OnHold(row) == row.decision = "hold" /\ row.state = "waiting_on_ptp"

(* A goroutine about to write the second row of a hold. *)
Holds(r, rule) == r.pc = "followup" /\ r.step.decision = "hold" /\ r.step.rule = rule

(* A goroutine that is not done works on an event that is not on hold, or is  *)
(* about to write the second row; and if the event is to be suppressed, it has *)
(* not decided anything, and admins have let it alone.                         *)
WorkerFits(r, rows, pending) ==
  Works(r) =>
    /\ r.pc # "loop" => r.step.rule \notin Suppressing
    /\ \/ Done(r)
       \/ r.pc = "loop" /\ AllLetAlone(rows, pending, r.cur.id)
       \/ ~Suppressed(r.cur, r.now)
    /\ \A j \in DOMAIN rows :
         rows[j].event = r.cur.id /\ OnHold(rows[j]) => Done(r) \/ Holds(r, rows[j].rule)
WorkersFit == \A g \in Goroutines : WorkerFits(run[g], log, desk)

(* What a goroutine holds is claimed, in a claim set built over the log, and   *)
(* no event is worked on by two.                                               *)
ClaimsFit ==
  /\ hydrated => \A k \in DOMAIN log : log[k].event \in EventIds => log[k].event \in claimed
  /\ \A g \in Goroutines : Held(run[g]) => hydrated /\ run[g].cur.id \in claimed
  /\ \A g, h \in Goroutines :
       Works(run[g]) /\ Works(run[h]) /\ run[g].cur.id = run[h].cur.id => g = h

(* An event one of whose rows suppressed it is let alone for good. *)
SuppressedFit ==
  \A j \in DOMAIN log : log[j].rule \in Suppressing =>
    /\ log[j].event \in EventIds
    /\ AllLetAlone(log, desk, log[j].event)
    /\ \A g \in Goroutines :
         Works(run[g]) /\ run[g].cur.id = log[j].event => Done(run[g])

(* After a hold the engine logs its second row, and duplicates. *)
HoldsFit ==
  \A j \in DOMAIN log : OnHold(log[j]) =>
    /\ log[j].event \in EventIds
    /\ \A i \in DOMAIN log :
         j < i /\ log[i].event = log[j].event /\ log[i].actor # "human" =>
           log[i].rule = log[j].rule \/ Batch!IsDuplicate(log[i])

(* A row of an admin: what follows a hold follows one, and calls are by day. *)
Fulfils(row) == row.state = "waiting_on_ptp" \/ row.decision = "recover"
AdminRow(row) ==
  /\ row.rule = "no_op" /\ row.decision # "hold"
  /\ row.decision = "contact" => ~QuietHours(row.at)
RowsFit ==
  \A k \in DOMAIN log :
    IF log[k].actor = "human"
      THEN /\ AdminRow(log[k])
           /\ Fulfils(log[k]) =>
                \E j \in DOMAIN log : Before(j, k) /\ OnHold(log[j])
      ELSE log[k].state = "waiting_on_ptp" => OnHold(log[k])
DesksFit ==
  \A a \in Admins : desk[a] # Nothing =>
    /\ AdminRow(desk[a])
    /\ Fulfils(desk[a]) =>
         \E j \in DOMAIN log : log[j].event = desk[a].event /\ OnHold(log[j])

(* Every event of the log has a latest row. *)
LatestExists ==
  \A k \in DOMAIN log : \E m \in DOMAIN log :
    /\ log[m].event = log[k].event
    /\ \A j \in DOMAIN log : log[j].event = log[k].event => j <= m

IInv ==
  Types /\ WorkersFit /\ ClaimsFit /\ SuppressedFit /\ HoldsFit /\ RowsFit /\ DesksFit
  /\ LatestExists

-----------------------------------------------------------------------------
(* How RunBatch writes a row. *)

(* The names of the two copies of the policy, the engine's and the desk's. *)
LEMMA SameNames ==
  /\ Batch!Rules = Rules /\ Batch!Decisions = Decisions /\ Batch!States = States
  /\ Batch!Flows = Flows /\ Batch!Reasons = Reasons
<1>1. Batch!Rules = Rules
  BY DEF Batch!Rules, Rules
<1>2. Batch!Decisions = Decisions /\ Batch!States = States
  BY DEF Batch!Decisions, Decisions, Batch!States, States
<1>3. Batch!Flows = Flows /\ Batch!Reasons = Reasons
  BY DEF Batch!Flows, Flows, Batch!Reasons, Reasons
<1> QED
  BY <1>1, <1>2, <1>3

LEMMA EngineRows == Batch!Rows \subseteq Rows
<1>1. \A row \in Batch!Rows : row \in Rows
  BY SameNames DEF Batch!Rows, Rows
<1> QED
  BY <1>1

(* A row made of well-typed parts, and its parts. *)
LEMMA RowFacts ==
  ASSUME NEW r \in Batch!RunStates, r.cur \in Events, NEW rule \in Batch!Rules,
         NEW decision \in Batch!Decisions, NEW state \in Batch!States,
         NEW actor \in Batch!Actors, NEW attempt \in Nat \cup {Batch!NoAttempt}
  PROVE  LET row == Batch!Row(r, rule, decision, state, actor, attempt)
         IN  /\ row \in Batch!Rows
             /\ row.event = r.cur.id /\ row.rule = rule /\ row.decision = decision
             /\ row.state = state /\ row.actor # "human"
<1>1. Batch!Classify(r.cur) \in Batch!Reasons
  BY ClassifyType
<1>2. r.now \in Nat
  BY DEF Batch!RunStates
<1>3. r.cur.id \in EventIds /\ r.cur.flow \in Batch!Flows
  BY EventsAssumption, SameNames
<1>4. actor # "human"
  BY DEF Batch!Actors
<1> QED
  BY <1>1, <1>2, <1>3, <1>4 DEF Batch!Row, Batch!Rows

LEMMA DecisionRowFacts ==
  ASSUME NEW r \in Batch!RunStates, r.cur \in Events, NEW step \in Batch!Steps
  PROVE  LET row == Batch!DecisionRow(r, step)
         IN  /\ row \in Batch!Rows
             /\ row.event = r.cur.id /\ row.rule = step.rule
             /\ row.decision = step.decision /\ row.state = step.state
             /\ row.actor # "human"
<1>1. /\ step.rule \in Batch!Rules /\ step.decision \in Batch!Decisions
      /\ step.state \in Batch!States
  BY DEF Batch!Steps
<1>2. "policy_engine" \in Batch!Actors /\ r.attempt \in Nat \cup {Batch!NoAttempt}
  BY DEF Batch!Actors, Batch!RunStates
<1> DEFINE attempt == r.attempt
           rule == step.rule
           decision == step.decision
           state == step.state
<1>3. /\ attempt \in Nat \cup {Batch!NoAttempt} /\ rule \in Batch!Rules
      /\ decision \in Batch!Decisions /\ state \in Batch!States
  BY <1>1, <1>2
<1> HIDE DEF attempt, rule, decision, state
<1>4. LET row == Batch!Row(r, rule, decision, state, "policy_engine", attempt)
      IN  /\ row \in Batch!Rows
          /\ row.event = r.cur.id /\ row.rule = rule /\ row.decision = decision
          /\ row.state = state /\ row.actor # "human"
  BY <1>2, <1>3, RowFacts
<1> QED
  BY <1>4 DEF Batch!DecisionRow, attempt, rule, decision, state

(* A row of a goroutine about its event, and the run that follows: it has      *)
(* decided, so the event is settled or not to be suppressed; a hold is entered *)
(* once, and then closed.                                                      *)
Proper(old, r, row) ==
  /\ Works(old) /\ ~Done(old) /\ Works(r) /\ r.cur = old.cur /\ r.now = old.now
  /\ row.event = old.cur.id /\ row.actor # "human"
  /\ row.state = "waiting_on_ptp" => OnHold(row)
  /\ row.rule \in Suppressing =>
       /\ Done(r) /\ row.state = "suppressed"
       /\ old.pc = "loop" /\ Suppressed(old.cur, old.now)
  /\ r.pc # "loop" => r.step.rule \notin Suppressing
  /\ Done(r) \/ ~Suppressed(r.cur, r.now)
  /\ OnHold(row) => Done(r) \/ Holds(r, row.rule)
  /\ \A rule : Holds(old, rule) => Done(r) /\ row.rule = rule

Writes(g, r, row) ==
  /\ Batch!Becomes(g, r) /\ Batch!AppendRow(row)
  /\ UNCHANGED <<claimed, hydrated, deliveries, desk, requests>>

LEMMA DecideWrites ==
  ASSUME Types, NEW g \in Goroutines, Batch!Decide(g), UNCHANGED desks
  PROVE  \E r \in Batch!RunStates, row \in Batch!Rows :
           Writes(g, r, row) /\ Proper(run[g], r, row)
<1> DEFINE old == run[g]
           ctx == Batch!FlowContext(old.cur, old.attempt, old.touches[old.cur.customer],
                                    old.now)
           step == Batch!StepState(old.cur.flow, ctx, Tunables)
           row == Batch!DecisionRow(old, step)
           r == [old EXCEPT !.pc = Batch!AfterDecision(step.decision), !.state = step.state,
                            !.steps = @ + 1, !.used = @ + 1, !.step = step]
<1>1. /\ old.pc = "loop" /\ old.state \notin Batch!RunningTerminal
      /\ Writes(g, r, row)
  BY DEF Batch!Decide, Batch!MayDecide, Writes, desks, Batch!store, Batch!bounds
<1>2. step.decision = "suppress" <=> Suppressed(old.cur, old.now)
  BY SuppressionIsFixed
<1>3. /\ step \in Batch!Steps
      /\ step.rule \in Suppressing => step.decision = "suppress"
      /\ step.decision = "suppress" => step.state = "suppressed"
      /\ step.state = "waiting_on_ptp" => step.decision = "hold"
  BY StepFacts
<1> HIDE DEF step
<1>4. old \in Batch!RunStates /\ old.cur \in Events
  BY <1>1 DEF Types, TypeOK, Held
<1>6. /\ row \in Batch!Rows
      /\ row.event = old.cur.id /\ row.rule = step.rule /\ row.decision = step.decision
      /\ row.state = step.state /\ row.actor # "human"
  BY <1>3, <1>4, DecisionRowFacts
<1> DEFINE pc == Batch!AfterDecision(step.decision)
<1>7. /\ pc \in {"execute", "followup", "loop"}
      /\ step.decision = "suppress" => pc = "loop"
      /\ step.decision = "hold" => pc = "followup"
  BY DEF Batch!AfterDecision
<1> HIDE DEF pc, row, old
<1>8. /\ r \in Batch!RunStates
      /\ r.pc = pc /\ r.state = step.state /\ r.step = step
      /\ r.cur = old.cur /\ r.now = old.now
  <2>1. pc \in Batch!PCs /\ step.state \in Batch!States
    BY <1>3, <1>7 DEF Batch!PCs, Batch!Steps
  <2>2. old.steps + 1 \in Nat /\ old.used + 1 \in Nat
    BY <1>4 DEF Batch!RunStates
  <2> QED
    BY <1>3, <1>4, <2>1, <2>2 DEF Batch!RunStates, pc
<1> HIDE DEF r
<1>9. step.decision = "suppress" => Done(r)
  BY <1>3, <1>7, <1>8 DEF Done, Batch!RunningTerminal
<1>10. Works(old) /\ ~Done(old) /\ Works(r)
  BY <1>1, <1>7, <1>8 DEF Works, Held, Done
<1>11. \A rule : ~Holds(old, rule)
  BY <1>1 DEF Holds
<1>12. r.pc # "loop" => r.step.rule \notin Suppressing
  BY <1>3, <1>7, <1>8
<1>13. /\ row.state = "waiting_on_ptp" => OnHold(row)
       /\ OnHold(row) => Holds(r, row.rule)
  BY <1>3, <1>6, <1>7, <1>8 DEF OnHold, Holds
<1>14. Proper(old, r, row)
  BY <1>1, <1>2, <1>3, <1>6, <1>8, <1>9, <1>10, <1>11, <1>12, <1>13 DEF Proper
<1> QED
  BY <1>1, <1>6, <1>8, <1>14 DEF old

(* What a carried out action, and a decision without one, leave in the log. *)
LEMMA ActionRowFacts ==
  ASSUME NEW r \in Batch!RunStates, r.cur \in Events,
         NEW attempt \in Nat \cup {Batch!NoAttempt}, NEW recovered \in BOOLEAN
  PROVE  LET row == Batch!ActionRow(r, attempt, recovered)
         IN  /\ row \in Batch!Rows
             /\ row.event = r.cur.id /\ row.actor # "human"
             /\ row.rule \in {"recovered", r.step.rule}
             /\ row.state \in {"recovered", "contacting", "retrying"}
<1> DEFINE rule == r.step.rule
           decision == r.step.decision
           state == IF r.step.state = "contact_scheduled" THEN "contacting" ELSE "retrying"
<1>1. /\ rule \in Batch!Rules /\ "recovered" \in Batch!Rules
      /\ decision \in Batch!Decisions /\ "recover" \in Batch!Decisions
      /\ state \in {"contacting", "retrying"}
      /\ {"recovered", "contacting", "retrying"} \subseteq Batch!States
      /\ "policy_engine" \in Batch!Actors
  BY DEF Batch!RunStates, Batch!Steps, Batch!Rules, Batch!Decisions, Batch!States,
         Batch!Actors
<1> HIDE DEF rule, decision, state
<1>2. LET row == Batch!Row(r, rule, decision, state, "policy_engine", attempt)
      IN  /\ row \in Batch!Rows
          /\ row.event = r.cur.id /\ row.rule = rule /\ row.decision = decision
          /\ row.state = state /\ row.actor # "human"
  BY <1>1, RowFacts
<1>3. LET row == Batch!Row(r, "recovered", "recover", "recovered", "policy_engine", attempt)
      IN  /\ row \in Batch!Rows
          /\ row.event = r.cur.id /\ row.rule = "recovered" /\ row.decision = "recover"
          /\ row.state = "recovered" /\ row.actor # "human"
  BY <1>1, RowFacts
<1> QED
  BY <1>1, <1>2, <1>3 DEF Batch!ActionRow, rule, decision, state

LEMMA FollowUpRowFacts ==
  ASSUME NEW r \in Batch!RunStates, r.cur \in Events
  PROVE  LET row == Batch!FollowUpRow(r)
         IN  /\ row \in Batch!Rows
             /\ row.event = r.cur.id /\ row.actor # "human"
             /\ row.rule \in {"no_op", r.step.rule}
             /\ row.state \in Batch!RunningTerminal /\ row.state \in Batch!States
             /\ row.state = "waiting_on_ptp" => row.decision = "hold"
             /\ r.step.decision = "hold" => row.rule = r.step.rule
<1> DEFINE rule == r.step.rule
           attempt == r.attempt
<1>1. /\ rule \in Batch!Rules /\ "no_op" \in Batch!Rules
      /\ {"escalate", "hold", "none"} \subseteq Batch!Decisions
      /\ {"escalated", "waiting_on_ptp", "abandoned"} \subseteq Batch!States
      /\ {"escalated", "waiting_on_ptp", "abandoned"} \subseteq Batch!RunningTerminal
      /\ {"policy_engine", "llm_copy"} \subseteq Batch!Actors
      /\ attempt \in Nat \cup {Batch!NoAttempt}
  BY DEF Batch!RunStates, Batch!Steps, Batch!Rules, Batch!Decisions, Batch!States,
         Batch!Actors, Batch!RunningTerminal
<1> HIDE DEF rule, attempt
<1>2. LET row == Batch!Row(r, "no_op", "escalate", "escalated", "llm_copy", attempt)
      IN  /\ row \in Batch!Rows
          /\ row.event = r.cur.id /\ row.rule = "no_op" /\ row.decision = "escalate"
          /\ row.state = "escalated" /\ row.actor # "human"
  BY <1>1, RowFacts
<1>3. LET row == Batch!Row(r, rule, "hold", "waiting_on_ptp", "policy_engine", attempt)
      IN  /\ row \in Batch!Rows
          /\ row.event = r.cur.id /\ row.rule = rule /\ row.decision = "hold"
          /\ row.state = "waiting_on_ptp" /\ row.actor # "human"
  BY <1>1, RowFacts
<1>4. LET row == Batch!Row(r, rule, "none", "abandoned", "policy_engine", attempt)
      IN  /\ row \in Batch!Rows
          /\ row.event = r.cur.id /\ row.rule = rule /\ row.decision = "none"
          /\ row.state = "abandoned" /\ row.actor # "human"
  BY <1>1, RowFacts
<1>5. CASE r.step.decision = "escalate"
  <2>1. Batch!FollowUpRow(r)
          = Batch!Row(r, "no_op", "escalate", "escalated", "llm_copy", attempt)
    BY <1>5 DEF Batch!FollowUpRow, attempt
  <2> QED
    BY <1>1, <1>2, <1>5, <2>1
<1>6. CASE r.step.decision = "hold"
  <2>1. Batch!FollowUpRow(r)
          = Batch!Row(r, rule, "hold", "waiting_on_ptp", "policy_engine", attempt)
    BY <1>6 DEF Batch!FollowUpRow, attempt, rule
  <2> QED
    BY <1>1, <1>3, <1>6, <2>1 DEF rule
<1>7. CASE r.step.decision \notin {"escalate", "hold"}
  <2>1. Batch!FollowUpRow(r)
          = Batch!Row(r, rule, "none", "abandoned", "policy_engine", attempt)
    BY <1>7 DEF Batch!FollowUpRow, attempt, rule
  <2> QED
    BY <1>1, <1>4, <1>7, <2>1 DEF rule
<1> QED
  BY <1>5, <1>6, <1>7

(* A goroutine in the middle of a turn has an event that is not suppressed. *)
LEMMA MidTurn ==
  ASSUME NEW r, NEW rows, NEW pending, WorkerFits(r, rows, pending), Works(r), r.pc # "loop"
  PROVE  r.step.rule \notin Suppressing /\ ~Suppressed(r.cur, r.now) /\ ~Done(r)
BY DEF WorkerFits, Done

LEMMA RecordActionWrites ==
  ASSUME Types, WorkersFit, NEW g \in Goroutines, Batch!RecordAction(g), UNCHANGED desks
  PROVE  \E r \in Batch!RunStates, row \in Batch!Rows :
           Writes(g, r, row) /\ Proper(run[g], r, row)
<1> DEFINE old == run[g]
           row == Batch!ActionRow(old, old.attempt, old.recovered)
           r == [old EXCEPT !.pc = IF old.recovered THEN "recovery" ELSE "loop",
                            !.attempt = @ + 1]
<1>1. old.pc = "record" /\ Writes(g, r, row)
  BY DEF Batch!RecordAction, Writes, desks, Batch!store, Batch!bounds
<1>2. Works(old) /\ \A rule : ~Holds(old, rule)
  BY <1>1 DEF Works, Held, Holds
<1>3. old \in Batch!RunStates /\ old.cur \in Events /\ WorkerFits(old, log, desk)
  BY <1>2 DEF Types, TypeOK, WorkersFit, Works
<1> HIDE DEF old
<1>4. old.step.rule \notin Suppressing /\ ~Suppressed(old.cur, old.now) /\ ~Done(old)
  BY <1>1, <1>2, <1>3, MidTurn
<1>5. old.attempt \in Nat \cup {Batch!NoAttempt} /\ old.recovered \in BOOLEAN
  BY <1>3 DEF Batch!RunStates
<1>6. /\ row \in Batch!Rows
      /\ row.event = old.cur.id /\ row.actor # "human"
      /\ row.rule \in {"recovered", old.step.rule}
      /\ row.state \in {"recovered", "contacting", "retrying"}
  BY <1>3, <1>5, ActionRowFacts
<1> DEFINE pc == IF old.recovered THEN "recovery" ELSE "loop"
<1>7. pc \in {"recovery", "loop"} /\ pc \in Batch!PCs
  BY DEF Batch!PCs
<1>8. old.attempt + 1 \in Nat
  BY <1>3 DEF Batch!RunStates
<1> HIDE DEF row
<1>9. /\ r \in Batch!RunStates
      /\ r.pc = pc /\ r.step = old.step /\ r.cur = old.cur /\ r.now = old.now
  <2> HIDE DEF pc
  <2> QED
    BY <1>3, <1>7, <1>8 DEF Batch!RunStates, pc
<1> HIDE DEF r, pc
<1>10. Works(r)
  BY <1>7, <1>9 DEF Works, Held
<1>11. row.state # "waiting_on_ptp" /\ ~OnHold(row) /\ row.rule \notin Suppressing
  BY <1>4, <1>6 DEF OnHold, Suppressing
<1>12. Proper(old, r, row)
  BY <1>2, <1>4, <1>6, <1>9, <1>10, <1>11 DEF Proper
<1> QED
  BY <1>1, <1>6, <1>9, <1>12 DEF old

LEMMA RecordRecoveryWrites ==
  ASSUME Types, WorkersFit, NEW g \in Goroutines, Batch!RecordRecovery(g), UNCHANGED desks
  PROVE  \E r \in Batch!RunStates, row \in Batch!Rows :
           Writes(g, r, row) /\ Proper(run[g], r, row)
<1> DEFINE old == run[g]
           row == Batch!ActionRow(old, old.attempt - 1, TRUE)
           r == [old EXCEPT !.pc = "loop", !.state = "recovered"]
<1>1. old.pc = "recovery" /\ Writes(g, r, row)
  BY DEF Batch!RecordRecovery, Writes, desks, Batch!store, Batch!bounds
<1>2. Works(old) /\ \A rule : ~Holds(old, rule)
  BY <1>1 DEF Works, Held, Holds
<1>3. old \in Batch!RunStates /\ old.cur \in Events /\ WorkerFits(old, log, desk)
  BY <1>2 DEF Types, TypeOK, WorkersFit, Works
<1> HIDE DEF old
<1>4. old.step.rule \notin Suppressing /\ ~Suppressed(old.cur, old.now) /\ ~Done(old)
  BY <1>1, <1>2, <1>3, MidTurn
<1>5. old.attempt - 1 \in Nat \cup {Batch!NoAttempt}
  BY <1>3 DEF Batch!RunStates, Batch!NoAttempt
<1>6. /\ row \in Batch!Rows
      /\ row.event = old.cur.id /\ row.actor # "human"
      /\ row.rule \in {"recovered", old.step.rule}
      /\ row.state \in {"recovered", "contacting", "retrying"}
  <2> DEFINE attempt == old.attempt - 1
  <2>1. attempt \in Nat \cup {Batch!NoAttempt}
    BY <1>5
  <2> HIDE DEF attempt
  <2>2. LET it == Batch!ActionRow(old, attempt, TRUE)
        IN  /\ it \in Batch!Rows
            /\ it.event = old.cur.id /\ it.actor # "human"
            /\ it.rule \in {"recovered", old.step.rule}
            /\ it.state \in {"recovered", "contacting", "retrying"}
    BY <1>3, <2>1, ActionRowFacts
  <2> QED
    BY <2>2 DEF attempt
<1> HIDE DEF row
<1>7. /\ r \in Batch!RunStates
      /\ r.pc = "loop" /\ r.state = "recovered" /\ r.cur = old.cur /\ r.now = old.now
  BY <1>3 DEF Batch!RunStates, Batch!PCs, Batch!States
<1> HIDE DEF r
<1>8. Works(r) /\ Done(r)
  BY <1>7 DEF Works, Held, Done, Batch!RunningTerminal
<1>9. row.state # "waiting_on_ptp" /\ ~OnHold(row) /\ row.rule \notin Suppressing
  BY <1>4, <1>6 DEF OnHold, Suppressing
<1>10. Proper(old, r, row)
  BY <1>2, <1>4, <1>6, <1>7, <1>8, <1>9 DEF Proper
<1> QED
  BY <1>1, <1>6, <1>7, <1>10 DEF old

LEMMA RecordFollowUpWrites ==
  ASSUME Types, WorkersFit, NEW g \in Goroutines, Batch!RecordFollowUp(g), UNCHANGED desks
  PROVE  \E r \in Batch!RunStates, row \in Batch!Rows :
           Writes(g, r, row) /\ Proper(run[g], r, row)
<1> DEFINE old == run[g]
           row == Batch!FollowUpRow(old)
           r == [old EXCEPT !.pc = "loop", !.state = row.state]
<1>1. old.pc = "followup" /\ Writes(g, r, row)
  BY DEF Batch!RecordFollowUp, Writes, desks, Batch!store, Batch!bounds
<1>2. Works(old)
  BY <1>1 DEF Works, Held
<1>3. old \in Batch!RunStates /\ old.cur \in Events /\ WorkerFits(old, log, desk)
  BY <1>2 DEF Types, TypeOK, WorkersFit, Works
<1> HIDE DEF old
<1>4. old.step.rule \notin Suppressing /\ ~Suppressed(old.cur, old.now) /\ ~Done(old)
  BY <1>1, <1>2, <1>3, MidTurn
<1>5. /\ row \in Batch!Rows
      /\ row.event = old.cur.id /\ row.actor # "human"
      /\ row.rule \in {"no_op", old.step.rule}
      /\ row.state \in Batch!RunningTerminal /\ row.state \in Batch!States
      /\ row.state = "waiting_on_ptp" => row.decision = "hold"
      /\ old.step.decision = "hold" => row.rule = old.step.rule
  BY <1>3, FollowUpRowFacts
<1> HIDE DEF row
<1>6. /\ r \in Batch!RunStates
      /\ r.pc = "loop" /\ r.state = row.state /\ r.cur = old.cur /\ r.now = old.now
  BY <1>3, <1>5 DEF Batch!RunStates, Batch!PCs
<1> HIDE DEF r
<1>7. Works(r) /\ Done(r)
  BY <1>5, <1>6 DEF Works, Held, Done
<1>8. /\ row.state = "waiting_on_ptp" => OnHold(row)
      /\ row.rule \notin Suppressing
  BY <1>4, <1>5 DEF OnHold, Suppressing
<1>9. \A rule : Holds(old, rule) => row.rule = rule
  BY <1>5 DEF Holds
<1>10. Proper(old, r, row)
  BY <1>2, <1>4, <1>5, <1>6, <1>7, <1>8, <1>9 DEF Proper
<1> QED
  BY <1>1, <1>5, <1>6, <1>10 DEF old

-----------------------------------------------------------------------------
(* What a new row does to each part of the invariant. *)

Grown(row, n) ==
  /\ log' \in Seq(Rows) /\ n \in Nat
  /\ n \notin DOMAIN log /\ DOMAIN log' = DOMAIN log \cup {n} /\ log'[n] = row
  /\ \A k \in DOMAIN log : k \in Nat /\ k < n /\ log'[k] = log[k]

LEMMA Grows ==
  ASSUME log \in Seq(Rows), NEW row \in Rows, log' = Append(log, row)
  PROVE  Grown(row, Len(log) + 1)
<1>1. Len(log) \in Nat /\ DOMAIN log = 1..Len(log)
  OBVIOUS
<1>2. DOMAIN log' = 1..(Len(log) + 1)
  BY <1>1
<1>3. log' \in Seq(Rows) /\ log'[Len(log) + 1] = row
  OBVIOUS
<1>4. \A k \in 1..Len(log) : log'[k] = log[k]
  OBVIOUS
<1> QED
  BY <1>1, <1>2, <1>3, <1>4 DEF Grown

(* No request is made up. *)
Shrinks == \A a \in Admins : desk'[a] = desk[a] \/ desk'[a] = Nothing

LEMMA LetAloneGrows ==
  ASSUME NEW row, NEW n, Grown(row, n), Shrinks, NEW id, AllLetAlone(log, desk, id),
         row.event = id => LetAlone(row)
  PROVE  AllLetAlone(log', desk', id)
BY DEF Grown, Shrinks, AllLetAlone

LEMMA WorkerGrows ==
  ASSUME NEW row, NEW n, Grown(row, n), Shrinks, NEW r, WorkerFits(r, log, desk),
         Works(r) /\ row.event = r.cur.id =>
           ~OnHold(row) /\ (AllLetAlone(log, desk, r.cur.id) => LetAlone(row))
  PROVE  WorkerFits(r, log', desk')
<1> SUFFICES ASSUME Works(r)
             PROVE  WorkerFits(r, log', desk')
  BY DEF WorkerFits
<1>1. AllLetAlone(log, desk, r.cur.id) => AllLetAlone(log', desk', r.cur.id)
  BY LetAloneGrows
<1>2. ASSUME NEW j \in DOMAIN log', log'[j].event = r.cur.id /\ OnHold(log'[j])
      PROVE  Done(r) \/ Holds(r, log'[j].rule)
  BY <1>2 DEF Grown, WorkerFits
<1> QED
  BY <1>1, <1>2 DEF WorkerFits

(* A goroutine that is not done was not before, with the same event. *)
Carries ==
  \A h \in Goroutines : Works(run'[h]) /\ ~Done(run'[h]) =>
    Works(run[h]) /\ ~Done(run[h]) /\ run'[h].cur = run[h].cur

LEMMA SuppressedGrows ==
  ASSUME SuppressedFit, NEW row, NEW n, Grown(row, n), Shrinks, Carries,
         \A id : AllLetAlone(log, desk, id) /\ row.event = id =>
           \/ LetAlone(row)
           \/ \A j \in DOMAIN log : log[j].event = id => log[j].rule \notin Suppressing,
         row.rule \in Suppressing =>
           /\ row.event \in EventIds /\ AllLetAlone(log', desk', row.event)
           /\ \A g \in Goroutines :
                Works(run'[g]) /\ run'[g].cur.id = row.event => Done(run'[g])
  PROVE  SuppressedFit'
<1> SUFFICES ASSUME NEW j \in DOMAIN log', log'[j].rule \in Suppressing
             PROVE  /\ log'[j].event \in EventIds
                    /\ AllLetAlone(log', desk', log'[j].event)
                    /\ \A g \in Goroutines :
                         Works(run'[g]) /\ run'[g].cur.id = log'[j].event => Done(run'[g])
  BY DEF SuppressedFit
<1>1. CASE j \in DOMAIN log
  <2>1. log'[j] = log[j]
    BY <1>1 DEF Grown
  <2>2. /\ log[j].event \in EventIds /\ AllLetAlone(log, desk, log[j].event)
        /\ \A g \in Goroutines :
             Works(run[g]) /\ run[g].cur.id = log[j].event => Done(run[g])
    BY <1>1, <2>1 DEF SuppressedFit
  <2>3. row.event = log[j].event => LetAlone(row)
    BY <1>1, <2>1, <2>2
  <2>4. AllLetAlone(log', desk', log[j].event)
    BY <2>2, <2>3, LetAloneGrows
  <2>5. \A g \in Goroutines :
          Works(run'[g]) /\ run'[g].cur.id = log[j].event => Done(run'[g])
    BY <2>2 DEF Carries
  <2> QED
    BY <2>1, <2>2, <2>4, <2>5
<1>2. CASE j \notin DOMAIN log
  BY <1>2 DEF Grown
<1> QED
  BY <1>1, <1>2

LEMMA HoldsGrow ==
  ASSUME HoldsFit, NEW row, NEW n, Grown(row, n),
         OnHold(row) => row.event \in EventIds,
         row.actor # "human" =>
           \A j \in DOMAIN log : OnHold(log[j]) /\ log[j].event = row.event =>
             row.rule = log[j].rule \/ Batch!IsDuplicate(row)
  PROVE  HoldsFit'
<1> SUFFICES ASSUME NEW j \in DOMAIN log', OnHold(log'[j])
             PROVE  /\ log'[j].event \in EventIds
                    /\ \A i \in DOMAIN log' :
                         j < i /\ log'[i].event = log'[j].event /\ log'[i].actor # "human" =>
                           log'[i].rule = log'[j].rule \/ Batch!IsDuplicate(log'[i])
  BY DEF HoldsFit, Batch!IsDuplicate
<1>1. log'[j].event \in EventIds
  BY DEF HoldsFit, Grown
<1>2. ASSUME NEW i \in DOMAIN log', j < i, log'[i].event = log'[j].event,
             log'[i].actor # "human"
      PROVE  log'[i].rule = log'[j].rule \/ Batch!IsDuplicate(log'[i])
  <2>1. j \in DOMAIN log
    BY <1>2 DEF Grown
  <2>2. CASE i \in DOMAIN log
    BY <1>2, <2>1, <2>2 DEF HoldsFit, Grown
  <2>3. CASE i \notin DOMAIN log
    <3>1. log'[i] = row /\ log'[j] = log[j]
      BY <2>1, <2>3 DEF Grown
    <3> QED
      BY <1>2, <2>1, <3>1
  <2> QED
    BY <2>2, <2>3
<1> QED
  BY <1>1, <1>2

LEMMA RowsGrow ==
  ASSUME RowsFit, NEW row, NEW n, Grown(row, n),
         IF row.actor = "human"
           THEN /\ AdminRow(row)
                /\ Fulfils(row) =>
                     \E j \in DOMAIN log : log[j].event = row.event /\ OnHold(log[j])
           ELSE row.state = "waiting_on_ptp" => OnHold(row)
  PROVE  RowsFit'
<1> SUFFICES ASSUME NEW k \in DOMAIN log'
             PROVE  IF log'[k].actor = "human"
                      THEN /\ AdminRow(log'[k])
                           /\ Fulfils(log'[k]) =>
                                \E j \in DOMAIN log' :
                                  /\ j < k /\ log'[j].event = log'[k].event
                                  /\ OnHold(log'[j])
                      ELSE log'[k].state = "waiting_on_ptp" => OnHold(log'[k])
  BY DEF RowsFit, Before
<1>1. CASE k \in DOMAIN log
  <2>1. log'[k] = log[k]
    BY <1>1 DEF Grown
  <2>2. ASSUME NEW j \in DOMAIN log, Before(j, k), OnHold(log[j])
        PROVE  /\ j \in DOMAIN log' /\ j < k
               /\ log'[j].event = log'[k].event /\ OnHold(log'[j])
    BY <1>1, <2>1, <2>2 DEF Grown, Before
  <2> QED
    BY <1>1, <2>1, <2>2 DEF RowsFit
<1>2. CASE k \notin DOMAIN log
  <2>1. k = n /\ log'[k] = row
    BY <1>2 DEF Grown
  <2>2. ASSUME NEW j \in DOMAIN log, log[j].event = row.event, OnHold(log[j])
        PROVE  /\ j \in DOMAIN log' /\ j < k
               /\ log'[j].event = log'[k].event /\ OnHold(log'[j])
    BY <2>1, <2>2 DEF Grown
  <2> QED
    BY <2>1, <2>2
<1> QED
  BY <1>1, <1>2

LEMMA DesksGrow ==
  ASSUME DesksFit, NEW row, NEW n, Grown(row, n), Shrinks
  PROVE  DesksFit'
<1> SUFFICES ASSUME NEW a \in Admins, desk'[a] # Nothing
             PROVE  /\ AdminRow(desk'[a])
                    /\ Fulfils(desk'[a]) =>
                         \E j \in DOMAIN log' :
                           log'[j].event = desk'[a].event /\ OnHold(log'[j])
  BY DEF DesksFit
<1>1. desk'[a] = desk[a]
  BY DEF Shrinks
<1>2. ASSUME NEW j \in DOMAIN log, log[j].event = desk[a].event, OnHold(log[j])
      PROVE  j \in DOMAIN log' /\ log'[j].event = desk[a].event /\ OnHold(log'[j])
  BY <1>2 DEF Grown
<1> QED
  BY <1>1, <1>2 DEF DesksFit

LEMMA LatestGrows ==
  ASSUME LatestExists, NEW row, NEW n, Grown(row, n)
  PROVE  LatestExists'
<1> SUFFICES ASSUME NEW k \in DOMAIN log'
             PROVE  \E m \in DOMAIN log' :
                      /\ log'[m].event = log'[k].event
                      /\ \A j \in DOMAIN log' : log'[j].event = log'[k].event => j <= m
  BY DEF LatestExists
<1>1. CASE log'[k].event = row.event
  <2>1. n \in DOMAIN log' /\ log'[n] = row /\ \A j \in DOMAIN log' : j <= n
    BY DEF Grown
  <2> QED
    BY <1>1, <2>1
<1>2. CASE log'[k].event # row.event
  <2>1. k \in DOMAIN log /\ log'[k] = log[k]
    BY <1>2 DEF Grown
  <2>2. PICK m \in DOMAIN log :
          /\ log[m].event = log[k].event
          /\ \A j \in DOMAIN log : log[j].event = log[k].event => j <= m
    BY <2>1 DEF LatestExists
  <2>3. m \in DOMAIN log' /\ log'[m].event = log'[k].event
    BY <2>1, <2>2 DEF Grown
  <2>4. ASSUME NEW j \in DOMAIN log', log'[j].event = log'[k].event
        PROVE  j <= m
    BY <1>2, <2>1, <2>2, <2>4 DEF Grown
  <2> QED
    BY <2>3, <2>4
<1> QED
  BY <1>1, <1>2

LEMMA TypesGrow ==
  ASSUME Types, NEW row \in Rows, NEW n, Grown(row, n), Shrinks,
         desk' \in [Admins -> Rows \cup {Nothing}], requests' \in Nat, deliveries' \in Nat,
         claimed' \subseteq EventIds \cup Payments,
         run' \in [Goroutines -> Batch!RunStates],
         \A h \in Goroutines : Held(run'[h]) => run'[h].cur \in Events
  PROVE  Types'
<1>1. ASSUME NEW a \in Admins, desk'[a] # Nothing
      PROVE  /\ desk'[a].actor = "human"
             /\ \E k \in DOMAIN log' : log'[k].event = desk'[a].event
  <2>1. desk'[a] = desk[a]
    BY <1>1 DEF Shrinks
  <2>2. /\ desk[a].actor = "human"
        /\ \E k \in DOMAIN log : log[k].event = desk[a].event
    BY <1>1, <2>1 DEF Types, TypeOK
  <2> QED
    BY <2>1, <2>2 DEF Grown
<1> QED
  BY <1>1 DEF Types, TypeOK, Grown

-----------------------------------------------------------------------------
(* RunBatch keeps the invariant. *)

Updated(g, r) ==
  /\ run' \in [Goroutines -> Batch!RunStates]
  /\ run'[g] = r
  /\ \A h \in Goroutines : h # g => run'[h] = run[h]

LEMMA RunUpdate ==
  ASSUME Types, NEW g \in Goroutines, NEW r \in Batch!RunStates, Batch!Becomes(g, r)
  PROVE  Updated(g, r)
BY DEF Types, TypeOK, Batch!Becomes, Updated

(* A goroutine with an event writes about it. *)
LEMMA ProperKeepsIInv ==
  ASSUME IInv, NEW g \in Goroutines, NEW r \in Batch!RunStates, NEW row \in Batch!Rows,
         Writes(g, r, row), Proper(run[g], r, row)
  PROVE  IInv'
<1> DEFINE old == run[g]
           n == Len(log) + 1
<1>1. row \in Rows
  BY EngineRows
<1>2. Grown(row, n)
  BY <1>1, Grows DEF IInv, Types, TypeOK, Writes, Batch!AppendRow
<1>3. Shrinks /\ UNCHANGED <<claimed, hydrated, deliveries, desk, requests>>
  BY DEF Shrinks, Writes
<1>4. Updated(g, r)
  BY RunUpdate DEF IInv, Writes
<1>5. /\ Works(old) /\ ~Done(old) /\ Works(r) /\ r.cur = old.cur /\ r.now = old.now
      /\ row.event = old.cur.id /\ row.actor # "human"
      /\ row.state = "waiting_on_ptp" => OnHold(row)
      /\ row.rule \in Suppressing =>
           /\ Done(r) /\ row.state = "suppressed"
           /\ old.pc = "loop" /\ Suppressed(old.cur, old.now)
      /\ r.pc # "loop" => r.step.rule \notin Suppressing
      /\ Done(r) \/ ~Suppressed(r.cur, r.now)
      /\ OnHold(row) => Done(r) \/ Holds(r, row.rule)
      /\ \A rule : Holds(old, rule) => Done(r) /\ row.rule = rule
  BY DEF Proper
<1> HIDE DEF n
<1>6. old.cur \in Events /\ row.event \in EventIds /\ Held(old) /\ Held(r)
  BY <1>5, EventsAssumption DEF IInv, Types, Works
<1>7. hydrated /\ row.event \in claimed
  BY <1>5, <1>6 DEF IInv, ClaimsFit
<1>8. \A h \in Goroutines : h # g /\ Works(run[h]) => run[h].cur.id # row.event
  BY <1>5 DEF IInv, ClaimsFit
<1>9. WorkerFits(old, log, desk)
  BY DEF IInv, WorkersFit
<1>10. \A j \in DOMAIN log : log[j].event = row.event => log[j].rule \notin Suppressing
  BY <1>5 DEF IInv, SuppressedFit
<1>11. \A j \in DOMAIN log : log[j].event = row.event /\ OnHold(log[j]) =>
         Holds(old, log[j].rule)
  BY <1>5, <1>9 DEF WorkerFits
<1> HIDE DEF old
<1>12. Types'
  <2>1. /\ desk' \in [Admins -> Rows \cup {Nothing}] /\ requests' \in Nat
        /\ deliveries' \in Nat /\ claimed' \subseteq EventIds \cup Payments
    BY <1>3 DEF IInv, Types, TypeOK
  <2>2. \A h \in Goroutines : Held(run'[h]) => run'[h].cur \in Events
    BY <1>4, <1>5, <1>6 DEF IInv, Types, Updated
  <2>3. run' \in [Goroutines -> Batch!RunStates]
    BY <1>4 DEF Updated
  <2> QED
    BY <1>1, <1>2, <1>3, <2>1, <2>2, <2>3, TypesGrow DEF IInv
<1>13. WorkersFit'
  <2> SUFFICES ASSUME NEW h \in Goroutines
               PROVE  WorkerFits(run'[h], log', desk')
    BY DEF WorkersFit
  <2>1. CASE h # g
    <3>1. run'[h] = run[h] /\ WorkerFits(run[h], log, desk)
      BY <2>1, <1>4 DEF IInv, WorkersFit, Updated
    <3>2. ~(Works(run[h]) /\ row.event = run[h].cur.id)
      BY <2>1, <1>8
    <3> QED
      BY <3>1, <3>2, <1>2, <1>3, WorkerGrows
  <2>2. CASE h = g
    <3>1. ASSUME NEW j \in DOMAIN log', log'[j].event = r.cur.id, OnHold(log'[j])
          PROVE  Done(r) \/ Holds(r, log'[j].rule)
      <4>1. CASE j \in DOMAIN log
        <5>1. log'[j] = log[j]
          BY <4>1, <1>2 DEF Grown
        <5> QED
          BY <5>1, <4>1, <3>1, <1>5, <1>11
      <4>2. CASE j \notin DOMAIN log
        <5>1. log'[j] = row
          BY <4>2, <1>2 DEF Grown
        <5> QED
          BY <5>1, <3>1, <1>5
      <4> QED
        BY <4>1, <4>2
    <3>2. WorkerFits(r, log', desk')
      BY <3>1, <1>5 DEF WorkerFits
    <3> QED
      BY <3>2, <2>2, <1>4 DEF Updated
  <2> QED
    BY <2>1, <2>2
<1>14. ClaimsFit'
  <2>1. \A k \in DOMAIN log' : log'[k].event \in EventIds => log'[k].event \in claimed
    BY <1>2, <1>7 DEF IInv, ClaimsFit, Grown
  <2>2. \A h \in Goroutines : Held(run'[h]) => run'[h].cur.id \in claimed
    BY <1>4, <1>5, <1>7 DEF IInv, ClaimsFit, Updated
  <2>3. \A h, i \in Goroutines :
          Works(run'[h]) /\ Works(run'[i]) /\ run'[h].cur.id = run'[i].cur.id => h = i
    BY <1>4, <1>5, <1>8 DEF IInv, ClaimsFit, Updated
  <2> QED
    BY <2>1, <2>2, <2>3, <1>3, <1>7 DEF ClaimsFit
<1>15. SuppressedFit'
  <2>1. Carries
    BY <1>4, <1>5 DEF Carries, Updated, old
  <2>2. ASSUME row.rule \in Suppressing
        PROVE  /\ AllLetAlone(log', desk', row.event)
               /\ \A h \in Goroutines :
                    Works(run'[h]) /\ run'[h].cur.id = row.event => Done(run'[h])
    <3>1. AllLetAlone(log, desk, row.event) /\ LetAlone(row) /\ Done(r)
      BY <2>2, <1>5, <1>9 DEF WorkerFits, LetAlone
    <3>2. AllLetAlone(log', desk', row.event)
      BY <3>1, <1>2, <1>3, LetAloneGrows
    <3> QED
      BY <3>1, <3>2, <1>4, <1>8 DEF Updated
  <2> QED
    BY <2>1, <2>2, <1>2, <1>3, <1>6, <1>10, SuppressedGrows DEF IInv
<1>16. HoldsFit'
  <2>1. \A j \in DOMAIN log : OnHold(log[j]) /\ log[j].event = row.event =>
          row.rule = log[j].rule
    BY <1>5, <1>11
  <2> QED
    BY <2>1, <1>2, <1>6, HoldsGrow DEF IInv
<1>17. RowsFit'
  BY <1>2, <1>5, RowsGrow DEF IInv
<1>18. DesksFit' /\ LatestExists'
  BY <1>2, <1>3, DesksGrow, LatestGrows DEF IInv
<1> QED
  BY <1>12, <1>13, <1>14, <1>15, <1>16, <1>17, <1>18 DEF IInv

(* The row of a duplicate is one of those that stay true of any event. *)
LEMMA DuplicateKeepsIInv ==
  ASSUME IInv, NEW g \in Goroutines, Batch!SuppressDuplicate(g), UNCHANGED desks
  PROVE  IInv'
<1> DEFINE old == run[g]
           row == Batch!DuplicateRow(old)
           r == [old EXCEPT !.pc = "claim", !.cur = NoEvent]
           n == Len(log) + 1
<1>1. old.pc = "duplicate" /\ Writes(g, r, row)
  BY DEF Batch!SuppressDuplicate, Writes, desks, Batch!store, Batch!bounds
<1>2. old \in Batch!RunStates /\ Held(old) /\ old.cur \in Events
  BY <1>1 DEF IInv, Types, TypeOK, Held
<1> HIDE DEF old
<1>3. /\ row \in Batch!Rows /\ row.event = old.cur.id
      /\ row.rule = "duplicate_suppress" /\ row.decision = "suppress"
      /\ row.state = "suppressed" /\ row.actor # "human"
  <2>1. /\ "duplicate_suppress" \in Batch!Rules /\ "suppress" \in Batch!Decisions
        /\ "suppressed" \in Batch!States /\ "policy_engine" \in Batch!Actors
        /\ Batch!NoAttempt \in Nat \cup {Batch!NoAttempt}
    BY DEF Batch!Rules, Batch!Decisions, Batch!States, Batch!Actors
  <2> QED
    BY <1>2, <2>1, RowFacts DEF Batch!DuplicateRow
<1> HIDE DEF row
<1>4. r \in Batch!RunStates /\ ~Held(r)
  BY <1>2 DEF Batch!RunStates, Batch!PCs, Held
<1> HIDE DEF r
<1>5. row \in Rows /\ Updated(g, r)
  BY <1>1, <1>3, <1>4, EngineRows, RunUpdate DEF IInv, Writes
<1>6. Grown(row, n)
  BY <1>1, <1>5, Grows DEF IInv, Types, TypeOK, Writes, Batch!AppendRow
<1> HIDE DEF n
<1>7. Shrinks /\ UNCHANGED <<claimed, hydrated, deliveries, desk, requests>>
  BY <1>1 DEF Shrinks, Writes
<1>8. ~OnHold(row) /\ LetAlone(row) /\ Batch!IsDuplicate(row) /\ row.rule \notin Suppressing
  BY <1>3 DEF OnHold, LetAlone, Batch!IsDuplicate, Suppressing
<1>9. hydrated /\ row.event \in claimed
  BY <1>2, <1>3 DEF IInv, ClaimsFit, old
<1>10. ~Works(r)
  BY <1>4 DEF Works
<1>11. Types'
  <2>1. /\ desk' \in [Admins -> Rows \cup {Nothing}] /\ requests' \in Nat
        /\ deliveries' \in Nat /\ claimed' \subseteq EventIds \cup Payments
    BY <1>7 DEF IInv, Types, TypeOK
  <2>2. \A h \in Goroutines : Held(run'[h]) => run'[h].cur \in Events
    BY <1>4, <1>5 DEF IInv, Types, Updated
  <2>3. run' \in [Goroutines -> Batch!RunStates]
    BY <1>5 DEF Updated
  <2> QED
    BY <1>5, <1>6, <1>7, <2>1, <2>2, <2>3, TypesGrow DEF IInv
<1>12. WorkersFit'
  <2> SUFFICES ASSUME NEW h \in Goroutines
               PROVE  WorkerFits(run'[h], log', desk')
    BY DEF WorkersFit
  <2>1. CASE h # g
    <3>1. run'[h] = run[h] /\ WorkerFits(run[h], log, desk)
      BY <2>1, <1>5 DEF IInv, WorkersFit, Updated
    <3> QED
      BY <3>1, <1>6, <1>7, <1>8, WorkerGrows
  <2>2. CASE h = g
    <3>1. run'[h] = r
      BY <2>2, <1>5 DEF Updated
    <3> QED
      BY <3>1, <1>10 DEF WorkerFits
  <2> QED
    BY <2>1, <2>2
<1>13. ClaimsFit'
  <2>1. \A k \in DOMAIN log' : log'[k].event \in EventIds => log'[k].event \in claimed
    BY <1>6, <1>9 DEF IInv, ClaimsFit, Grown
  <2>2. \A h \in Goroutines : Held(run'[h]) => run'[h].cur.id \in claimed
    BY <1>4, <1>5 DEF IInv, ClaimsFit, Updated
  <2>3. \A h, i \in Goroutines :
          Works(run'[h]) /\ Works(run'[i]) /\ run'[h].cur.id = run'[i].cur.id => h = i
    BY <1>5, <1>10 DEF IInv, ClaimsFit, Updated
  <2> QED
    BY <2>1, <2>2, <2>3, <1>7, <1>9 DEF ClaimsFit
<1>14. SuppressedFit'
  <2>1. Carries
    BY <1>5, <1>10 DEF Carries, Updated
  <2> QED
    BY <2>1, <1>6, <1>7, <1>8, SuppressedGrows DEF IInv
<1>15. HoldsFit'
  BY <1>6, <1>8, HoldsGrow DEF IInv
<1>16. RowsFit'
  BY <1>3, <1>6, RowsGrow DEF IInv
<1>17. DesksFit' /\ LatestExists'
  BY <1>6, <1>7, DesksGrow, LatestGrows DEF IInv
<1> QED
  BY <1>11, <1>12, <1>13, <1>14, <1>15, <1>16, <1>17 DEF IInv

(* A goroutine that lets go of what it has, or carries an action out. *)
Moves(g, r) ==
  /\ Batch!Becomes(g, r) /\ UNCHANGED <<log, claimed, hydrated, desk, requests>>
  /\ deliveries' \in Nat
  /\ \/ ~Held(r)
     \/ /\ run[g].pc = "execute" /\ r.pc = "record"
        /\ r.cur = run[g].cur /\ r.now = run[g].now /\ r.step = run[g].step

LEMMA MovesKeepIInv ==
  ASSUME IInv, NEW g \in Goroutines, NEW r \in Batch!RunStates, Moves(g, r)
  PROVE  IInv'
<1>1. Updated(g, r) /\ UNCHANGED <<log, claimed, hydrated, desk, requests>>
  BY RunUpdate DEF IInv, Moves
<1>2. Held(r) => /\ Works(r) /\ Works(run[g]) /\ ~Done(run[g]) /\ ~Done(r)
                 /\ r.cur = run[g].cur /\ r.now = run[g].now /\ r.step = run[g].step
                 /\ run[g].pc = "execute"
  BY DEF Moves, Held, Works, Done
<1>3. Types'
  BY <1>1, <1>2 DEF IInv, Types, TypeOK, Updated, Moves, Works
<1>4. WorkersFit'
  <2>1. WorkerFits(run[g], log, desk)
    BY DEF IInv, WorkersFit
  <2>2. WorkerFits(r, log, desk)
    <3> SUFFICES ASSUME Works(r)
                 PROVE  WorkerFits(r, log, desk)
      BY DEF WorkerFits
    <3>1. run[g].step.rule \notin Suppressing /\ ~Suppressed(run[g].cur, run[g].now)
      BY <2>1, <1>2, MidTurn DEF Works
    <3>2. \A j \in DOMAIN log : ~(log[j].event = run[g].cur.id /\ OnHold(log[j]))
      BY <2>1, <1>2 DEF WorkerFits, Holds, Works
    <3> QED
      BY <3>1, <3>2, <1>2 DEF WorkerFits, Works
  <2> QED
    BY <2>2, <1>1 DEF IInv, WorkersFit, Updated
<1>5. ClaimsFit'
  <2>1. \A h \in Goroutines : Held(run'[h]) => hydrated /\ run'[h].cur.id \in claimed
    BY <1>1, <1>2 DEF IInv, ClaimsFit, Updated, Works
  <2>2. \A h, i \in Goroutines :
          Works(run'[h]) /\ Works(run'[i]) /\ run'[h].cur.id = run'[i].cur.id => h = i
    BY <1>1, <1>2 DEF IInv, ClaimsFit, Updated, Works
  <2> QED
    BY <2>1, <2>2, <1>1 DEF IInv, ClaimsFit
<1>6. SuppressedFit'
  BY <1>1, <1>2 DEF IInv, SuppressedFit, Updated, Works
<1>7. HoldsFit' /\ RowsFit' /\ DesksFit' /\ LatestExists'
  BY <1>1 DEF IInv, HoldsFit, RowsFit, DesksFit, LatestExists, Before
<1> QED
  BY <1>3, <1>4, <1>5, <1>6, <1>7 DEF IInv

LEMMA IdleRunType == Batch!IdleRun \in Batch!RunStates /\ ~Held(Batch!IdleRun)
BY DEF Batch!IdleRun, Batch!RunStates, Batch!PCs, Batch!States, Batch!Steps, Batch!Rules,
       Batch!Decisions, Held

LEMMA DeliverKeepsIInv ==
  ASSUME IInv, NEW g \in Goroutines, Batch!Deliver(g), UNCHANGED desks
  PROVE  IInv'
<1>1. PICK b \in Batches, now \in Clocks :
        Batch!Becomes(g, [Batch!IdleRun EXCEPT !.pc = "claim", !.id = deliveries + 1,
                                               !.now = now, !.batch = b, !.todo = b])
  BY DEF Batch!Deliver
<1> DEFINE r == [Batch!IdleRun EXCEPT !.pc = "claim", !.id = deliveries + 1,
                                      !.now = now, !.batch = b, !.todo = b]
<1>2. deliveries + 1 \in Nat
  BY DEF IInv, Types
<1>3. deliveries' = deliveries + 1 /\ UNCHANGED <<log, claimed, hydrated, desk, requests>>
  BY DEF Batch!Deliver, Batch!store, desks
<1>4. r \in Batch!RunStates /\ ~Held(r)
  <2>1. b \in Seq(Events) /\ now \in Nat /\ "claim" \in Batch!PCs
    BY BatchesAssumption, ClocksAssumption DEF Batch!PCs
  <2>2. r \in Batch!RunStates
    BY <2>1, <1>2, IdleRunType DEF Batch!RunStates
  <2>3. r.pc = "claim"
    BY IdleRunType DEF Batch!RunStates
  <2> QED
    BY <2>2, <2>3 DEF Held
<1>5. Batch!Becomes(g, r)
  BY <1>1
<1> HIDE DEF r
<1>6. Moves(g, r)
  BY <1>2, <1>3, <1>4, <1>5 DEF Moves
<1> QED
  BY <1>4, <1>6, MovesKeepIInv

LEMMA LeaveLoopKeepsIInv ==
  ASSUME IInv, NEW g \in Goroutines, Batch!LeaveLoop(g), UNCHANGED desks
  PROVE  IInv'
<1> DEFINE hit == run[g].limitHit \/ (/\ run[g].state \notin Batch!RunningTerminal
                                      /\ run[g].steps < GuardLimit)
           r == [run[g] EXCEPT !.pc = "claim", !.cur = NoEvent, !.limitHit = hit]
<1>1. Batch!Becomes(g, r) /\ UNCHANGED <<log, claimed, hydrated, deliveries, desk, requests>>
  BY DEF Batch!LeaveLoop, Batch!store, Batch!bounds, desks
<1>2. run[g] \in Batch!RunStates
  BY DEF IInv, Types, TypeOK
<1>3. hit \in BOOLEAN
  BY <1>2 DEF Batch!RunStates
<1> HIDE DEF hit
<1>4. r \in Batch!RunStates /\ ~Held(r)
  BY <1>2, <1>3 DEF Batch!RunStates, Batch!PCs, Held
<1> HIDE DEF r
<1>5. Moves(g, r)
  BY <1>1, <1>4 DEF Moves, IInv, Types
<1> QED
  BY <1>4, <1>5, MovesKeepIInv

LEMMA ExecuteKeepsIInv ==
  ASSUME IInv, NEW g \in Goroutines, Batch!Execute(g), UNCHANGED desks
  PROVE  IInv'
<1> DEFINE old == run[g]
<1>1. PICK won \in Batch!ExecuteAction(old.cur) :
        Batch!Becomes(g, [old EXCEPT !.pc = "record", !.recovered = won,
                                     !.touches[old.cur.customer] = @ + 1])
  BY DEF Batch!Execute
<1> DEFINE r == [old EXCEPT !.pc = "record", !.recovered = won,
                            !.touches[old.cur.customer] = @ + 1]
<1>2. old.pc = "execute" /\ UNCHANGED <<log, claimed, hydrated, deliveries, desk, requests>>
  BY DEF Batch!Execute, Batch!store, Batch!bounds, desks
<1>3. old \in Batch!RunStates /\ old.cur \in Events
  BY <1>2 DEF IInv, Types, TypeOK, Held
<1>4. Batch!Becomes(g, r)
  BY <1>1
<1> HIDE DEF old
<1>5. won \in BOOLEAN
  BY <1>1, <1>3, EventsAssumption DEF Batch!ExecuteAction
<1>6. /\ r.pc = "record" /\ r.cur = old.cur /\ r.now = old.now /\ r.step = old.step
      /\ r \in Batch!RunStates
  <2>1. old.touches \in [Customers -> Nat] /\ old.cur.customer \in Customers
    BY <1>3, EventsAssumption DEF Batch!RunStates
  <2> DEFINE touches == [old.touches EXCEPT ![old.cur.customer] = @ + 1]
  <2>2. touches \in [Customers -> Nat]
    BY <2>1
  <2> HIDE DEF touches
  <2>3. r = [old EXCEPT !.pc = "record", !.recovered = won, !.touches = touches]
    BY <1>3 DEF touches, Batch!RunStates
  <2> HIDE DEF r
  <2> QED
    BY <1>3, <1>5, <2>2, <2>3 DEF Batch!RunStates, Batch!PCs
<1> HIDE DEF r
<1>7. Moves(g, r)
  BY <1>2, <1>4, <1>6 DEF Moves, IInv, Types, old
<1> QED
  BY <1>6, <1>7, MovesKeepIInv

LEMMA EndsKeepIInv ==
  ASSUME IInv, NEW g \in Goroutines, Batch!Return(g) \/ Batch!StoreFails(g), UNCHANGED desks
  PROVE  IInv'
<1>1. /\ Batch!Becomes(g, Batch!IdleRun)
      /\ UNCHANGED <<log, claimed, hydrated, deliveries, desk, requests>>
  <2>1. CASE Batch!Return(g)
    BY <2>1 DEF Batch!Return, Batch!store, Batch!bounds, desks
  <2>2. CASE Batch!StoreFails(g)
    BY <2>2 DEF Batch!StoreFails, Batch!store, desks
  <2> QED
    BY <2>1, <2>2
<1>2. Moves(g, Batch!IdleRun)
  BY <1>1, IdleRunType DEF Moves, IInv, Types
<1> QED
  BY <1>2, IdleRunType, MovesKeepIInv

(* Nothing in the log, on a desk or in a goroutine is about the event. *)
Fresh(id) ==
  /\ \A k \in DOMAIN log : log[k].event # id
  /\ \A a \in Admins : desk[a] # Nothing => desk[a].event # id
  /\ \A h \in Goroutines : Held(run[h]) => run[h].cur.id # id

(* A claim marks the event, in a claim set that covers the log. *)
LEMMA ClaimFacts ==
  ASSUME IInv, NEW g \in Goroutines, Batch!ClaimNext(g), UNCHANGED desks
  PROVE  LET ev == Head(run[g].todo)
         IN  /\ run[g] \in Batch!RunStates /\ run[g].pc = "claim"
             /\ ev \in Events /\ Tail(run[g].todo) \in Seq(Events)
             /\ UNCHANGED <<log, deliveries, desk, requests>>
             /\ hydrated' /\ claimed' \subseteq EventIds \cup Payments
             /\ claimed \subseteq claimed' /\ ev.id \in claimed'
             /\ \A k \in DOMAIN log :
                  log[k].event \in EventIds => log[k].event \in claimed'
             /\ ev.id \notin Batch!Known => Fresh(ev.id)
<1> DEFINE ev == Head(run[g].todo)
<1>1. /\ run[g].pc = "claim" /\ run[g].todo # <<>>
      /\ hydrated' = TRUE /\ claimed' = Batch!Known \cup {ev.id}
      /\ UNCHANGED <<log, deliveries, desk, requests>>
  BY DEF Batch!ClaimNext, Batch!bounds, desks
<1>2. run[g] \in Batch!RunStates
  BY DEF IInv, Types, TypeOK
<1>3. ev \in Events /\ Tail(run[g].todo) \in Seq(Events)
  <2>1. run[g].todo \in Seq(Events)
    BY <1>2 DEF Batch!RunStates
  <2> QED
    BY <2>1, <1>1
<1> HIDE DEF ev
<1>4. ev.id \in EventIds
  BY <1>3, EventsAssumption
<1>5. \A k \in DOMAIN log : log[k] \in Rows
  BY DEF IInv, Types, TypeOK
<1>6. \A k \in DOMAIN log : log[k].event \in EventIds \cup Payments
  BY <1>5 DEF Rows
<1>7. /\ claimed \subseteq Batch!Known /\ Batch!Known \subseteq EventIds \cup Payments
      /\ \A k \in DOMAIN log :
           log[k].event \in EventIds => log[k].event \in Batch!Known
  BY <1>6 DEF Batch!Known, IInv, Types, TypeOK, ClaimsFit
<1>8. ASSUME ev.id \notin Batch!Known
      PROVE  Fresh(ev.id)
  <2>1. \A k \in DOMAIN log : log[k].event # ev.id
    BY <1>4, <1>7, <1>8
  <2>2. \A a \in Admins : desk[a] # Nothing => desk[a].event # ev.id
    BY <2>1 DEF IInv, Types, TypeOK
  <2>3. \A h \in Goroutines : Held(run[h]) => run[h].cur.id # ev.id
    BY <1>7, <1>8 DEF IInv, ClaimsFit
  <2> QED
    BY <2>1, <2>2, <2>3 DEF Fresh
<1> QED
  BY <1>1, <1>2, <1>3, <1>4, <1>7, <1>8 DEF ev

(* The goroutine has the event for its duplicate, has none, or starts to work *)
(* on a fresh one.                                                            *)
LEMMA ClaimKeepsIInv ==
  ASSUME IInv, NEW g \in Goroutines, Batch!ClaimNext(g), UNCHANGED desks,
         NEW r \in Batch!RunStates, Batch!Becomes(g, r),
         Held(r) => r.cur = Head(run[g].todo),
         Works(r) => r.pc = "loop" /\ Head(run[g].todo).id \notin Batch!Known
  PROVE  IInv'
<1> DEFINE ev == Head(run[g].todo)
<1>1. /\ ev \in Events
      /\ UNCHANGED <<log, deliveries, desk, requests>>
      /\ hydrated' /\ claimed' \subseteq EventIds \cup Payments
      /\ claimed \subseteq claimed' /\ ev.id \in claimed'
      /\ \A k \in DOMAIN log : log[k].event \in EventIds => log[k].event \in claimed'
      /\ ev.id \notin Batch!Known => Fresh(ev.id)
  BY ClaimFacts
<1>2. Held(r) => r.cur = ev
  OBVIOUS
<1>3. Works(r) => r.pc = "loop" /\ Fresh(ev.id) /\ r.cur = ev
  BY <1>1, <1>2 DEF Works
<1> HIDE DEF ev
<1>4. Updated(g, r)
  BY RunUpdate DEF IInv
<1>5. Types'
  BY <1>1, <1>2, <1>4 DEF IInv, Types, TypeOK, Updated
<1>6. WorkersFit'
  <2>1. WorkerFits(r, log, desk)
    BY <1>3 DEF WorkerFits, Fresh, AllLetAlone
  <2> QED
    BY <2>1, <1>1, <1>4 DEF IInv, WorkersFit, Updated
<1>7. ClaimsFit'
  <2>1. \A h \in Goroutines : Held(run'[h]) => run'[h].cur.id \in claimed'
    BY <1>1, <1>2, <1>4 DEF IInv, ClaimsFit, Updated
  <2>2. \A h, i \in Goroutines :
          Works(run'[h]) /\ Works(run'[i]) /\ run'[h].cur.id = run'[i].cur.id => h = i
    BY <1>3, <1>4 DEF IInv, ClaimsFit, Updated, Fresh, Works
  <2> QED
    BY <2>1, <2>2, <1>1 DEF ClaimsFit
<1>8. SuppressedFit'
  <2>1. \A j \in DOMAIN log : Works(r) => log[j].event # r.cur.id
    BY <1>3 DEF Fresh
  <2> QED
    BY <2>1, <1>1, <1>4 DEF IInv, SuppressedFit, Updated
<1>9. HoldsFit' /\ RowsFit' /\ DesksFit' /\ LatestExists'
  BY <1>1 DEF IInv, HoldsFit, RowsFit, DesksFit, LatestExists, Before
<1> QED
  BY <1>5, <1>6, <1>7, <1>8, <1>9 DEF IInv

LEMMA ClaimsKeepIInv ==
  ASSUME IInv, NEW g \in Goroutines, UNCHANGED desks,
         Batch!ClaimRefused(g) \/ Batch!ClaimOverLimit(g) \/ Batch!ClaimGranted(g)
  PROVE  IInv'
<1> DEFINE old == run[g]
           ev == Head(old.todo)
<1>1. Batch!ClaimNext(g)
  BY DEF Batch!ClaimRefused, Batch!ClaimOverLimit, Batch!ClaimGranted
<1>2. /\ old \in Batch!RunStates /\ old.pc = "claim"
      /\ ev \in Events /\ Tail(old.todo) \in Seq(Events)
  BY <1>1, ClaimFacts
<1>3. CASE Batch!ClaimRefused(g)
  <2> DEFINE r == [old EXCEPT !.pc = "duplicate", !.cur = ev, !.todo = Tail(@)]
  <2>1. Batch!Becomes(g, r)
    BY <1>3 DEF Batch!ClaimRefused
  <2> HIDE DEF old
  <2>2. r \in Batch!RunStates /\ r.cur = ev /\ r.pc = "duplicate"
    <3> HIDE DEF ev
    <3> QED
      BY <1>2 DEF Batch!RunStates, Batch!PCs
  <2> HIDE DEF r
  <2> QED
    BY <1>1, <2>1, <2>2, ClaimKeepsIInv DEF Works, old
<1>4. CASE Batch!ClaimOverLimit(g)
  <2> DEFINE r == [old EXCEPT !.todo = <<>>, !.limitHit = TRUE]
  <2>1. Batch!Becomes(g, r)
    BY <1>4 DEF Batch!ClaimOverLimit
  <2> HIDE DEF old
  <2>2. r \in Batch!RunStates /\ r.pc = "claim"
    <3> DEFINE none == <<>>
    <3>1. none \in Seq(Events)
      OBVIOUS
    <3> HIDE DEF none
    <3>2. [old EXCEPT !.todo = none, !.limitHit = TRUE] \in Batch!RunStates
      BY <1>2, <3>1 DEF Batch!RunStates
    <3>3. r \in Batch!RunStates
      BY <3>2 DEF none
    <3> QED
      BY <3>3, <1>2 DEF Batch!RunStates
  <2> HIDE DEF r
  <2> QED
    BY <1>1, <2>1, <2>2, ClaimKeepsIInv DEF Works, Held, old
<1>5. CASE Batch!ClaimGranted(g)
  <2> DEFINE r == [old EXCEPT !.pc = "loop", !.cur = ev, !.todo = Tail(@),
                              !.attempt = 0, !.state = "detected", !.steps = 0]
  <2>1. Batch!Becomes(g, r) /\ ev.id \notin Batch!Known
    BY <1>5 DEF Batch!ClaimGranted
  <2> HIDE DEF old
  <2>2. r \in Batch!RunStates /\ r.cur = ev /\ r.pc = "loop"
    <3> HIDE DEF ev
    <3> QED
      BY <1>2 DEF Batch!RunStates, Batch!PCs, Batch!States
  <2> HIDE DEF r
  <2> QED
    BY <1>1, <2>1, <2>2, ClaimKeepsIInv DEF old
<1> QED
  BY <1>3, <1>4, <1>5

LEMMA CrashKeepsIInv ==
  ASSUME IInv, Crash
  PROVE  IInv'
<1>1. /\ run' = [g \in Goroutines |-> Batch!IdleRun]
      /\ claimed' = {} /\ hydrated' = FALSE
      /\ desk' = [a \in Admins |-> Nothing]
      /\ UNCHANGED <<log, deliveries, requests>>
  BY DEF Crash, Batch!Crash
<1>2. \A g \in Goroutines : ~Held(run'[g]) /\ ~Works(run'[g])
  BY <1>1, IdleRunType DEF Works
<1>3. Types'
  <2>1. run' \in [Goroutines -> Batch!RunStates]
    BY <1>1, IdleRunType
  <2>2. desk' \in [Admins -> Rows \cup {Nothing}] /\ \A a \in Admins : desk'[a] = Nothing
    BY <1>1
  <2> QED
    BY <1>1, <1>2, <2>1, <2>2 DEF IInv, Types, TypeOK
<1>4. WorkersFit' /\ ClaimsFit'
  BY <1>1, <1>2 DEF WorkersFit, WorkerFits, ClaimsFit
<1>5. SuppressedFit'
  <2>1. \A j \in DOMAIN log : log[j].rule \in Suppressing =>
          log[j].event \in EventIds /\ AllLetAlone(log, desk', log[j].event)
    BY <1>1 DEF IInv, SuppressedFit, AllLetAlone
  <2> QED
    BY <2>1, <1>1, <1>2 DEF SuppressedFit
<1>6. HoldsFit' /\ RowsFit' /\ DesksFit' /\ LatestExists'
  BY <1>1 DEF IInv, HoldsFit, RowsFit, DesksFit, LatestExists, Before
<1> QED
  BY <1>3, <1>4, <1>5, <1>6 DEF IInv

-----------------------------------------------------------------------------
(* Admins and payments keep the invariant. *)

(* The latest row of an event that has rows is one of them. *)
LEMMA LatestIsARow ==
  ASSUME LatestExists, NEW k \in DOMAIN log
  PROVE  \E m \in DOMAIN log :
           Latest(log[k].event) = log[m] /\ log[m].event = log[k].event
<1> DEFINE id == log[k].event
           mine == {i \in DOMAIN log : log[i].event = id}
           last == CHOOSE i \in mine : \A j \in mine : j <= i
<1>1. PICK m \in DOMAIN log :
        log[m].event = id /\ \A j \in DOMAIN log : log[j].event = id => j <= m
  BY DEF LatestExists
<1>2. m \in mine /\ \A j \in mine : j <= m
  BY <1>1
<1>3. last \in mine
  BY <1>2
<1>4. Latest(id) = log[last]
  BY DEF Latest
<1>5. last \in DOMAIN log /\ log[last].event = id
  BY <1>3
<1> QED
  BY <1>4, <1>5

LEMMA EntryFacts ==
  ASSUME NEW latest \in Rows, NEW now \in Clocks,
         NEW decision \in Decisions, NEW state \in States
  PROVE  LET row == Entry(latest, now, decision, state)
         IN  /\ row \in Rows
             /\ row.event = latest.event /\ row.actor = "human" /\ row.rule = "no_op"
             /\ row.at = now /\ row.decision = decision /\ row.state = state
<1>1. now \in Nat /\ "no_op" \in Rules
  BY ClocksAssumption DEF Rules
<1> QED
  BY <1>1 DEF Entry, Rows

LEMMA ScheduledState ==
  ASSUME NEW flow, NEW ctx, NEW t, StepState(flow, ctx, t).decision \in {"retry", "contact"}
  PROVE  StepState(flow, ctx, t).state \in {"retry_scheduled", "contact_scheduled"}
BY DEF StepState, StateFor

(* The row an admin is answered with. *)
Answers(row, latest) ==
  /\ row \in Rows /\ row.event = latest.event /\ row.actor = "human" /\ AdminRow(row)
  /\ latest.state = "suppressed" => LetAlone(row)
  /\ Fulfils(row) => latest.state = "waiting_on_ptp"

LEMMA RefusalAnswers ==
  ASSUME NEW latest \in Rows, NEW now \in Clocks
  PROVE  Answers(Refusal(latest, now), latest)
<1>1. "none" \in Decisions /\ latest.state \in States
  BY DEF Decisions, Rows
<1> DEFINE row == Refusal(latest, now)
<1>2. /\ row \in Rows
      /\ row.event = latest.event /\ row.actor = "human" /\ row.rule = "no_op"
      /\ row.decision = "none" /\ row.state = latest.state
  BY <1>1, EntryFacts DEF Refusal
<1> HIDE DEF row
<1> QED
  BY <1>2 DEF Answers, AdminRow, LetAlone, Fulfils, row

(* An entry that schedules something, or fulfils what is waited for. *)
LEMMA EntryAnswers ==
  ASSUME NEW latest \in Rows, NEW now \in Clocks,
         NEW decision \in {"retry", "contact", "recover"}, NEW state \in States,
         latest.state # "suppressed",
         decision = "contact" => ~QuietHours(now),
         state = "waiting_on_ptp" \/ decision = "recover" => latest.state = "waiting_on_ptp"
  PROVE  Answers(Entry(latest, now, decision, state), latest)
<1>1. decision \in Decisions
  BY DEF Decisions
<1> DEFINE row == Entry(latest, now, decision, state)
<1>2. /\ row \in Rows
      /\ row.event = latest.event /\ row.actor = "human" /\ row.rule = "no_op"
      /\ row.at = now /\ row.decision = decision /\ row.state = state
  BY <1>1, EntryFacts
<1> HIDE DEF row
<1> QED
  BY <1>2 DEF Answers, AdminRow, LetAlone, Fulfils, row

LEMMA ActionsAnswer ==
  ASSUME NEW latest \in Rows, NEW now \in Clocks,
         NEW row \in {NudgeRetry(latest, now), SelectRecoveryChannel(latest, now),
                      MarkPtpFulfilled(latest, now)}
  PROVE  Answers(row, latest)
<1>1. Answers(Refusal(latest, now), latest)
  BY RefusalAnswers
<1>2. /\ "retry_scheduled" \in States /\ "contact_scheduled" \in States
      /\ "recovered" \in States
  BY DEF States
<1>3. latest.state # "suppressed" =>
        Answers(Entry(latest, now, "retry", "retry_scheduled"), latest)
  BY <1>2, EntryAnswers
<1>4. CASE row = SelectRecoveryChannel(latest, now)
  BY <1>1, <1>3, <1>4 DEF SelectRecoveryChannel
<1>5. CASE row = MarkPtpFulfilled(latest, now)
  <2>1. latest.state = "waiting_on_ptp" =>
          Answers(Entry(latest, now, "recover", "recovered"), latest)
    BY <1>2, EntryAnswers
  <2> QED
    BY <1>1, <1>5, <2>1 DEF MarkPtpFulfilled
<1>6. CASE row = NudgeRetry(latest, now)
  <2> DEFINE ev == CHOOSE e \in Loaded : e.id = latest.event
             step == IF \E e \in Loaded : e.id = latest.event
                       THEN StepState(ev.flow, buildRecoveryContext(now), Tunables)
                     ELSE [decision |-> "retry", state |-> "retry_scheduled"]
  <2>1. step.decision \in {"retry", "contact"} =>
          /\ step.state \in {"retry_scheduled", "contact_scheduled"}
          /\ step.decision = "contact" => ~QuietHours(now)
    <3>1. CASE \E e \in Loaded : e.id = latest.event
      <4>1. step = StepState(ev.flow, buildRecoveryContext(now), Tunables)
        BY <3>1
      <4> HIDE DEF step, ev
      <4> QED
        BY <4>1, ScheduledState, NudgesByDay
    <3>2. CASE ~ \E e \in Loaded : e.id = latest.event
      <4>1. step = [decision |-> "retry", state |-> "retry_scheduled"]
        BY <3>2
      <4> HIDE DEF step
      <4> QED
        BY <4>1
    <3> HIDE DEF step
    <3> QED
      BY <3>1, <3>2
  <2>2. \/ row = Refusal(latest, now)
        \/ /\ latest.state # "suppressed" /\ step.decision \in {"retry", "contact"}
           /\ row = Entry(latest, now, step.decision, step.state)
    BY <1>6 DEF NudgeRetry
  <2> HIDE DEF step
  <2>3. latest.state # "suppressed" /\ step.decision \in {"retry", "contact"} =>
          Answers(Entry(latest, now, step.decision, step.state), latest)
    <3> DEFINE decision == step.decision
               state == step.state
    <3> SUFFICES ASSUME latest.state # "suppressed", decision \in {"retry", "contact"}
                 PROVE  Answers(Entry(latest, now, decision, state), latest)
      OBVIOUS
    <3>1. /\ decision \in {"retry", "contact", "recover"} /\ decision # "recover"
          /\ state \in States /\ state # "waiting_on_ptp"
          /\ decision = "contact" => ~QuietHours(now)
      BY <1>2, <2>1
    <3> HIDE DEF decision, state
    <3> QED
      BY <3>1, EntryAnswers
  <2> QED
    BY <1>1, <2>2, <2>3
<1> QED
  BY <1>4, <1>5, <1>6

LEMMA AskKeepsIInv ==
  ASSUME IInv, NEW a \in Admins, Ask(a)
  PROVE  IInv'
<1>1. PICK k \in DOMAIN log, now \in Clocks :
        \E row \in {NudgeRetry(Latest(log[k].event), now),
                    SelectRecoveryChannel(Latest(log[k].event), now),
                    MarkPtpFulfilled(Latest(log[k].event), now)} :
          desk' = [desk EXCEPT ![a] = row]
  <2>1. PICK id \in {log[k].event : k \in DOMAIN log}, now \in Clocks :
          \E row \in {NudgeRetry(Latest(id), now), SelectRecoveryChannel(Latest(id), now),
                      MarkPtpFulfilled(Latest(id), now)} :
            desk' = [desk EXCEPT ![a] = row]
    BY Zenon DEF Ask
  <2>2. PICK k \in DOMAIN log : id = log[k].event
    BY <2>1
  <2> QED
    BY <2>1, <2>2, Zenon
<1>2. PICK m \in DOMAIN log :
        Latest(log[k].event) = log[m] /\ log[m].event = log[k].event
  BY LatestIsARow DEF IInv
<1> DEFINE latest == log[m]
<1>3. PICK row \in {NudgeRetry(latest, now), SelectRecoveryChannel(latest, now),
                    MarkPtpFulfilled(latest, now)} :
        desk' = [desk EXCEPT ![a] = row]
  BY <1>1, <1>2
<1>4. latest \in Rows
  BY DEF IInv, Types, TypeOK
<1> HIDE DEF latest
<1>5. Answers(row, latest)
  BY <1>3, <1>4, ActionsAnswer
<1>6. /\ row \in Rows /\ row.event = latest.event /\ row.actor = "human" /\ AdminRow(row)
      /\ latest.state = "suppressed" => LetAlone(row)
      /\ Fulfils(row) => latest.state = "waiting_on_ptp"
  BY <1>5 DEF Answers
<1>7. /\ UNCHANGED <<log, claimed, hydrated, run, deliveries>> /\ requests' = requests + 1
  BY DEF Ask, Requested
<1>8. /\ desk' \in [Admins -> Rows \cup {Nothing}] /\ desk'[a] = row
      /\ \A b \in Admins : b # a => desk'[b] = desk[b]
  BY <1>3, <1>6 DEF IInv, Types, TypeOK
<1>9. Types'
  <2>1. requests' \in Nat
    <3>1. \A i \in Nat : i + 1 \in Nat
      OBVIOUS
    <3> QED
      BY <3>1, <1>7 DEF IInv, Types, TypeOK
  <2>2. ASSUME NEW b \in Admins, desk'[b] # Nothing
        PROVE  /\ desk'[b].actor = "human"
               /\ \E i \in DOMAIN log : log[i].event = desk'[b].event
    <3>1. CASE b = a
      BY <3>1, <1>6, <1>8 DEF latest
    <3>2. CASE b # a
      BY <3>2, <2>2, <1>8 DEF IInv, Types, TypeOK
    <3> QED
      BY <3>1, <3>2
  <2> QED
    BY <2>1, <2>2, <1>7, <1>8 DEF IInv, Types, TypeOK
<1>10. ASSUME NEW id, AllLetAlone(log, desk, id)
       PROVE  AllLetAlone(log, desk', id)
  <2>1. row.event = id => LetAlone(row)
    BY <1>6, <1>10 DEF AllLetAlone, LetAlone, latest
  <2> QED
    BY <2>1, <1>8, <1>10 DEF AllLetAlone
<1>11. WorkersFit'
  <2>1. ASSUME NEW g \in Goroutines
        PROVE  WorkerFits(run[g], log, desk')
    <3>1. WorkerFits(run[g], log, desk)
      BY DEF IInv, WorkersFit
    <3>2. AllLetAlone(log, desk, run[g].cur.id) => AllLetAlone(log, desk', run[g].cur.id)
      BY <1>10
    <3> QED
      BY <3>1, <3>2 DEF WorkerFits
  <2> QED
    BY <2>1, <1>7 DEF WorkersFit
<1>12. ClaimsFit' /\ HoldsFit' /\ RowsFit' /\ LatestExists'
  BY <1>7 DEF IInv, ClaimsFit, HoldsFit, RowsFit, LatestExists, Before
<1>13. SuppressedFit'
  <2>1. \A j \in DOMAIN log : log[j].rule \in Suppressing =>
          /\ log[j].event \in EventIds /\ AllLetAlone(log, desk', log[j].event)
          /\ \A g \in Goroutines :
               Works(run[g]) /\ run[g].cur.id = log[j].event => Done(run[g])
    BY <1>10 DEF IInv, SuppressedFit
  <2> QED
    BY <2>1, <1>7 DEF SuppressedFit
<1>14. DesksFit'
  <2>1. ASSUME Fulfils(row)
        PROVE  \E j \in DOMAIN log : log[j].event = row.event /\ OnHold(log[j])
    <3>1. log[m].state = "waiting_on_ptp" /\ row.event = log[m].event
      BY <2>1, <1>6 DEF latest
    <3>2. CASE log[m].actor = "human"
      <4>1. \E j \in DOMAIN log : Before(j, m) /\ OnHold(log[j])
        BY <3>1, <3>2 DEF IInv, RowsFit, Fulfils
      <4> QED
        BY <3>1, <4>1 DEF Before
    <3>3. CASE log[m].actor # "human"
      <4>1. OnHold(log[m])
        BY <3>1, <3>3 DEF IInv, RowsFit
      <4> QED
        BY <3>1, <4>1
    <3> QED
      BY <3>2, <3>3
  <2>2. ASSUME NEW b \in Admins, desk'[b] # Nothing
        PROVE  /\ AdminRow(desk'[b])
               /\ Fulfils(desk'[b]) =>
                    \E j \in DOMAIN log : log[j].event = desk'[b].event /\ OnHold(log[j])
    <3>1. CASE b = a
      BY <3>1, <2>1, <1>6, <1>8
    <3>2. CASE b # a
      BY <3>2, <2>2, <1>8 DEF IInv, DesksFit
    <3> QED
      BY <3>1, <3>2
  <2> QED
    BY <2>2, <1>7 DEF DesksFit
<1> QED
  BY <1>9, <1>11, <1>12, <1>13, <1>14 DEF IInv

(* A row that no goroutine writes. *)
LEMMA OutsideRowKeepsIInv ==
  ASSUME IInv, NEW row \in Rows, log' = Append(log, row), Shrinks,
         desk' \in [Admins -> Rows \cup {Nothing}], requests' \in Nat,
         UNCHANGED <<claimed, hydrated, run, deliveries>>,
         row.event \in EventIds => \E k \in DOMAIN log : log[k].event = row.event,
         row.rule \notin Suppressing, ~OnHold(row),
         \A id \in EventIds : AllLetAlone(log, desk, id) /\ row.event = id => LetAlone(row),
         row.actor # "human" => row.event \notin EventIds,
         IF row.actor = "human"
           THEN /\ AdminRow(row)
                /\ Fulfils(row) =>
                     \E j \in DOMAIN log : log[j].event = row.event /\ OnHold(log[j])
           ELSE row.state = "waiting_on_ptp" => OnHold(row)
  PROVE  IInv'
<1> DEFINE n == Len(log) + 1
<1>1. Grown(row, n)
  BY Grows DEF IInv, Types, TypeOK
<1> HIDE DEF n
<1>2. Types'
  <2>1. deliveries' \in Nat /\ claimed' \subseteq EventIds \cup Payments
    BY DEF IInv, Types, TypeOK
  <2>2. run' \in [Goroutines -> Batch!RunStates]
    BY DEF IInv, Types, TypeOK
  <2>3. \A h \in Goroutines : Held(run'[h]) => run'[h].cur \in Events
    BY DEF IInv, Types
  <2> QED
    BY <1>1, <2>1, <2>2, <2>3, TypesGrow DEF IInv
<1>3. WorkersFit'
  <2>1. ASSUME NEW h \in Goroutines
        PROVE  WorkerFits(run[h], log', desk')
    <3>1. WorkerFits(run[h], log, desk)
      BY DEF IInv, WorkersFit
    <3>2. Works(run[h]) => run[h].cur.id \in EventIds
      BY EventsAssumption DEF IInv, Types, Works
    <3> QED
      BY <3>1, <3>2, <1>1, WorkerGrows
  <2> QED
    BY <2>1 DEF WorkersFit
<1>4. ClaimsFit'
  <2>1. hydrated =>
          \A k \in DOMAIN log' : log'[k].event \in EventIds => log'[k].event \in claimed
    BY <1>1 DEF IInv, ClaimsFit, Grown
  <2> QED
    BY <2>1 DEF IInv, ClaimsFit
<1>5. SuppressedFit'
  <2>1. Carries
    BY DEF Carries
  <2>2. ASSUME NEW id, AllLetAlone(log, desk, id), row.event = id, ~LetAlone(row)
        PROVE  \A j \in DOMAIN log : log[j].event = id => log[j].rule \notin Suppressing
    BY <2>2 DEF IInv, SuppressedFit
  <2> QED
    BY <2>1, <2>2, <1>1, SuppressedGrows DEF IInv
<1>6. HoldsFit'
  <2>1. row.actor # "human" =>
          \A j \in DOMAIN log : OnHold(log[j]) => log[j].event # row.event
    BY DEF IInv, HoldsFit
  <2> QED
    BY <2>1, <1>1, HoldsGrow DEF IInv
<1>7. RowsFit'
  BY <1>1, RowsGrow DEF IInv
<1>8. DesksFit' /\ LatestExists'
  BY <1>1, DesksGrow, LatestGrows DEF IInv
<1> QED
  BY <1>2, <1>3, <1>4, <1>5, <1>6, <1>7, <1>8 DEF IInv

LEMMA RecordKeepsIInv ==
  ASSUME IInv, NEW a \in Admins, Record(a)
  PROVE  IInv'
<1> DEFINE row == desk[a]
<1>1. /\ row # Nothing /\ log' = Append(log, row) /\ desk' = [desk EXCEPT ![a] = Nothing]
      /\ UNCHANGED <<claimed, hydrated, run, deliveries, requests>>
  BY DEF Record
<1>2. /\ row \in Rows /\ row.actor = "human"
      /\ \E k \in DOMAIN log : log[k].event = row.event
  BY <1>1 DEF IInv, Types, TypeOK
<1>3. /\ AdminRow(row)
      /\ Fulfils(row) => \E j \in DOMAIN log : log[j].event = row.event /\ OnHold(log[j])
  BY <1>1 DEF IInv, DesksFit
<1>4. \A id : AllLetAlone(log, desk, id) /\ row.event = id => LetAlone(row)
  BY <1>1 DEF AllLetAlone
<1>5. Shrinks /\ desk' \in [Admins -> Rows \cup {Nothing}] /\ requests' \in Nat
  BY <1>1 DEF Shrinks, IInv, Types, TypeOK
<1> HIDE DEF row
<1>6. row.rule \notin Suppressing /\ ~OnHold(row)
  BY <1>3 DEF AdminRow, OnHold, Suppressing
<1> QED
  BY <1>1, <1>2, <1>3, <1>4, <1>5, <1>6, OutsideRowKeepsIInv

LEMMA PaymentEventKeepsIInv ==
  ASSUME IInv, NEW p \in Payments, NEW state \in {"recovered", "escalated", "detected"},
         PaymentEvent(p, state)
  PROVE  IInv'
<1> DEFINE row == [event |-> p, at |-> 0, flow |-> "payment_event",
                   reason |-> "payment_event", rule |-> "no_op", decision |-> "none",
                   state |-> state, actor |-> "payment_gateway", attempt |-> Batch!NoAttempt]
<1>1. /\ log' = Append(log, row)
      /\ UNCHANGED <<claimed, hydrated, run, deliveries, desk>> /\ requests' = requests + 1
  BY DEF PaymentEvent, Requested
<1>2. /\ row.event = p /\ row.rule = "no_op" /\ row.decision = "none"
      /\ row.actor = "payment_gateway" /\ row.state = state
  OBVIOUS
<1>3. row \in Rows
  BY DEF Rows, Rules, Decisions, States
<1> HIDE DEF row
<1>4. row.event \notin EventIds
  BY <1>2, RequestsAssumption
<1>5. /\ row.rule \notin Suppressing /\ ~OnHold(row) /\ row.actor # "human"
      /\ row.state # "waiting_on_ptp"
  BY <1>2 DEF OnHold, Suppressing
<1>6. requests' \in Nat
  <2>1. \A i \in Nat : i + 1 \in Nat
    OBVIOUS
  <2> QED
    BY <2>1, <1>1 DEF IInv, Types, TypeOK
<1>7. Shrinks /\ desk' \in [Admins -> Rows \cup {Nothing}]
  BY <1>1 DEF Shrinks, IInv, Types, TypeOK
<1> QED
  BY <1>1, <1>3, <1>4, <1>5, <1>6, <1>7, OutsideRowKeepsIInv

LEMMA RecordFailsKeepsIInv ==
  ASSUME IInv, NEW a \in Admins, RecordFails(a)
  PROVE  IInv'
<1>1. /\ desk' = [desk EXCEPT ![a] = Nothing]
      /\ UNCHANGED <<log, claimed, hydrated, run, deliveries, requests>>
  BY DEF RecordFails
<1>2. /\ desk' \in [Admins -> Rows \cup {Nothing}]
      /\ \A b \in Admins : desk'[b] = desk[b] \/ desk'[b] = Nothing
  BY <1>1 DEF IInv, Types, TypeOK
<1>3. Types'
  <2>1. \A b \in Admins : desk'[b] # Nothing =>
          /\ desk'[b].actor = "human"
          /\ \E k \in DOMAIN log : log[k].event = desk'[b].event
    BY <1>2 DEF IInv, Types, TypeOK
  <2> QED
    BY <2>1, <1>1, <1>2 DEF IInv, Types, TypeOK
<1>4. ASSUME NEW id, AllLetAlone(log, desk, id)
      PROVE  AllLetAlone(log, desk', id)
  BY <1>2, <1>4 DEF AllLetAlone
<1>5. WorkersFit'
  <2>1. ASSUME NEW g \in Goroutines
        PROVE  WorkerFits(run[g], log, desk')
    <3>1. WorkerFits(run[g], log, desk)
      BY DEF IInv, WorkersFit
    <3>2. AllLetAlone(log, desk, run[g].cur.id) => AllLetAlone(log, desk', run[g].cur.id)
      BY <1>4
    <3> QED
      BY <3>1, <3>2 DEF WorkerFits
  <2> QED
    BY <2>1, <1>1 DEF WorkersFit
<1>6. ClaimsFit' /\ HoldsFit' /\ RowsFit' /\ LatestExists'
  BY <1>1 DEF IInv, ClaimsFit, HoldsFit, RowsFit, LatestExists, Before
<1>7. SuppressedFit'
  <2>1. \A j \in DOMAIN log : log[j].rule \in Suppressing =>
          /\ log[j].event \in EventIds /\ AllLetAlone(log, desk', log[j].event)
          /\ \A g \in Goroutines :
               Works(run[g]) /\ run[g].cur.id = log[j].event => Done(run[g])
    BY <1>4 DEF IInv, SuppressedFit
  <2> QED
    BY <2>1, <1>1 DEF SuppressedFit
<1>8. DesksFit'
  <2>1. \A b \in Admins : desk'[b] # Nothing =>
          /\ AdminRow(desk'[b])
          /\ Fulfils(desk'[b]) =>
               \E j \in DOMAIN log : log[j].event = desk'[b].event /\ OnHold(log[j])
    BY <1>2 DEF IInv, DesksFit
  <2> QED
    BY <2>1, <1>1 DEF DesksFit
<1> QED
  BY <1>3, <1>5, <1>6, <1>7, <1>8 DEF IInv

-----------------------------------------------------------------------------
(* The invariant holds in every reachable state. *)

LEMMA InitIInv == Init => IInv
<1> SUFFICES ASSUME Init
             PROVE  IInv
  OBVIOUS
<1>1. /\ log = <<>> /\ claimed = {} /\ deliveries = 0 /\ requests = 0
      /\ run = [g \in Goroutines |-> Batch!IdleRun] /\ desk = [a \in Admins |-> Nothing]
      /\ hydrated = FALSE
  BY DEF Init, Batch!Init
<1>2. \A g \in Goroutines : ~Held(run[g]) /\ ~Works(run[g])
  BY <1>1, IdleRunType DEF Works
<1>3. DOMAIN log = {}
  BY <1>1
<1>4. Types
  <2>1. run \in [Goroutines -> Batch!RunStates]
    BY <1>1, IdleRunType
  <2>2. desk \in [Admins -> Rows \cup {Nothing}] /\ \A a \in Admins : desk[a] = Nothing
    BY <1>1
  <2>3. log \in Seq(Rows)
    BY <1>1
  <2> QED
    BY <1>1, <1>2, <2>1, <2>2, <2>3 DEF Types, TypeOK
<1>5. WorkersFit /\ ClaimsFit
  BY <1>1, <1>2 DEF WorkersFit, WorkerFits, ClaimsFit
<1>6. SuppressedFit /\ HoldsFit /\ RowsFit /\ LatestExists
  BY <1>3 DEF SuppressedFit, HoldsFit, RowsFit, LatestExists
<1>7. DesksFit
  BY <1>1 DEF DesksFit
<1> QED
  BY <1>4, <1>5, <1>6, <1>7 DEF IInv

LEMMA BatchesKeepIInv ==
  ASSUME IInv, Batches_Next
  PROVE  IInv'
<1>1. PICK g \in Goroutines : Batch!Deliver(g) \/ Batch!Advance(g) \/ Batch!StoreFails(g)
  BY DEF Batches_Next
<1>2. UNCHANGED desks /\ Types /\ WorkersFit
  BY DEF Batches_Next, IInv
<1>3. CASE Batch!Deliver(g)
  BY <1>2, <1>3, DeliverKeepsIInv
<1>4. CASE Batch!StoreFails(g)
  BY <1>2, <1>4, EndsKeepIInv
<1>5. CASE Batch!Advance(g)
  <2>1. CASE Batch!ClaimRefused(g) \/ Batch!ClaimOverLimit(g) \/ Batch!ClaimGranted(g)
    BY <1>2, <2>1, ClaimsKeepIInv
  <2>2. CASE Batch!SuppressDuplicate(g)
    BY <1>2, <2>2, DuplicateKeepsIInv
  <2>3. CASE Batch!Decide(g)
    BY <1>2, <2>3, DecideWrites, ProperKeepsIInv
  <2>4. CASE Batch!LeaveLoop(g)
    BY <1>2, <2>4, LeaveLoopKeepsIInv
  <2>5. CASE Batch!Execute(g)
    BY <1>2, <2>5, ExecuteKeepsIInv
  <2>6. CASE Batch!RecordAction(g)
    BY <1>2, <2>6, RecordActionWrites, ProperKeepsIInv
  <2>7. CASE Batch!RecordRecovery(g)
    BY <1>2, <2>7, RecordRecoveryWrites, ProperKeepsIInv
  <2>8. CASE Batch!RecordFollowUp(g)
    BY <1>2, <2>8, RecordFollowUpWrites, ProperKeepsIInv
  <2>9. CASE Batch!Return(g)
    BY <1>2, <2>9, EndsKeepIInv
  <2> QED
    BY <1>5, <2>1, <2>2, <2>3, <2>4, <2>5, <2>6, <2>7, <2>8, <2>9 DEF Batch!Advance
<1> QED
  BY <1>1, <1>3, <1>4, <1>5

LEMMA NextKeepsIInv ==
  ASSUME IInv, [Next]_vars
  PROVE  IInv'
<1>1. CASE Batches_Next
  BY <1>1, BatchesKeepIInv
<1>2. CASE Crash
  BY <1>2, CrashKeepsIInv
<1>3. ASSUME NEW a \in Admins, Ask(a) \/ Record(a) \/ RecordFails(a)
      PROVE  IInv'
  BY <1>3, AskKeepsIInv, RecordKeepsIInv, RecordFailsKeepsIInv
<1>4. ASSUME NEW p \in Payments, NEW state \in {"recovered", "escalated", "detected"},
             PaymentEvent(p, state)
      PROVE  IInv'
  BY <1>4, PaymentEventKeepsIInv
<1>5. CASE UNCHANGED vars
  <2>1. UNCHANGED <<log, claimed, hydrated, run, deliveries, desk, requests>>
    BY <1>5 DEF vars, desks
  <2>2. Types' /\ ClaimsFit' /\ HoldsFit' /\ RowsFit' /\ DesksFit' /\ LatestExists'
    BY <2>1 DEF IInv, Types, TypeOK, ClaimsFit, HoldsFit, RowsFit, DesksFit, LatestExists,
                Before
  <2>3. WorkersFit' /\ SuppressedFit'
    BY <2>1 DEF IInv, WorkersFit, SuppressedFit
  <2> QED
    BY <2>2, <2>3 DEF IInv
<1> QED
  BY <1>1, <1>2, <1>3, <1>4, <1>5 DEF Next

LEMMA InvariantHolds == Spec => []IInv
<1>1. Init => IInv
  BY InitIInv
<1>2. IInv /\ [Next]_vars => IInv'
  BY NextKeepsIInv
<1> QED
  BY <1>1, <1>2, PTL DEF Spec

-----------------------------------------------------------------------------
(* What it says of admins. *)

(* Every row, of the engine, of an admin or of a payment, has its type, and a *)
(* request is about an event that has a row.                                  *)
THEOREM TypeCorrect == Spec => []TypeOK
<1>1. IInv => TypeOK
  BY DEF IInv, Types
<1> QED
  BY <1>1, InvariantHolds, PTL

(* Whatever RunBatch, other admins and crashes do between the reading of the   *)
(* log and the append, an admin acts on no event the engine suppressed, and    *)
(* calls by day.                                                               *)
THEOREM HeedsEngine == Spec => []AdminsHeedEngine
<1>1. ASSUME IInv
      PROVE  AdminsHeedEngine
  <2> SUFFICES ASSUME NEW k \in DOMAIN log, Allowed(k)
               PROVE  /\ \A j \in DOMAIN log : Before(j, k) =>
                           log[j].rule \notin {"fraud_suppress", "promise_to_pay_suppress",
                                               "ptp_suppress"}
                      /\ log[k].decision = "contact" => ~QuietHours(log[k].at)
    BY DEF AdminsHeedEngine
  <2>1. log[k].actor = "human" /\ log[k].decision # "none"
    BY DEF Allowed, ByAdmin
  <2>2. ASSUME NEW j \in DOMAIN log, Before(j, k), log[j].rule \in Suppressing
        PROVE  FALSE
    <3>1. AllLetAlone(log, desk, log[j].event) /\ log[k].event = log[j].event
      BY <1>1, <2>2 DEF IInv, SuppressedFit, Before
    <3> QED
      BY <2>1, <3>1 DEF AllLetAlone, LetAlone
  <2>3. log[k].decision = "contact" => ~QuietHours(log[k].at)
    BY <1>1, <2>1 DEF IInv, RowsFit, AdminRow
  <2> QED
    BY <2>2, <2>3 DEF Suppressing
<1>2. IInv => AdminsHeedEngine
  BY <1>1
<1> QED
  BY <1>2, InvariantHolds, PTL

(* What an admin marks as fulfilled was put on hold by the engine, and after   *)
(* that hold RunBatch only logs its second row and duplicates: nobody who has  *)
(* paid is charged.                                                            *)
THEOREM FulfilledAfterHold == Spec => []FulfilledWasOnHold
<1>1. ASSUME IInv
      PROVE  FulfilledWasOnHold
  <2> SUFFICES ASSUME NEW k \in DOMAIN log, ByAdmin(k) /\ log[k].decision = "recover"
               PROVE  \E j \in DOMAIN log :
                        /\ Before(j, k)
                        /\ log[j].decision = "hold" /\ log[j].state = "waiting_on_ptp"
                        /\ \A i \in DOMAIN log : Before(j, i) /\ ~ByAdmin(i) =>
                             log[i].rule = log[j].rule \/ Batch!IsDuplicate(log[i])
    BY DEF FulfilledWasOnHold
  <2>1. PICK j \in DOMAIN log : Before(j, k) /\ OnHold(log[j])
    BY <1>1 DEF IInv, RowsFit, Fulfils, ByAdmin
  <2>2. \A i \in DOMAIN log : Before(j, i) /\ ~ByAdmin(i) =>
          log[i].rule = log[j].rule \/ Batch!IsDuplicate(log[i])
    BY <1>1, <2>1 DEF IInv, HoldsFit, Before, ByAdmin
  <2> QED
    BY <2>1, <2>2 DEF OnHold
<1>2. IInv => FulfilledWasOnHold
  BY <1>1
<1> QED
  BY <1>2, InvariantHolds, PTL
=============================================================================
