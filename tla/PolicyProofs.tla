---------------------------- MODULE PolicyProofs ----------------------------
(***************************************************************************)
(* Theorems about what Runner carries out: only what the policy allows at  *)
(* the moment of the action, within the caps of attempts and touches, and  *)
(* never silently less than the batch asked for.                           *)
(***************************************************************************)
EXTENDS LedgerProofs

-----------------------------------------------------------------------------
(* The actions, field by field. *)

Others(g) == \A h \in Goroutines : h # g => run'[h] = run[h]
SameRun(g) ==
  run'[g].id = run[g].id /\ run'[g].now = run[g].now /\ run'[g].batch = run[g].batch
SameEvent(g) ==
  /\ SameRun(g) /\ run'[g].cur = run[g].cur
  /\ run'[g].todo = run[g].todo /\ run'[g].limitHit = run[g].limitHit
SameTouches(g) == run'[g].touches = run[g].touches
NothingDone == UNCHANGED <<effects, deliveries>>

LEMMA Turn ==
  ASSUME IInv, NEW g \in Goroutines, NEW r, Becomes(g, r)
  PROVE  Others(g) /\ run'[g] = r /\ run[g] \in RunStates
BY DEF IInv, TypeOK, Becomes, Others

(* The step the policy answers with to the goroutine that asks. *)
Answer(g) ==
  StepState(run[g].cur.flow,
            FlowContext(run[g].cur, run[g].attempt, run[g].touches[run[g].cur.customer],
                        run[g].now),
            Tunables)

LEMMA DecideTurn ==
  ASSUME IInv, NEW g \in Goroutines, Decide(g)
  PROVE  /\ run[g].pc = "loop" /\ run[g].state \notin RunningTerminal
         /\ AppendRow(DecisionRow(run[g], Answer(g)))
         /\ run'[g].pc = AfterDecision(Answer(g).decision)
         /\ run'[g].state = Answer(g).state /\ run'[g].step = Answer(g)
         /\ run'[g].steps = run[g].steps + 1 /\ run'[g].attempt = run[g].attempt
         /\ SameEvent(g) /\ SameTouches(g) /\ Others(g) /\ NothingDone
<1> DEFINE step == Answer(g)
           r == [run[g] EXCEPT !.pc = AfterDecision(step.decision), !.state = step.state,
                               !.steps = @ + 1, !.used = @ + 1, !.step = step]
<1>1. /\ run[g].pc = "loop" /\ run[g].state \notin RunningTerminal
      /\ AppendRow(DecisionRow(run[g], step)) /\ Becomes(g, r) /\ NothingDone
  BY DEF Decide, MayDecide, Answer, NothingDone, bounds
<1> HIDE DEF step
<1>2. Others(g) /\ run'[g] = r /\ run[g] \in RunStates
  BY <1>1, Turn
<1>3. /\ r.pc = AfterDecision(step.decision) /\ r.state = step.state /\ r.step = step
      /\ r.steps = run[g].steps + 1 /\ r.attempt = run[g].attempt
      /\ r.id = run[g].id /\ r.now = run[g].now /\ r.batch = run[g].batch
      /\ r.cur = run[g].cur /\ r.todo = run[g].todo /\ r.limitHit = run[g].limitHit
      /\ r.touches = run[g].touches
  BY <1>2 DEF RunStates
<1> HIDE DEF r
<1> QED
  BY <1>1, <1>2, <1>3 DEF SameEvent, SameRun, SameTouches, step

LEMMA ExecuteTurn ==
  ASSUME IInv, NEW g \in Goroutines, Execute(g)
  PROVE  /\ run[g].pc = "execute" /\ run'[g].pc = "record"
         /\ run'[g].state = run[g].state /\ run'[g].steps = run[g].steps
         /\ run'[g].attempt = run[g].attempt
         /\ run'[g].touches = [run[g].touches EXCEPT ![run[g].cur.customer] = @ + 1]
         /\ effects' = Append(effects, [ev |-> run[g].cur, attempt |-> run[g].attempt,
                                        run |-> run[g].id, now |-> run[g].now])
         /\ SameEvent(g) /\ Others(g) /\ UNCHANGED <<log, deliveries>>
<1>1. PICK won \in ExecuteAction(run[g].cur) :
        Becomes(g, [run[g] EXCEPT !.pc = "record", !.recovered = won,
                                  !.touches[run[g].cur.customer] = @ + 1])
  BY DEF Execute
<1> DEFINE r == [run[g] EXCEPT !.pc = "record", !.recovered = won,
                               !.touches[run[g].cur.customer] = @ + 1]
<1>2. Others(g) /\ run'[g] = r /\ run[g] \in RunStates
  <2>1. Becomes(g, r)
    BY <1>1
  <2> HIDE DEF r
  <2> QED
    BY <2>1, Turn
<1>3. /\ r.pc = "record" /\ r.state = run[g].state /\ r.steps = run[g].steps
      /\ r.attempt = run[g].attempt
      /\ r.touches = [run[g].touches EXCEPT ![run[g].cur.customer] = @ + 1]
      /\ r.id = run[g].id /\ r.now = run[g].now /\ r.batch = run[g].batch
      /\ r.cur = run[g].cur /\ r.todo = run[g].todo /\ r.limitHit = run[g].limitHit
  BY <1>2 DEF RunStates
<1> HIDE DEF r
<1>4. /\ run[g].pc = "execute" /\ UNCHANGED <<log, deliveries>>
      /\ effects' = Append(effects, [ev |-> run[g].cur, attempt |-> run[g].attempt,
                                     run |-> run[g].id, now |-> run[g].now])
  BY DEF Execute, bounds
<1> QED
  BY <1>2, <1>3, <1>4 DEF SameEvent, SameRun

LEMMA RecordActionTurn ==
  ASSUME IInv, NEW g \in Goroutines, RecordAction(g)
  PROVE  /\ run[g].pc = "record"
         /\ run'[g].pc = IF run[g].recovered THEN "recovery" ELSE "loop"
         /\ run'[g].state = run[g].state /\ run'[g].steps = run[g].steps
         /\ AppendRow(ActionRow(run[g], run[g].attempt, run[g].recovered))
         /\ SameEvent(g) /\ SameTouches(g) /\ Others(g) /\ NothingDone
<1> DEFINE r == [run[g] EXCEPT !.pc = IF run[g].recovered THEN "recovery" ELSE "loop",
                               !.attempt = @ + 1]
<1>1. /\ run[g].pc = "record" /\ Becomes(g, r) /\ NothingDone
      /\ AppendRow(ActionRow(run[g], run[g].attempt, run[g].recovered))
  BY DEF RecordAction, NothingDone, bounds
<1>2. Others(g) /\ run'[g] = r /\ run[g] \in RunStates
  <2> HIDE DEF r
  <2> QED
    BY <1>1, Turn
<1>3. /\ r.pc = (IF run[g].recovered THEN "recovery" ELSE "loop")
      /\ r.state = run[g].state /\ r.steps = run[g].steps
      /\ r.id = run[g].id /\ r.now = run[g].now /\ r.batch = run[g].batch
      /\ r.cur = run[g].cur /\ r.todo = run[g].todo /\ r.limitHit = run[g].limitHit
      /\ r.touches = run[g].touches
  BY <1>2 DEF RunStates
<1> HIDE DEF r
<1> QED
  BY <1>1, <1>2, <1>3 DEF SameEvent, SameRun, SameTouches

(* Both settle the event in the log and in the loop. *)
LEMMA SettlingTurn ==
  ASSUME IInv, CasesFit, NEW g \in Goroutines, RecordRecovery(g) \/ RecordFollowUp(g)
  PROVE  /\ run[g].pc \in {"recovery", "followup"}
         /\ run'[g].pc = "loop" /\ run'[g].state \in RunningTerminal
         /\ \E row : /\ AppendRow(row) /\ row.state \in RunningTerminal
                     /\ row.state # "contacting"
         /\ SameEvent(g) /\ SameTouches(g) /\ Others(g) /\ NothingDone
<1>1. \E row, state :
        /\ Becomes(g, [run[g] EXCEPT !.pc = "loop", !.state = state])
        /\ AppendRow(row) /\ row.state \in RunningTerminal /\ state \in RunningTerminal
  <2>1. CASE RecordRecovery(g)
    <3> DEFINE row == ActionRow(run[g], run[g].attempt - 1, TRUE)
    <3>1. row.state = "recovered"
      BY DEF ActionRow, Row
    <3>2. AppendRow(row) /\ Becomes(g, [run[g] EXCEPT !.pc = "loop", !.state = "recovered"])
      BY <2>1 DEF RecordRecovery
    <3> HIDE DEF row
    <3> QED
      BY <3>1, <3>2 DEF RunningTerminal
  <2>2. CASE RecordFollowUp(g)
    <3> DEFINE row == FollowUpRow(run[g])
    <3>1. row.state \in RunningTerminal
      BY FollowUpSettles DEF CasesFit, CaseFits
    <3>2. AppendRow(row) /\ Becomes(g, [run[g] EXCEPT !.pc = "loop", !.state = row.state])
      BY <2>2 DEF RecordFollowUp
    <3> HIDE DEF row
    <3> QED
      BY <3>1, <3>2
  <2> QED
    BY <2>1, <2>2
<1>2. PICK row, state :
        /\ Becomes(g, [run[g] EXCEPT !.pc = "loop", !.state = state])
        /\ AppendRow(row) /\ row.state \in RunningTerminal /\ state \in RunningTerminal
  BY <1>1
<1> DEFINE r == [run[g] EXCEPT !.pc = "loop", !.state = state]
<1>3. Others(g) /\ run'[g] = r /\ run[g] \in RunStates
  <2>1. Becomes(g, r)
    BY <1>2
  <2> HIDE DEF r
  <2> QED
    BY <2>1, Turn
<1>4. /\ r.pc = "loop" /\ r.state = state
      /\ r.id = run[g].id /\ r.now = run[g].now /\ r.batch = run[g].batch
      /\ r.cur = run[g].cur /\ r.todo = run[g].todo /\ r.limitHit = run[g].limitHit
      /\ r.touches = run[g].touches
  BY <1>3 DEF RunStates
<1> HIDE DEF r
<1>5. run[g].pc \in {"recovery", "followup"} /\ NothingDone
  BY DEF RecordRecovery, RecordFollowUp, NothingDone, bounds
<1>6. row.state # "contacting"
  BY <1>2 DEF RunningTerminal
<1> QED
  BY <1>2, <1>3, <1>4, <1>5, <1>6 DEF SameEvent, SameRun, SameTouches

LEMMA ClaimTurn ==
  ASSUME IInv, NEW g \in Goroutines,
         ClaimRefused(g) \/ ClaimOverLimit(g) \/ ClaimGranted(g)
  PROVE  /\ run[g].pc = "claim" /\ run[g].todo # <<>>
         /\ \/ /\ run'[g].pc = "duplicate" /\ run'[g].cur = Head(run[g].todo)
               /\ run'[g].todo = Tail(run[g].todo) /\ run'[g].limitHit = run[g].limitHit
            \/ run'[g].pc = "claim" /\ run'[g].limitHit
            \/ /\ run'[g].pc = "loop" /\ run'[g].steps = 0
               /\ run'[g].cur = Head(run[g].todo)
               /\ run'[g].todo = Tail(run[g].todo) /\ run'[g].limitHit = run[g].limitHit
         /\ SameRun(g) /\ SameTouches(g) /\ Others(g) /\ NothingDone /\ log' = log
<1> DEFINE e == Head(run[g].todo)
<1>1. run[g].pc = "claim" /\ run[g].todo # <<>> /\ NothingDone /\ log' = log
  BY DEF ClaimRefused, ClaimOverLimit, ClaimGranted, ClaimNext, NothingDone, bounds
<1>2. CASE ClaimRefused(g)
  <2> DEFINE r == [run[g] EXCEPT !.pc = "duplicate", !.cur = e, !.todo = Tail(@)]
  <2>1. Becomes(g, r)
    BY <1>2 DEF ClaimRefused
  <2>2. Others(g) /\ run'[g] = r /\ run[g] \in RunStates
    <3> HIDE DEF r
    <3> QED
      BY <2>1, Turn
  <2>3. /\ r.pc = "duplicate" /\ r.cur = e /\ r.todo = Tail(run[g].todo)
        /\ r.limitHit = run[g].limitHit /\ r.touches = run[g].touches
        /\ r.id = run[g].id /\ r.now = run[g].now /\ r.batch = run[g].batch
    BY <2>2 DEF RunStates
  <2> HIDE DEF r
  <2> QED
    BY <1>1, <2>2, <2>3 DEF SameRun, SameTouches
<1>3. CASE ClaimOverLimit(g)
  <2> DEFINE r == [run[g] EXCEPT !.todo = <<>>, !.limitHit = TRUE]
  <2>1. Becomes(g, r)
    BY <1>3 DEF ClaimOverLimit
  <2>2. Others(g) /\ run'[g] = r /\ run[g] \in RunStates
    <3> HIDE DEF r
    <3> QED
      BY <2>1, Turn
  <2>3. /\ r.pc = "claim" /\ r.limitHit /\ r.touches = run[g].touches
        /\ r.id = run[g].id /\ r.now = run[g].now /\ r.batch = run[g].batch
    BY <1>1, <2>2 DEF RunStates
  <2> HIDE DEF r
  <2> QED
    BY <1>1, <2>2, <2>3 DEF SameRun, SameTouches
<1>4. CASE ClaimGranted(g)
  <2> DEFINE r == [run[g] EXCEPT !.pc = "loop", !.cur = e, !.todo = Tail(@),
                                 !.attempt = 0, !.state = "detected", !.steps = 0]
  <2>1. Becomes(g, r)
    BY <1>4 DEF ClaimGranted
  <2>2. Others(g) /\ run'[g] = r /\ run[g] \in RunStates
    <3> HIDE DEF r
    <3> QED
      BY <2>1, Turn
  <2>3. /\ r.pc = "loop" /\ r.cur = e /\ r.todo = Tail(run[g].todo) /\ r.steps = 0
        /\ r.limitHit = run[g].limitHit /\ r.touches = run[g].touches
        /\ r.id = run[g].id /\ r.now = run[g].now /\ r.batch = run[g].batch
    BY <2>2 DEF RunStates
  <2> HIDE DEF r
  <2> QED
    BY <1>1, <2>2, <2>3 DEF SameRun, SameTouches
<1> QED
  BY <1>2, <1>3, <1>4

(* A step that lets go of an event without having settled it marks the run. *)
LEMMA LeaveLoopTurn ==
  ASSUME IInv, NEW g \in Goroutines, LeaveLoop(g)
  PROVE  /\ run[g].pc = "loop" /\ run'[g].pc = "claim" /\ run'[g].todo = run[g].todo
         /\ run'[g].limitHit <=>
              run[g].limitHit \/ (run[g].state \notin RunningTerminal /\ run[g].steps < GuardLimit)
         /\ SameRun(g) /\ SameTouches(g) /\ Others(g) /\ NothingDone /\ log' = log
<1> DEFINE hit == run[g].limitHit \/ (/\ run[g].state \notin RunningTerminal
                                      /\ run[g].steps < GuardLimit)
           r == [run[g] EXCEPT !.pc = "claim", !.cur = NoEvent, !.limitHit = hit]
<1>1. run[g].pc = "loop" /\ NothingDone /\ log' = log
  BY DEF LeaveLoop, NothingDone, bounds
<1>2. run[g] \in RunStates
  BY DEF IInv, TypeOK
<1>3. Becomes(g, r)
  BY <1>2 DEF LeaveLoop, Becomes, RunStates
<1> HIDE DEF hit
<1>4. Others(g) /\ run'[g] = r
  <2> HIDE DEF r
  <2> QED
    BY <1>3, Turn
<1>5. /\ r.pc = "claim" /\ r.todo = run[g].todo /\ r.limitHit = hit
      /\ r.touches = run[g].touches
      /\ r.id = run[g].id /\ r.now = run[g].now /\ r.batch = run[g].batch
  BY <1>2 DEF RunStates
<1> HIDE DEF r
<1> QED
  BY <1>1, <1>4, <1>5 DEF SameRun, SameTouches, hit

LEMMA SuppressDuplicateTurn ==
  ASSUME IInv, NEW g \in Goroutines, SuppressDuplicate(g)
  PROVE  /\ run[g].pc = "duplicate" /\ run'[g].pc = "claim" /\ run'[g].todo = run[g].todo
         /\ run'[g].limitHit = run[g].limitHit
         /\ AppendRow(DuplicateRow(run[g]))
         /\ SameRun(g) /\ SameTouches(g) /\ Others(g) /\ NothingDone
<1> DEFINE r == [run[g] EXCEPT !.pc = "claim", !.cur = NoEvent]
<1>1. /\ run[g].pc = "duplicate" /\ AppendRow(DuplicateRow(run[g])) /\ NothingDone
      /\ Becomes(g, r)
  BY DEF SuppressDuplicate, NothingDone, bounds
<1>2. Others(g) /\ run'[g] = r /\ run[g] \in RunStates
  <2> HIDE DEF r
  <2> QED
    BY <1>1, Turn
<1>3. /\ r.pc = "claim" /\ r.todo = run[g].todo /\ r.limitHit = run[g].limitHit
      /\ r.touches = run[g].touches
      /\ r.id = run[g].id /\ r.now = run[g].now /\ r.batch = run[g].batch
  BY <1>2 DEF RunStates
<1> HIDE DEF r
<1> QED
  BY <1>1, <1>2, <1>3 DEF SameRun, SameTouches

LEMMA DeliverTurn ==
  ASSUME IInv, NEW g \in Goroutines, Deliver(g)
  PROVE  /\ run'[g].pc = "claim" /\ run'[g].id = deliveries + 1
         /\ run'[g].batch = run'[g].todo /\ run'[g].batch \in Seq(Events)
         /\ run'[g].touches = [c \in Customers |-> 0]
         /\ deliveries' = deliveries + 1 /\ deliveries < MaxDeliveries
         /\ Others(g) /\ UNCHANGED <<log, effects>>
<1>1. PICK b \in Batches, now \in Clocks :
        Becomes(g, [IdleRun EXCEPT !.pc = "claim", !.id = deliveries + 1, !.now = now,
                                   !.batch = b, !.todo = b])
  BY DEF Deliver
<1> DEFINE r == [IdleRun EXCEPT !.pc = "claim", !.id = deliveries + 1, !.now = now,
                                !.batch = b, !.todo = b]
<1>2. /\ r.pc = "claim" /\ r.id = deliveries + 1 /\ r.batch = b /\ r.todo = b
      /\ r.touches = [c \in Customers |-> 0]
  BY DEF IdleRun
<1>3. Others(g) /\ run'[g] = r
  <2>1. Becomes(g, r)
    BY <1>1
  <2> HIDE DEF r
  <2> QED
    BY <2>1, Turn
<1> HIDE DEF r
<1> QED
  BY <1>2, <1>3, BatchesAssumption DEF Deliver

LEMMA LastTurn ==
  ASSUME IInv, NEW g \in Goroutines, Return(g) \/ StoreFails(g)
  PROVE  run'[g].pc = "idle" /\ Others(g) /\ NothingDone /\ log' = log
<1>1. Becomes(g, IdleRun) /\ NothingDone /\ log' = log
  BY DEF Return, StoreFails, NothingDone, bounds
<1> QED
  BY <1>1, Turn DEF IdleRun

-----------------------------------------------------------------------------
(* What the policy allows. *)

LockedReasons == {"fraud_flagged", "mandate_revoked"}
PromiseFlows == RetryFlows \cup {"promise_to_pay"}

(* Whoever reads its clock and the event's signal alone may act now. *)
ActAllowed(ev, now) ==
  /\ ev.flow # "payment_degradation" => Classify(ev) \notin LockedReasons
  /\ ev.flow = "hinglish_voice" => ~ev.signal.dnc /\ ~QuietHours(now)
  /\ (ev.flow \in PromiseFlows /\ HasActivePromiseToPay(ev.signal.ptpDate, now))
       => ev.flow = "promise_to_pay" /\ PtpReminderDue(now, ev.signal.ptpDate)

(* ... and has attempts and touches left. *)
TouchAllowed(r) ==
  /\ ActAllowed(r.cur, r.now)
  /\ r.cur.flow \in RetryFlows => r.attempt < Tunables.maxRetry
  /\ r.cur.flow \in CappedFlows => r.touches[r.cur.customer] < Tunables.maxTouches

(* What CountLockedViolations does not count. *)
RowLawful(row) ==
  row.flow # "payment_degradation" =>
    /\ row.reason \in LockedReasons => row.state \in RunningTerminal
    /\ row.flow = "hinglish_voice" /\ row.state = "contacting" => ~QuietHours(row.at)

(* Only the error codes of charges tell of fraud or of a revoked mandate. *)
LEMMA LockedReasonsAreOfCharges ==
  ASSUME NEW ev \in Events, ev.flow # "payment_degradation", Classify(ev) \in LockedReasons
  PROVE  ev.flow \in RetryFlows
<1>1. ev.flow \in Flows
  BY EventsAssumption
<1>2. /\ ClassifyCheckout(ev.signal) \notin LockedReasons
      /\ ClassifyReceivable(ev.signal) \notin LockedReasons
      /\ ClassifyVoice(ev.signal) \notin LockedReasons
      /\ ClassifyPromiseToPay(ev.signal) \notin LockedReasons
  BY DEF ClassifyCheckout, ClassifyReceivable, ClassifyVoice, ClassifyPromiseToPay,
         LockedReasons
<1> QED
  BY <1>1, <1>2 DEF Classify, Flows, RetryFlows

(* The engine that retries a charge lets nothing pass the rules before it. *)
LEMMA RetryRules ==
  ASSUME NEW in, NEW t, BaseRetryDecision(in, t).decision \in Actionable
  PROVE  /\ in.reason \notin LockedReasons
         /\ ~HasActivePromiseToPay(in.ptpDate, in.now)
         /\ ~AtMaxRetryAttempts(in.attempt, t) /\ ~AtTouchCap(in.touches, t)
BY DEF BaseRetryDecision, Fires, Actionable, LockedReasons

LEMMA MandateRules ==
  ASSUME NEW in, NEW t, DecideMandateRetry(in, t).decision \in Actionable
  PROVE  BaseRetryDecision(in, t).decision \in Actionable
BY DEF DecideMandateRetry, Fires, Actionable

LEMMA LockedRulesStop ==
  ASSUME NEW in, NEW t, in.reason \in LockedReasons
  PROVE  /\ BaseRetryDecision(in, t).decision \in {"suppress", "escalate"}
         /\ DecideMandateRetry(in, t).decision \in {"suppress", "escalate"}
BY DEF BaseRetryDecision, DecideMandateRetry, Fires, LockedReasons

LEMMA CheckoutRules ==
  ASSUME NEW in, NEW t, DecideCheckoutAbandonment(in, t).decision \in Actionable
  PROVE  ~AtTouchCap(in.touches, t)
BY DEF DecideCheckoutAbandonment, Fires, Actionable

LEMMA ReceivableRules ==
  ASSUME NEW in, NEW t, DecideB2BReceivables(in, t).decision \in Actionable
  PROVE  ~AtTouchCap(in.touches, t)
BY DEF DecideB2BReceivables, Fires, Actionable

LEMMA VoiceRules ==
  ASSUME NEW in, NEW t, DecideHinglishVoice(in, t).decision \in Actionable
  PROVE  ~IsDoNotCall(in.dnc, in.now)
BY DEF DecideHinglishVoice, Fires, Actionable

LEMMA PromiseRules ==
  ASSUME NEW in, NEW t, DecidePromiseToPay(in, t).decision \in Actionable,
         HasActivePromiseToPay(in.ptpDate, in.now)
  PROVE  PtpReminderDue(in.now, in.ptpDate)
BY DEF DecidePromiseToPay, HasActivePromiseToPay, Fires, Actionable

(* What the policy answers to be carried out, it allows. *)
LEMMA PolicyAllows ==
  ASSUME NEW r \in RunStates, r.cur \in Events,
         StepState(r.cur.flow,
                   FlowContext(r.cur, r.attempt, r.touches[r.cur.customer], r.now),
                   Tunables).decision \in Actionable
  PROVE  TouchAllowed(r)
<1> DEFINE ctx == FlowContext(r.cur, r.attempt, r.touches[r.cur.customer], r.now)
           in == StoppingInput(ctx)
           d == DecideForFlow(r.cur.flow, in, Tunables)
<1>1. /\ in.reason = Classify(r.cur) /\ in.attempt = r.attempt
      /\ in.touches = r.touches[r.cur.customer] /\ in.now = r.now
      /\ in.ptpDate = r.cur.signal.ptpDate /\ in.dnc = r.cur.signal.dnc
  BY DEF StoppingInput, FlowContext
<1>2. d.decision \in Actionable
  BY DEF StepState
<1> HIDE DEF ctx, in
<1>3. r.cur.flow \in Flows /\ r.cur.customer \in Customers
  BY EventsAssumption
<1>4. /\ r.attempt \in Nat /\ r.touches[r.cur.customer] \in Nat /\ r.now \in Nat
      /\ Tunables.maxRetry \in Nat /\ Tunables.maxTouches \in Nat
  <2>1. Tunables.maxRetry \in Nat /\ Tunables.maxTouches \in Nat
    BY TunablesAssumption DEF DefaultTunables
  <2> QED
    BY <1>3, <2>1 DEF RunStates
<1>5. ~AtMaxRetryAttempts(in.attempt, Tunables) => r.attempt < Tunables.maxRetry
  BY <1>1, <1>4 DEF AtMaxRetryAttempts
<1>6. ~AtTouchCap(in.touches, Tunables) =>
        r.touches[r.cur.customer] < Tunables.maxTouches
  BY <1>1, <1>4 DEF AtTouchCap
<1>7. CASE r.cur.flow \in RetryFlows
  <2>1. BaseRetryDecision(in, Tunables).decision \in Actionable
    BY <1>2, <1>7, MandateRules DEF DecideForFlow, RetryFlows
  <2>2. /\ Classify(r.cur) \notin LockedReasons
        /\ ~HasActivePromiseToPay(r.cur.signal.ptpDate, r.now)
        /\ r.attempt < Tunables.maxRetry
        /\ r.touches[r.cur.customer] < Tunables.maxTouches
    BY <1>1, <1>5, <1>6, <2>1, RetryRules
  <2> QED
    BY <1>7, <2>2 DEF TouchAllowed, ActAllowed, RetryFlows
<1>8. CASE r.cur.flow \in {"checkout_abandonment", "b2b_receivables"}
  <2>1. ~AtTouchCap(in.touches, Tunables)
    BY <1>2, <1>8, CheckoutRules, ReceivableRules DEF DecideForFlow
  <2>2. Classify(r.cur) \notin LockedReasons
    BY <1>8, LockedReasonsAreOfCharges DEF RetryFlows
  <2> QED
    BY <1>6, <1>8, <2>1, <2>2 DEF TouchAllowed, ActAllowed, RetryFlows, PromiseFlows
<1>9. CASE r.cur.flow = "hinglish_voice"
  <2>1. ~IsDoNotCall(in.dnc, in.now)
    BY <1>2, <1>9, VoiceRules DEF DecideForFlow
  <2>2. Classify(r.cur) \notin LockedReasons
    BY <1>9, LockedReasonsAreOfCharges DEF RetryFlows
  <2> QED
    BY <1>1, <1>9, <2>1, <2>2
       DEF TouchAllowed, ActAllowed, RetryFlows, CappedFlows, PromiseFlows, IsDoNotCall
<1>10. CASE r.cur.flow = "promise_to_pay"
  <2>1. HasActivePromiseToPay(in.ptpDate, in.now) => PtpReminderDue(in.now, in.ptpDate)
    BY <1>2, <1>10, PromiseRules DEF DecideForFlow
  <2>2. Classify(r.cur) \notin LockedReasons
    BY <1>10, LockedReasonsAreOfCharges DEF RetryFlows
  <2> QED
    BY <1>1, <1>10, <2>1, <2>2 DEF TouchAllowed, ActAllowed, RetryFlows, CappedFlows
<1>11. CASE r.cur.flow = "payment_degradation"
  BY <1>11 DEF TouchAllowed, ActAllowed, RetryFlows, CappedFlows, PromiseFlows
<1> QED
  BY <1>3, <1>7, <1>8, <1>9, <1>10, <1>11 DEF Flows, RetryFlows

-----------------------------------------------------------------------------
(* The invariant: what is carried out is allowed when it is decided, still   *)
(* allowed when it is done, and the log holds no row that breaks a rule.     *)
EffectsAllowed ==
  \A i \in DOMAIN effects :
    /\ ActAllowed(effects[i].ev, effects[i].now)
    /\ effects[i].ev.flow \in RetryFlows => effects[i].attempt < Tunables.maxRetry

PolicyFits ==
  /\ \A g \in Goroutines : run[g].pc = "execute" => TouchAllowed(run[g])
  /\ \A g \in Goroutines : run[g].pc = "record" => ActAllowed(run[g].cur, run[g].now)
  /\ EffectsAllowed
  /\ \A k \in DOMAIN log : RowLawful(log[k])

(* A step that carries nothing out, and logs nothing unlawful. *)
LEMMA PolicyKept ==
  ASSUME IInv, PolicyFits, NEW g \in Goroutines, Others(g), effects' = effects,
         \/ log' = log
         \/ \E row : AppendRow(row) /\ RowLawful(row),
         run'[g].pc # "record",
         run'[g].pc = "execute" => TouchAllowed(run'[g])
  PROVE  PolicyFits'
<1>1. \A k \in DOMAIN log' : RowLawful(log'[k])
  <2>1. ASSUME NEW row, AppendRow(row), RowLawful(row)
        PROVE  \A k \in DOMAIN log' : RowLawful(log'[k])
    <3>1. \A k \in DOMAIN log' : \/ k \in DOMAIN log /\ log'[k] = log[k]
                                 \/ log'[k] = row
      BY <2>1 DEF AppendRow, IInv, TypeOK
    <3> QED
      BY <2>1, <3>1 DEF PolicyFits
  <2> QED
    BY <2>1 DEF PolicyFits
<1>2. EffectsAllowed'
  BY DEF PolicyFits, EffectsAllowed
<1>3. \A h \in Goroutines : run'[h].pc = "execute" => TouchAllowed(run'[h])
  BY DEF PolicyFits, Others
<1>4. \A h \in Goroutines : run'[h].pc = "record" => ActAllowed(run'[h].cur, run'[h].now)
  BY DEF PolicyFits, Others
<1>5. \A h \in Goroutines : (run[h].pc = "execute" => TouchAllowed(run[h]))'
  BY <1>3 DEF TouchAllowed
<1> QED
  BY <1>1, <1>2, <1>4, <1>5 DEF PolicyFits

(* A decision that a locked rule takes settles the event. *)
LEMMA DecisionRowLawful ==
  ASSUME NEW r, r.cur \in Events, NEW attempt, NEW touches, NEW now
  PROVE  RowLawful(DecisionRow(r, StepState(r.cur.flow,
                                            FlowContext(r.cur, attempt, touches, now),
                                            Tunables)))
<1> DEFINE ctx == FlowContext(r.cur, attempt, touches, now)
           in == StoppingInput(ctx)
           step == StepState(r.cur.flow, ctx, Tunables)
           row == DecisionRow(r, step)
<1>1. /\ row.flow = r.cur.flow /\ row.reason = Classify(r.cur) /\ row.state = step.state
  BY DEF DecisionRow, Row
<1>2. in.reason = Classify(r.cur)
  BY DEF StoppingInput, FlowContext
<1> HIDE DEF in
<1>3. step.state # "contacting"
  BY DEF StepState, StateFor
<1>4. ASSUME r.cur.flow # "payment_degradation", Classify(r.cur) \in LockedReasons
      PROVE  step.state \in RunningTerminal
  <2>1. r.cur.flow \in RetryFlows
    BY <1>4, LockedReasonsAreOfCharges
  <2>2. DecideForFlow(r.cur.flow, in, Tunables).decision \in {"suppress", "escalate"}
    BY <1>2, <1>4, <2>1, LockedRulesStop DEF DecideForFlow, RetryFlows
  <2> QED
    BY <2>2 DEF StepState, StateFor, RunningTerminal, in
<1> HIDE DEF row, step
<1>5. RowLawful(row)
  BY <1>1, <1>3, <1>4 DEF RowLawful
<1> QED
  BY <1>5 DEF row, step

LEMMA ActionRowLawful ==
  ASSUME NEW r, ActAllowed(r.cur, r.now), NEW attempt, NEW recovered
  PROVE  RowLawful(ActionRow(r, attempt, recovered))
<1> DEFINE row == ActionRow(r, attempt, recovered)
<1>1. row.flow = r.cur.flow /\ row.reason = Classify(r.cur) /\ row.at = r.now
  BY DEF ActionRow, Row
<1> HIDE DEF row
<1>2. RowLawful(row)
  BY <1>1 DEF RowLawful, ActAllowed
<1> QED
  BY <1>2 DEF row

LEMMA PolicyFitsKept == IInv /\ CasesFit /\ PolicyFits /\ [Next]_vars => PolicyFits'
<1> SUFFICES ASSUME IInv, CasesFit, PolicyFits, [Next]_vars PROVE PolicyFits'
  OBVIOUS
<1>1. ASSUME NEW g \in Goroutines, Decide(g) PROVE PolicyFits'
  <2>1. /\ run[g] \in RunStates /\ run[g].cur \in Events
        /\ AppendRow(DecisionRow(run[g], Answer(g)))
        /\ run'[g].pc = AfterDecision(Answer(g).decision)
        /\ SameEvent(g) /\ SameTouches(g) /\ run'[g].attempt = run[g].attempt
        /\ Others(g) /\ effects' = effects
    BY <1>1, DecideTurn DEF IInv, TypeOK, NothingDone
  <2>2. RowLawful(DecisionRow(run[g], Answer(g)))
    BY <2>1, DecisionRowLawful DEF Answer
  <2>3. /\ AfterDecision(Answer(g).decision) \in {"execute", "followup", "loop"}
        /\ AfterDecision(Answer(g).decision) = "execute" => Answer(g).decision \in Actionable
    BY AfterDecisionType
  <2>4. Answer(g).decision \in Actionable => TouchAllowed(run[g])
    BY <2>1, PolicyAllows DEF Answer
  <2>5. TouchAllowed(run[g]) => TouchAllowed(run'[g])
    BY <2>1 DEF TouchAllowed, SameEvent, SameRun, SameTouches
  <2> QED
    BY <2>1, <2>2, <2>3, <2>4, <2>5, PolicyKept
<1>2. ASSUME NEW g \in Goroutines, Execute(g) PROVE PolicyFits'
  <2> DEFINE done == [ev |-> run[g].cur, attempt |-> run[g].attempt,
                      run |-> run[g].id, now |-> run[g].now]
  <2>1. /\ run[g].pc = "execute" /\ run'[g].pc = "record"
        /\ effects' = Append(effects, done) /\ log' = log
        /\ SameEvent(g) /\ Others(g) /\ TouchAllowed(run[g])
    BY <1>2, ExecuteTurn DEF PolicyFits
  <2>2. done.ev = run[g].cur /\ done.attempt = run[g].attempt /\ done.now = run[g].now
    OBVIOUS
  <2> HIDE DEF done
  <2>3. \A i \in DOMAIN effects' : \/ i \in DOMAIN effects /\ effects'[i] = effects[i]
                                   \/ effects'[i] = done
    BY <2>1 DEF IInv, TypeOK
  <2>4. EffectsAllowed'
    BY <2>1, <2>2, <2>3 DEF PolicyFits, EffectsAllowed, TouchAllowed
  <2>5. \A h \in Goroutines : run'[h].pc = "record" => ActAllowed(run'[h].cur, run'[h].now)
    BY <2>1 DEF PolicyFits, Others, TouchAllowed, SameEvent, SameRun
  <2>6. \A h \in Goroutines : run'[h].pc = "execute" => TouchAllowed(run'[h])
    BY <2>1 DEF PolicyFits, Others
  <2>7. \A h \in Goroutines : (run[h].pc = "execute" => TouchAllowed(run[h]))'
    BY <2>6 DEF TouchAllowed
  <2> QED
    BY <2>1, <2>4, <2>5, <2>7 DEF PolicyFits
<1>3. ASSUME NEW g \in Goroutines, RecordAction(g) PROVE PolicyFits'
  <2>1. /\ AppendRow(ActionRow(run[g], run[g].attempt, run[g].recovered))
        /\ run'[g].pc \in {"recovery", "loop"} /\ run[g].pc = "record"
        /\ Others(g) /\ effects' = effects
    BY <1>3, RecordActionTurn DEF NothingDone
  <2>2. RowLawful(ActionRow(run[g], run[g].attempt, run[g].recovered))
    BY <2>1, ActionRowLawful DEF PolicyFits
  <2> QED
    BY <2>1, <2>2, PolicyKept
<1>4. ASSUME NEW g \in Goroutines, RecordRecovery(g) \/ RecordFollowUp(g) PROVE PolicyFits'
  <2>1. /\ \E row : /\ AppendRow(row) /\ row.state \in RunningTerminal
                    /\ row.state # "contacting"
        /\ run'[g].pc = "loop" /\ Others(g) /\ effects' = effects
    BY <1>4, SettlingTurn DEF NothingDone
  <2> QED
    BY <2>1, PolicyKept DEF RowLawful
<1>5. ASSUME NEW g \in Goroutines, SuppressDuplicate(g) PROVE PolicyFits'
  <2>1. /\ AppendRow(DuplicateRow(run[g])) /\ run'[g].pc = "claim"
        /\ Others(g) /\ effects' = effects
    BY <1>5, SuppressDuplicateTurn DEF NothingDone
  <2>2. RowLawful(DuplicateRow(run[g]))
    BY DEF RowLawful, DuplicateRow, Row, RunningTerminal
  <2> QED
    BY <2>1, <2>2, PolicyKept
<1>6. ASSUME NEW g \in Goroutines, ClaimRefused(g) \/ ClaimOverLimit(g) \/ ClaimGranted(g)
      PROVE  PolicyFits'
  BY <1>6, ClaimTurn, PolicyKept DEF NothingDone
<1>7. ASSUME NEW g \in Goroutines, LeaveLoop(g) PROVE PolicyFits'
  BY <1>7, LeaveLoopTurn, PolicyKept DEF NothingDone
<1>8. ASSUME NEW g \in Goroutines, Deliver(g) PROVE PolicyFits'
  BY <1>8, DeliverTurn, PolicyKept
<1>9. ASSUME NEW g \in Goroutines, Return(g) \/ StoreFails(g) PROVE PolicyFits'
  BY <1>9, LastTurn, PolicyKept DEF NothingDone
<1>10. CASE Crash
  <2>1. /\ UNCHANGED <<log, effects>>
        /\ \A g \in Goroutines : run'[g].pc = "idle"
    BY <1>10 DEF Crash, IdleRun
  <2> QED
    BY <2>1 DEF PolicyFits, EffectsAllowed
<1>11. CASE UNCHANGED vars
  BY <1>11 DEF vars, PolicyFits, EffectsAllowed, TouchAllowed
<1> QED
  BY <1>1, <1>2, <1>3, <1>4, <1>5, <1>6, <1>7, <1>8, <1>9, <1>10, <1>11, NextIsStep

LEMMA InitPolicyFits == Init => PolicyFits
<1> SUFFICES ASSUME Init PROVE PolicyFits
  OBVIOUS
<1>1. DOMAIN log = {} /\ DOMAIN effects = {} /\ \A g \in Goroutines : run[g].pc = "idle"
  BY DEF Init, IdleRun
<1> QED
  BY <1>1 DEF PolicyFits, EffectsAllowed

LEMMA PolicyInvariance == Spec => [](IInv /\ CasesFit /\ PolicyFits)
BY InitCasesFit, CasesFitKept, InitPolicyFits, PolicyFitsKept, Invariance, PTL DEF Spec

-----------------------------------------------------------------------------
(* The locked rules, promises and the retry budget. *)

(* The stopping rules come before every action in the engines, and their order *)
(* and the tunables cannot take them out: no row counts as a locked violation, *)
(* and nobody on the do-not-call list is called.                               *)
THEOREM LocksHold == Spec => []LockedRulesHold
<1>1. IInv /\ PolicyFits => LockedRulesHold
  <2> SUFFICES ASSUME IInv, PolicyFits PROVE LockedRulesHold
    OBVIOUS
  <2>1. \A i \in DOMAIN effects :
          effects[i].ev.flow = "hinglish_voice" => ~effects[i].ev.signal.dnc
    BY DEF PolicyFits, EffectsAllowed, ActAllowed
  <2>2. \A k \in DOMAIN log : RowLawful(log[k])
    BY DEF PolicyFits
  <2>3. LockedViolations(Flows \ {"payment_degradation"}) = {}
    BY <2>2 DEF LockedViolations, RowLawful, LockedReasons
  <2> QED
    BY <2>1, <2>3 DEF LockedRulesHold
<1> QED
  BY <1>1, PolicyInvariance, PTL

(* The engines that look at a promise to pay let it stop a charge for as long *)
(* as it is open; the one action before its date is the reminder of the last  *)
(* day.                                                                       *)
THEOREM PromisesHonoured == Spec => []PromiseHonoured
<1>1. PolicyFits => PromiseHonoured
  BY DEF PolicyFits, EffectsAllowed, ActAllowed, PromiseHonoured, PromiseFlows
<1> QED
  BY <1>1, PolicyInvariance, PTL

LEMMA EffectsAreFinite == IInv => IsFiniteSet(DOMAIN effects)
<1> SUFFICES ASSUME IInv PROVE IsFiniteSet(DOMAIN effects)
  OBVIOUS
<1>1. DOMAIN effects = 1..Len(effects) /\ 1 \in Int /\ Len(effects) \in Int
  BY DEF IInv, TypeOK
<1> QED
  BY <1>1, FS_Interval

LEMMA CapsAreNat == Tunables.maxRetry \in Nat /\ Tunables.maxTouches \in Nat
BY TunablesAssumption DEF DefaultTunables

(* AtMaxRetryAttempts looks at the attempt numbers of one run only; the claim *)
(* gate makes them the attempts of the event over all its deliveries.         *)
THEOREM RetriesAreBudgeted == Spec => []RetryBudget
<1>1. IInv /\ PolicyFits => RetryBudget
  <2> SUFFICES ASSUME IInv, PolicyFits, NEW ev \in Events
               PROVE  Cardinality({i \in DOMAIN effects : /\ effects[i].ev.id = ev.id
                                                          /\ effects[i].ev.flow \in RetryFlows})
                        <= Tunables.maxRetry
    BY DEF RetryBudget
  <2> DEFINE S == {i \in DOMAIN effects : /\ effects[i].ev.id = ev.id
                                          /\ effects[i].ev.flow \in RetryFlows}
             T == 0..Tunables.maxRetry - 1
             f == [i \in S |-> effects[i].attempt]
  <2>1. IsFiniteSet(S) /\ Cardinality(S) \in Nat
    <3>1. S \in SUBSET DOMAIN effects
      OBVIOUS
    <3>2. IsFiniteSet(S)
      BY <3>1, EffectsAreFinite, FS_Subset
    <3> QED
      BY <3>2, FS_CardinalityType
  <2>2. IsFiniteSet(T) /\ Cardinality(T) = Tunables.maxRetry
    <3>1. 0 \in Int /\ Tunables.maxRetry - 1 \in Int /\ Tunables.maxRetry \in Nat
      BY CapsAreNat
    <3>2. /\ IsFiniteSet(T)
          /\ Cardinality(T) = IF 0 > Tunables.maxRetry - 1 THEN 0
                              ELSE Tunables.maxRetry - 1 - 0 + 1
      BY <3>1, FS_Interval
    <3> QED
      BY <3>1, <3>2
  <2>3. f \in [S -> T]
    <3>1. \A i \in S : effects[i].attempt \in Nat /\ effects[i].attempt < Tunables.maxRetry
      <4>1. \A i \in DOMAIN effects : effects[i] \in Effects
        BY DEF IInv, TypeOK
      <4> QED
        BY <4>1 DEF PolicyFits, EffectsAllowed, Effects
    <3> QED
      BY <3>1, CapsAreNat
  <2>4. \A i, j \in S : f[i] = f[j] => i = j
    BY DEF IInv, AtMostOnce
  <2> HIDE DEF S, T, f
  <2>5. ~(Cardinality(T) < Cardinality(S))
    BY <2>1, <2>2, <2>3, <2>4, FS_PigeonHole
  <2>6. Cardinality(S) <= Tunables.maxRetry
    BY <2>1, <2>2, <2>5, CapsAreNat
  <2> QED
    BY <2>6 DEF S
<1> QED
  BY <1>1, PolicyInvariance, PTL

-----------------------------------------------------------------------------
(* Touches.  The invariant: a run's own count of the touches of a customer *)
(* misses none of those its capped flows made.                             *)
Touching(acts, r, c) ==
  {i \in DOMAIN acts : /\ acts[i].run = r /\ acts[i].ev.customer = c
                       /\ acts[i].ev.flow \in CappedFlows}

TouchesFit ==
  /\ \A g \in Goroutines : Active(g) =>
       \A c \in Customers :
         Cardinality(Touching(effects, run[g].id, c)) <= run[g].touches[c]
  /\ \A r \in 1..deliveries, c \in Customers :
       Cardinality(Touching(effects, r, c)) <= Tunables.maxTouches

(* A step that carries nothing out and resets no count. *)
LEMMA TouchesKept ==
  ASSUME IInv, TouchesFit, NEW g \in Goroutines, Others(g), NothingDone,
         run'[g].pc # "idle" => Active(g) /\ run'[g].id = run[g].id /\ SameTouches(g)
  PROVE  TouchesFit'
<1>1. \A h \in Goroutines : Active(h)' =>
        Active(h) /\ run'[h].id = run[h].id /\ run'[h].touches = run[h].touches
  BY DEF Others, Active, SameTouches
<1>2. \A h \in Goroutines : Active(h)' =>
        \A c \in Customers :
          Cardinality(Touching(effects', run'[h].id, c)) <= run'[h].touches[c]
  BY <1>1 DEF TouchesFit, NothingDone
<1>3. \A r \in 1..deliveries', c \in Customers :
        Cardinality(Touching(effects', r, c)) <= Tunables.maxTouches
  BY DEF TouchesFit, NothingDone
<1> QED
  BY <1>2, <1>3 DEF TouchesFit, Touching

LEMMA TouchingType ==
  ASSUME IInv, NEW r, NEW c
  PROVE  /\ IsFiniteSet(Touching(effects, r, c))
         /\ Cardinality(Touching(effects, r, c)) \in Nat
<1>1. Touching(effects, r, c) \in SUBSET DOMAIN effects
  BY DEF Touching
<1>2. IsFiniteSet(Touching(effects, r, c))
  BY <1>1, EffectsAreFinite, FS_Subset
<1> QED
  BY <1>2, FS_CardinalityType

(* A new run has touched nobody. *)
LEMMA DeliverTouches ==
  ASSUME IInv, ActsFit, TouchesFit, NEW g \in Goroutines, Deliver(g)
  PROVE  TouchesFit'
<1>1. /\ run'[g].id = deliveries + 1 /\ run'[g].touches = [c \in Customers |-> 0]
      /\ deliveries' = deliveries + 1 /\ Others(g) /\ effects' = effects
  BY DeliverTurn
<1>2. \A c : Cardinality(Touching(effects, deliveries + 1, c)) = 0
  <2>1. \A i \in DOMAIN effects : effects[i].run # deliveries + 1
    BY DEF ActsFit, RunsFit
  <2>2. \A c : Touching(effects, deliveries + 1, c) = {}
    BY <2>1 DEF Touching
  <2> QED
    BY <2>2, FS_EmptySet
<1>3. \A h \in Goroutines : Active(h)' =>
        \A c \in Customers :
          Cardinality(Touching(effects', run'[h].id, c)) <= run'[h].touches[c]
  BY <1>1, <1>2 DEF TouchesFit, Others, Active
<1>4. \A r \in 1..deliveries', c \in Customers :
        Cardinality(Touching(effects', r, c)) <= Tunables.maxTouches
  BY <1>1, <1>2, CapsAreNat DEF TouchesFit, ActsFit, RunsFit
<1> QED
  BY <1>3, <1>4 DEF TouchesFit, Touching

(* A touch is counted as it is made, and made only below the cap. *)
LEMMA ExecuteTouches ==
  ASSUME IInv, ActsFit, PolicyFits, TouchesFit, NEW g \in Goroutines, Execute(g)
  PROVE  TouchesFit'
<1> DEFINE e == run[g].cur
           n == Len(effects) + 1
           done == [ev |-> e, attempt |-> run[g].attempt, run |-> run[g].id,
                    now |-> run[g].now]
<1>1. /\ run[g].pc = "execute" /\ run'[g].pc = "record"
      /\ run'[g].touches = [run[g].touches EXCEPT ![e.customer] = @ + 1]
      /\ effects' = Append(effects, done) /\ SameEvent(g) /\ Others(g)
      /\ deliveries' = deliveries
  BY ExecuteTurn
<1>2. run[g] \in RunStates /\ e \in Events /\ Active(g) /\ TouchAllowed(run[g])
  BY <1>1 DEF IInv, TypeOK, Active, PolicyFits
<1>3. e.customer \in Customers /\ run[g].touches \in [Customers -> Nat]
  BY <1>2, EventsAssumption DEF RunStates
<1>4. done.ev = e /\ done.run = run[g].id
  OBVIOUS
<1> HIDE DEF done
<1>5. /\ DOMAIN effects' = DOMAIN effects \cup {n} /\ n \notin DOMAIN effects
      /\ \A i \in DOMAIN effects : effects'[i] = effects[i]
      /\ effects'[n] = done
  BY <1>1 DEF IInv, TypeOK
<1> HIDE DEF n
<1>6. ASSUME NEW r, NEW c
      PROVE  \/ Touching(effects', r, c) = Touching(effects, r, c)
             \/ /\ r = run[g].id /\ c = e.customer /\ e.flow \in CappedFlows
                /\ Cardinality(Touching(effects', r, c))
                     = Cardinality(Touching(effects, r, c)) + 1
  <2>1. CASE r = run[g].id /\ c = e.customer /\ e.flow \in CappedFlows
    <3>1. /\ Touching(effects', r, c) = Touching(effects, r, c) \cup {n}
          /\ n \notin Touching(effects, r, c)
      BY <1>4, <1>5, <2>1 DEF Touching
    <3> QED
      BY <2>1, <3>1, TouchingType, FS_AddElement
  <2>2. CASE ~(r = run[g].id /\ c = e.customer /\ e.flow \in CappedFlows)
    BY <1>4, <1>5, <2>2 DEF Touching
  <2> QED
    BY <2>1, <2>2
<1>7. ASSUME NEW c \in Customers
      PROVE  Cardinality(Touching(effects, run[g].id, c)) <= run[g].touches[c]
  BY <1>2 DEF TouchesFit
<1>8. /\ \A c \in Customers : run[g].touches[c] \in Nat
      /\ \A c \in Customers : c # e.customer => run'[g].touches[c] = run[g].touches[c]
      /\ run'[g].touches[e.customer] = run[g].touches[e.customer] + 1
  BY <1>1, <1>3
<1>9. \A h \in Goroutines : Active(h)' =>
        \A c \in Customers :
          Cardinality(Touching(effects', run'[h].id, c)) <= run'[h].touches[c]
  <2> SUFFICES ASSUME NEW h \in Goroutines, Active(h)', NEW c \in Customers
               PROVE  Cardinality(Touching(effects', run'[h].id, c)) <= run'[h].touches[c]
    OBVIOUS
  <2>1. CASE h = g
    <3>1. run'[g].id = run[g].id
      BY <1>1 DEF SameEvent, SameRun
    <3>2. Cardinality(Touching(effects, run[g].id, c)) \in Nat
      BY TouchingType
    <3> QED
      BY <1>6, <1>7, <1>8, <2>1, <3>1, <3>2
  <2>2. CASE h # g
    <3>1. Active(h) /\ run'[h] = run[h]
      BY <1>1, <2>2 DEF Others, Active
    <3>2. run[h].id # run[g].id
      BY <1>2, <2>2, <3>1 DEF ActsFit, RunsFit
    <3> QED
      BY <1>6, <3>1, <3>2 DEF TouchesFit
  <2> QED
    BY <2>1, <2>2
<1>10. \A r \in 1..deliveries', c \in Customers :
         Cardinality(Touching(effects', r, c)) <= Tunables.maxTouches
  <2> SUFFICES ASSUME NEW r \in 1..deliveries, NEW c \in Customers
               PROVE  Cardinality(Touching(effects', r, c)) <= Tunables.maxTouches
    BY <1>1
  <2>1. CASE r = run[g].id /\ c = e.customer /\ e.flow \in CappedFlows
    <3>1. run[g].touches[e.customer] < Tunables.maxTouches
      BY <1>2, <2>1 DEF TouchAllowed
    <3>2. Cardinality(Touching(effects, r, c)) \in Nat
      BY TouchingType
    <3> QED
      BY <1>3, <1>6, <1>7, <1>8, <2>1, <3>1, <3>2, CapsAreNat DEF TouchesFit
  <2>2. CASE ~(r = run[g].id /\ c = e.customer /\ e.flow \in CappedFlows)
    BY <1>6, <2>2 DEF TouchesFit
  <2> QED
    BY <2>1, <2>2
<1> QED
  BY <1>9, <1>10 DEF TouchesFit, Touching

LEMMA TouchesFitKept ==
  IInv /\ CasesFit /\ ActsFit /\ PolicyFits /\ TouchesFit /\ [Next]_vars => TouchesFit'
<1> SUFFICES ASSUME IInv, CasesFit, ActsFit, PolicyFits, TouchesFit, [Next]_vars
             PROVE  TouchesFit'
  OBVIOUS
<1>1. ASSUME NEW g \in Goroutines,
             \/ Decide(g) \/ RecordAction(g) \/ RecordRecovery(g) \/ RecordFollowUp(g)
             \/ SuppressDuplicate(g) \/ LeaveLoop(g) \/ ClaimRefused(g)
             \/ ClaimOverLimit(g) \/ ClaimGranted(g)
      PROVE  TouchesFit'
  <2>1. Active(g) /\ run'[g].id = run[g].id /\ SameTouches(g) /\ Others(g) /\ NothingDone
    BY <1>1, DecideTurn, RecordActionTurn, SettlingTurn, SuppressDuplicateTurn,
       LeaveLoopTurn, ClaimTurn DEF Active, SameEvent, SameRun
  <2> QED
    BY <2>1, TouchesKept
<1>2. ASSUME NEW g \in Goroutines, Return(g) \/ StoreFails(g) PROVE TouchesFit'
  BY <1>2, LastTurn, TouchesKept
<1>3. CASE Crash
  <2>1. /\ UNCHANGED <<effects, deliveries>>
        /\ \A g \in Goroutines : run'[g].pc = "idle"
    BY <1>3 DEF Crash, IdleRun
  <2> QED
    BY <2>1 DEF TouchesFit, Active, Touching
<1>4. CASE UNCHANGED vars
  BY <1>4 DEF vars, TouchesFit, Active, Touching
<1> QED
  BY <1>1, <1>2, <1>3, <1>4, DeliverTouches, ExecuteTouches, NextIsStep

LEMMA InitTouchesFit == Init => TouchesFit
BY BoundsAssumption DEF Init, TouchesFit, Active, IdleRun

(* The flows whose engine consults the cap share one count per customer in a *)
(* batch: however their events alternate, no customer is touched more often  *)
(* by one run than max_touches_cap says.                                     *)
THEOREM TouchesAreCapped == Spec => []CappedTouches
<1>1. TouchesFit => CappedTouches
  BY DEF TouchesFit, CappedTouches, TouchesOf, Touching
<1> QED
  BY <1>1, InitActsFit, ActsFitKept, InitTouchesFit, TouchesFitKept, PolicyInvariance, PTL
     DEF Spec

-----------------------------------------------------------------------------
(* Nothing is left undone silently.  The invariant: while a run has not hit  *)
(* its limit, each event of its batch whose flow the cap ends is answered in *)
(* the log, at hand or still to do; and the cap ends it before the guard.    *)
CapBelowGuard == Tunables.maxTouches < GuardLimit

Answered(rows, id) ==
  \E k \in DOMAIN rows : rows[k].event = id /\ (IsDuplicate(rows[k]) \/ Settling(rows[k]))

AccountedFor(r, rows, e) ==
  \/ Answered(rows, e.id)
  \/ r.pc \notin {"idle", "claim"} /\ r.cur = e
  \/ \E j \in DOMAIN r.todo : r.todo[j] = e

BatchDone(r, rows) ==
  r.pc # "idle" /\ ~r.limitHit =>
    \A i \in DOMAIN r.batch :
      r.batch[i].flow \in CappedFlows => AccountedFor(r, rows, r.batch[i])

StepsBounded(r) ==
  r.cur.flow \in CappedFlows =>
    /\ r.pc = "execute" => r.steps <= r.touches[r.cur.customer] + 1
    /\ r.pc = "record" \/ (r.pc = "loop" /\ r.state \notin RunningTerminal) =>
         r.steps <= r.touches[r.cur.customer] /\ r.steps <= Tunables.maxTouches

BatchesFit == \A g \in Goroutines : BatchDone(run[g], log)
StepsFit == \A g \in Goroutines : StepsBounded(run[g])

LEMMA StepsFitKept == IInv /\ CasesFit /\ PolicyFits /\ StepsFit /\ [Next]_vars => StepsFit'
<1> SUFFICES ASSUME IInv, CasesFit, PolicyFits, StepsFit, [Next]_vars PROVE StepsFit'
  OBVIOUS
<1>1. ASSUME NEW g \in Goroutines, Others(g), StepsBounded(run'[g]) PROVE StepsFit'
  <2>1. \A h \in Goroutines : StepsBounded(run'[h])
    BY <1>1 DEF StepsFit, Others
  <2> QED
    BY <2>1 DEF StepsFit, StepsBounded
<1>2. ASSUME NEW g \in Goroutines, run[g].pc \notin {"idle", "claim"}
      PROVE  /\ run[g].cur.customer \in Customers
             /\ run[g].touches \in [Customers -> Nat]
             /\ run[g].touches[run[g].cur.customer] \in Nat /\ run[g].steps \in Nat
  BY <1>2, EventsAssumption DEF IInv, TypeOK, RunStates
<1>3. ASSUME NEW g \in Goroutines, Decide(g) PROVE StepsFit'
  <2>1. /\ run[g].pc = "loop" /\ run[g].state \notin RunningTerminal
        /\ run'[g].pc = AfterDecision(Answer(g).decision)
        /\ run'[g].state = Answer(g).state /\ run'[g].steps = run[g].steps + 1
        /\ run'[g].cur = run[g].cur /\ run'[g].touches = run[g].touches /\ Others(g)
    BY <1>3, DecideTurn DEF SameEvent, SameTouches
  <2>2. /\ AfterDecision(Answer(g).decision) \in {"execute", "followup", "loop"}
        /\ AfterDecision(Answer(g).decision) = "loop" => Answer(g).state \in RunningTerminal
    BY StepSettles DEF Answer
  <2>3. StepsBounded(run'[g])
    BY <1>2, <2>1, <2>2 DEF StepsFit, StepsBounded
  <2> QED
    BY <1>1, <2>1, <2>3
<1>4. ASSUME NEW g \in Goroutines, Execute(g) PROVE StepsFit'
  <2>1. /\ run[g].pc = "execute" /\ run'[g].pc = "record" /\ run'[g].steps = run[g].steps
        /\ run'[g].touches = [run[g].touches EXCEPT ![run[g].cur.customer] = @ + 1]
        /\ run'[g].cur = run[g].cur /\ Others(g) /\ TouchAllowed(run[g])
    BY <1>4, ExecuteTurn DEF SameEvent, PolicyFits
  <2>2. run'[g].touches[run[g].cur.customer] = run[g].touches[run[g].cur.customer] + 1
    BY <1>2, <2>1
  <2>3. StepsBounded(run'[g])
    BY <1>2, <2>1, <2>2, CapsAreNat DEF StepsFit, StepsBounded, TouchAllowed
  <2> QED
    BY <1>1, <2>1, <2>3
<1>5. ASSUME NEW g \in Goroutines, RecordAction(g) PROVE StepsFit'
  <2>1. /\ run[g].pc = "record" /\ run'[g].pc \in {"recovery", "loop"}
        /\ run'[g].steps = run[g].steps /\ run'[g].touches = run[g].touches
        /\ run'[g].cur = run[g].cur /\ Others(g)
    BY <1>5, RecordActionTurn DEF SameEvent, SameTouches
  <2>2. StepsBounded(run'[g])
    BY <2>1 DEF StepsFit, StepsBounded
  <2> QED
    BY <1>1, <2>1, <2>2
<1>6. ASSUME NEW g \in Goroutines, ClaimRefused(g) \/ ClaimOverLimit(g) \/ ClaimGranted(g)
      PROVE  StepsFit'
  <2>1. /\ \/ run'[g].pc \in {"duplicate", "claim"}
           \/ /\ run'[g].pc = "loop" /\ run'[g].steps = 0
              /\ run'[g].cur = Head(run[g].todo)
        /\ run[g].todo # <<>> /\ SameTouches(g) /\ Others(g)
    BY <1>6, ClaimTurn
  <2>2. /\ Head(run[g].todo).customer \in Customers
        /\ run[g].touches \in [Customers -> Nat]
    <3>1. run[g].todo \in Seq(Events) /\ run[g].touches \in [Customers -> Nat]
      BY DEF IInv, TypeOK, RunStates
    <3>2. Head(run[g].todo) \in Events
      BY <2>1, <3>1
    <3> QED
      BY <3>1, <3>2, EventsAssumption
  <2>3. StepsBounded(run'[g])
    BY <2>1, <2>2, CapsAreNat DEF StepsBounded, SameTouches
  <2> QED
    BY <1>1, <2>1, <2>3
<1>7. ASSUME NEW g \in Goroutines,
             \/ RecordRecovery(g) \/ RecordFollowUp(g) \/ SuppressDuplicate(g)
             \/ LeaveLoop(g) \/ Deliver(g) \/ Return(g) \/ StoreFails(g)
      PROVE  StepsFit'
  <2>1. /\ Others(g)
        /\ \/ run'[g].pc \in {"idle", "claim"}
           \/ run'[g].pc = "loop" /\ run'[g].state \in RunningTerminal
    BY <1>7, SettlingTurn, SuppressDuplicateTurn, LeaveLoopTurn, DeliverTurn, LastTurn
  <2>2. StepsBounded(run'[g])
    BY <2>1 DEF StepsBounded
  <2> QED
    BY <1>1, <2>1, <2>2
<1>8. CASE Crash
  <2>1. \A g \in Goroutines : run'[g].pc = "idle"
    BY <1>8 DEF Crash, IdleRun
  <2> QED
    BY <2>1 DEF StepsFit, StepsBounded
<1>9. CASE UNCHANGED vars
  BY <1>9 DEF vars, StepsFit, StepsBounded
<1> QED
  BY <1>3, <1>4, <1>5, <1>6, <1>7, <1>8, <1>9, NextIsStep

(* What is answered stays answered, in the batches of all runs. *)
LEMMA BatchesKept ==
  ASSUME IInv, BatchesFit, NEW g \in Goroutines, Others(g), Grows, BatchDone(run'[g], log')
  PROVE  BatchesFit'
<1>1. \A k \in DOMAIN log : k \in DOMAIN log' /\ log'[k] = log[k]
  <2>1. ASSUME NEW row, log' = Append(log, row)
        PROVE  \A k \in DOMAIN log : k \in DOMAIN log' /\ log'[k] = log[k]
    BY <2>1 DEF IInv, TypeOK
  <2> QED
    BY <2>1 DEF Grows, AppendRow
<1>2. \A id : Answered(log, id) => Answered(log', id)
  BY <1>1 DEF Answered
<1>3. \A h \in Goroutines : BatchDone(run[h], log) => BatchDone(run[h], log')
  BY <1>2 DEF BatchDone, AccountedFor
<1> QED
  BY <1>3 DEF BatchesFit, Others

(* An event at hand, or just answered, needs to be looked for no further. *)
LEMMA BatchGoesOn ==
  ASSUME IInv, BatchesFit, NEW g \in Goroutines, Grows, Active(g), SameRun(g),
         run'[g].limitHit \/ run'[g].limitHit = run[g].limitHit,
         \A e : e.flow \in CappedFlows /\ ~run'[g].limitHit
                  /\ AccountedFor(run[g], log, e) => AccountedFor(run'[g], log', e)
  PROVE  BatchDone(run'[g], log')
BY DEF BatchesFit, BatchDone, SameRun, Active

LEMMA AnswersStay ==
  ASSUME IInv, Grows, NEW id, Answered(log, id)
  PROVE  Answered(log', id)
<1>1. ASSUME NEW row, log' = Append(log, row)
      PROVE  \A k \in DOMAIN log : k \in DOMAIN log' /\ log'[k] = log[k]
  BY <1>1 DEF IInv, TypeOK
<1>2. \A k \in DOMAIN log : k \in DOMAIN log' /\ log'[k] = log[k]
  BY <1>1 DEF Grows, AppendRow
<1> QED
  BY <1>2 DEF Answered

LEMMA HeadOrTail ==
  ASSUME NEW S, NEW s \in Seq(S), s # <<>>, NEW j \in DOMAIN s
  PROVE  \/ s[j] = Head(s)
         \/ \E k \in DOMAIN Tail(s) : Tail(s)[k] = s[j]
<1>1. CASE j = 1
  BY <1>1
<1>2. CASE j # 1
  <2>1. Len(s) \in Nat /\ DOMAIN s = 1..Len(s)
    OBVIOUS
  <2>2. j - 1 \in 1..Len(s) - 1 /\ (j - 1) + 1 = j
    BY <1>2, <2>1
  <2>3. Tail(s) \in Seq(S) /\ Len(Tail(s)) = Len(s) - 1
    OBVIOUS
  <2>4. DOMAIN Tail(s) = 1..Len(s) - 1
    BY <2>3
  <2>5. Tail(s)[j - 1] = s[j]
    BY <1>2, <2>1, <2>2
  <2> QED
    BY <2>2, <2>4, <2>5
<1> QED
  BY <1>1, <1>2

LEMMA BatchesFitKept ==
  CapBelowGuard /\ IInv /\ CasesFit /\ StepsFit /\ BatchesFit /\ [Next]_vars => BatchesFit'
<1> SUFFICES ASSUME CapBelowGuard, IInv, CasesFit, StepsFit, BatchesFit, [Next]_vars
             PROVE  BatchesFit'
  OBVIOUS
<1>1. ASSUME NEW g \in Goroutines,
             \/ Decide(g) \/ Execute(g) \/ RecordAction(g) \/ RecordRecovery(g)
             \/ RecordFollowUp(g)
      PROVE  BatchesFit'
  <2>1. /\ run[g].pc \notin {"idle", "claim"} /\ run'[g].pc \notin {"idle", "claim"}
        /\ SameEvent(g) /\ Others(g) /\ Grows
    <3>1. CASE Decide(g)
      BY <3>1, DecideTurn, AfterDecisionType DEF Grows
    <3>2. CASE Execute(g)
      BY <3>2, ExecuteTurn DEF Grows
    <3>3. CASE RecordAction(g)
      BY <3>3, RecordActionTurn DEF Grows
    <3>4. CASE RecordRecovery(g) \/ RecordFollowUp(g)
      BY <3>4, SettlingTurn DEF Grows
    <3> QED
      BY <1>1, <3>1, <3>2, <3>3, <3>4
  <2>2. \A e : AccountedFor(run[g], log, e) => AccountedFor(run'[g], log', e)
    BY <2>1, AnswersStay DEF AccountedFor, SameEvent
  <2> QED
    BY <2>1, <2>2, BatchGoesOn, BatchesKept DEF SameEvent, Active
<1>2. ASSUME NEW g \in Goroutines, ClaimRefused(g) \/ ClaimOverLimit(g) \/ ClaimGranted(g)
      PROVE  BatchesFit'
  <2>1. /\ run[g].pc = "claim" /\ run[g].todo # <<>>
        /\ \/ run'[g].limitHit
           \/ /\ run'[g].pc \in {"duplicate", "loop"} /\ run'[g].cur = Head(run[g].todo)
              /\ run'[g].todo = Tail(run[g].todo) /\ run'[g].limitHit = run[g].limitHit
        /\ SameRun(g) /\ Others(g) /\ log' = log
    BY <1>2, ClaimTurn
  <2>2. CASE run'[g].limitHit
    BY <2>1, <2>2, BatchesKept DEF BatchDone, Grows
  <2>3. CASE ~run'[g].limitHit
    <3>1. run[g].todo \in Seq(Events)
      BY DEF IInv, TypeOK, RunStates
    <3>2. \A j \in DOMAIN run[g].todo :
            \/ run[g].todo[j] = Head(run[g].todo)
            \/ \E k \in DOMAIN Tail(run[g].todo) : Tail(run[g].todo)[k] = run[g].todo[j]
      BY <2>1, <3>1, HeadOrTail
    <3>3. \A e : AccountedFor(run[g], log, e) => AccountedFor(run'[g], log', e)
      BY <2>1, <2>3, <3>2 DEF AccountedFor
    <3> QED
      BY <2>1, <2>3, <3>3, BatchGoesOn, BatchesKept DEF Active, Grows
  <2> QED
    BY <2>2, <2>3
<1>3. ASSUME NEW g \in Goroutines, SuppressDuplicate(g) PROVE BatchesFit'
  <2>1. /\ run[g].pc = "duplicate" /\ run'[g].todo = run[g].todo
        /\ run'[g].limitHit = run[g].limitHit
        /\ AppendRow(DuplicateRow(run[g])) /\ SameRun(g) /\ Others(g)
    BY <1>3, SuppressDuplicateTurn
  <2>2. Answered(log', run[g].cur.id)
    <3> DEFINE row == DuplicateRow(run[g])
    <3>1. row.event = run[g].cur.id /\ IsDuplicate(row)
      BY DEF DuplicateRow, Row, IsDuplicate
    <3> HIDE DEF row
    <3>2. Len(log) + 1 \in DOMAIN log' /\ log'[Len(log) + 1] = row
      BY <2>1 DEF AppendRow, IInv, TypeOK, row
    <3> QED
      BY <3>1, <3>2 DEF Answered
  <2>3. Grows
    BY <2>1 DEF Grows
  <2>4. \A e : AccountedFor(run[g], log, e) => AccountedFor(run'[g], log', e)
    BY <2>1, <2>2, <2>3, AnswersStay DEF AccountedFor
  <2> QED
    BY <2>1, <2>3, <2>4, BatchGoesOn, BatchesKept DEF Active
<1>4. ASSUME NEW g \in Goroutines, LeaveLoop(g) PROVE BatchesFit'
  <2>1. /\ run[g].pc = "loop" /\ run'[g].todo = run[g].todo
        /\ run'[g].limitHit <=>
             run[g].limitHit \/ (run[g].state \notin RunningTerminal /\ run[g].steps < GuardLimit)
        /\ SameRun(g) /\ Others(g) /\ log' = log
    BY <1>4, LeaveLoopTurn
  <2>2. run[g].limitHit \in BOOLEAN /\ run'[g].limitHit \in BOOLEAN
    BY NextIInv DEF IInv, TypeOK, RunStates
  <2>3. ASSUME ~run'[g].limitHit, run[g].cur.flow \in CappedFlows
        PROVE  Answered(log, run[g].cur.id)
    <3>1. run[g].state \in RunningTerminal
      <4> SUFFICES ASSUME run[g].state \notin RunningTerminal PROVE FALSE
        OBVIOUS
      <4>1. run[g].steps <= Tunables.maxTouches /\ ~(run[g].steps < GuardLimit)
        BY <2>1, <2>3 DEF StepsFit, StepsBounded
      <4>2. run[g].steps \in Nat
        BY DEF IInv, TypeOK, RunStates
      <4> QED
        BY <4>1, <4>2, CapsAreNat, BoundsAssumption DEF CapBelowGuard
    <3>2. Closed(log, run[g].cur.id)
      BY <2>1, <3>1 DEF CasesFit, CaseFits, IsThrough
    <3> QED
      BY <3>2 DEF Closed, Answered
  <2>4. \A e : e.flow \in CappedFlows /\ ~run'[g].limitHit
                 /\ AccountedFor(run[g], log, e) => AccountedFor(run'[g], log', e)
    BY <2>1, <2>3 DEF AccountedFor
  <2>5. run'[g].limitHit \/ run'[g].limitHit = run[g].limitHit
    BY <2>1, <2>2
  <2> QED
    BY <2>1, <2>4, <2>5, BatchGoesOn, BatchesKept DEF Active, Grows
<1>5. ASSUME NEW g \in Goroutines, Deliver(g) PROVE BatchesFit'
  <2>1. run'[g].batch = run'[g].todo /\ Others(g) /\ log' = log
    BY <1>5, DeliverTurn
  <2>2. BatchDone(run'[g], log')
    BY <2>1 DEF BatchDone, AccountedFor
  <2> QED
    BY <2>1, <2>2, BatchesKept DEF Grows
<1>6. ASSUME NEW g \in Goroutines, Return(g) \/ StoreFails(g) PROVE BatchesFit'
  <2>1. run'[g].pc = "idle" /\ Others(g) /\ log' = log
    BY <1>6, LastTurn
  <2> QED
    BY <2>1, BatchesKept DEF BatchDone, Grows
<1>7. CASE Crash
  <2>1. \A g \in Goroutines : run'[g].pc = "idle"
    BY <1>7 DEF Crash, IdleRun
  <2> QED
    BY <2>1 DEF BatchesFit, BatchDone
<1>8. CASE UNCHANGED vars
  BY <1>8 DEF vars, BatchesFit
<1> QED
  BY <1>1, <1>2, <1>3, <1>4, <1>5, <1>6, <1>7, <1>8, NextIsStep

LEMMA InitBatchesFit == Init => BatchesFit /\ StepsFit
BY DEF Init, IdleRun, BatchesFit, BatchDone, StepsFit, StepsBounded

(* A run returns without its batchLimitHit flag only when each event of a flow *)
(* that caps touches was settled or logged as a duplicate: where the cap lies  *)
(* below the loop guard, the guard never ends such an event silently.          *)
THEOREM LimitIsReported == CapBelowGuard /\ Spec => LimitReported
<1>1. BatchesFit /\ [Next]_vars =>
        [\A g \in Goroutines :
           (Return(g) /\ ~run[g].limitHit) =>
             \A i \in DOMAIN run[g].batch :
               run[g].batch[i].flow \in CappedFlows =>
                 \E k \in DOMAIN log :
                   /\ log[k].event = run[g].batch[i].id
                   /\ (IsDuplicate(log[k]) \/ Settling(log[k]))]_vars
  BY DEF Return, BatchesFit, BatchDone, AccountedFor, Answered
<1>2. /\ CapBelowGuard /\ IInv /\ CasesFit /\ PolicyFits /\ StepsFit /\ BatchesFit /\ [Next]_vars
           => StepsFit' /\ BatchesFit'
  BY StepsFitKept, BatchesFitKept
<1>3. ASSUME CapBelowGuard PROVE Spec => LimitReported
  <2>1. /\ IInv /\ CasesFit /\ PolicyFits /\ StepsFit /\ BatchesFit /\ [Next]_vars
             => StepsFit' /\ BatchesFit'
    BY <1>2, <1>3
  <2> QED
    BY <1>1, <2>1, InitBatchesFit, PolicyInvariance, PTL DEF Spec, LimitReported
<1> QED
  BY <1>3
=============================================================================
