---------------------------- MODULE LedgerProofs ----------------------------
(***************************************************************************)
(* Theorems about the cases of Runner: what RunBatch does with an event is *)
(* what CaseLedger allows, nothing is carried out for a settled event, and *)
(* only the last outcome of a run can be missing from the log.             *)
(***************************************************************************)
EXTENDS RunnerProofs, FiniteSetTheorems

-----------------------------------------------------------------------------
(* An event's case as its rows show it.  The invariant: the case of an event *)
(* is open, in the log, for as long as its worker goes on with it.           *)
Opened(rows, id) == \E k \in DOMAIN rows : rows[k].event = id /\ ~IsDuplicate(rows[k])
Closed(rows, id) == \E k \in DOMAIN rows : rows[k].event = id /\ Settling(rows[k])

GoesFurther(r) ==
  r.pc \in {"execute", "record"} \/ (r.pc = "loop" /\ r.state \notin RunningTerminal)
IsThrough(r) ==
  r.pc = "recovery" \/ (r.pc = "loop" /\ r.state \in RunningTerminal)

CaseFits(r, rows) ==
  /\ r.step.rule # "duplicate_suppress"
  /\ r.pc \in {"execute", "record"} => r.state \notin RunningTerminal
  /\ r.pc \in {"execute", "record", "recovery", "followup"} => Opened(rows, r.cur.id)
  /\ GoesFurther(r) => ~Closed(rows, r.cur.id)
  /\ IsThrough(r) => Closed(rows, r.cur.id)

CasesFit == \A g \in Goroutines : CaseFits(run[g], log)

(* A row opens or closes the case of its own event only. *)
LEMMA AppendRows ==
  ASSUME log \in Seq(Rows), NEW row, AppendRow(row), NEW id
  PROVE  /\ Opened(log', id) <=> Opened(log, id) \/ (row.event = id /\ ~IsDuplicate(row))
         /\ Closed(log', id) <=> Closed(log, id) \/ (row.event = id /\ Settling(row))
<1>1. /\ DOMAIN log = 1..Len(log) /\ Len(log) \in Nat
      /\ DOMAIN log' = 1..Len(log) + 1
      /\ log'[Len(log) + 1] = row
      /\ \A k \in 1..Len(log) : log'[k] = log[k]
  BY DEF AppendRow
<1>2. /\ \A k \in DOMAIN log : k \in DOMAIN log' /\ log'[k] = log[k]
      /\ Len(log) + 1 \in DOMAIN log'
      /\ \A k \in DOMAIN log' : k \in DOMAIN log \/ k = Len(log) + 1
  BY <1>1
<1>3. Opened(log', id) <=> Opened(log, id) \/ (row.event = id /\ ~IsDuplicate(row))
  BY <1>1, <1>2 DEF Opened
<1>4. Closed(log', id) <=> Closed(log, id) \/ (row.event = id /\ Settling(row))
  BY <1>1, <1>2 DEF Closed
<1> QED
  BY <1>3, <1>4

(* What a step of a goroutine adds to the log: a row of the event it works on, *)
(* or one that says that an event was a duplicate.                             *)
Writes(g) ==
  \/ log' = log
  \/ \E row : AppendRow(row) /\ row.event = run[g].cur.id /\ (Working(g) \/ IsDuplicate(row))

(* The cases of the others do not notice it. *)
LEMMA OthersFit ==
  ASSUME IInv, NEW g \in Goroutines, NEW h \in Goroutines, h # g, Writes(g),
         CaseFits(run[h], log)
  PROVE  CaseFits(run[h], log')
<1>1. CASE log' = log
  BY <1>1
<1>2. CASE \E row : AppendRow(row) /\ row.event = run[g].cur.id
                    /\ (Working(g) \/ IsDuplicate(row))
  <2>1. PICK row : AppendRow(row) /\ row.event = run[g].cur.id
                   /\ (Working(g) \/ IsDuplicate(row))
    BY <1>2
  <2>2. ASSUME Working(h)
        PROVE  /\ Closed(log', run[h].cur.id) <=> Closed(log, run[h].cur.id)
               /\ Opened(log, run[h].cur.id) => Opened(log', run[h].cur.id)
    <3>1. IsDuplicate(row) \/ row.event # run[h].cur.id
      BY <2>1, <2>2 DEF IInv, OneWorker
    <3> QED
      BY <2>1, <3>1, AppendRows DEF IInv, TypeOK, Settling
  <2>3. CASE Working(h)
    BY <2>2, <2>3 DEF CaseFits
  <2>4. CASE ~Working(h)
    BY <2>4 DEF CaseFits, GoesFurther, IsThrough, Working, Holding
  <2> QED
    BY <2>3, <2>4
<1> QED
  BY <1>1, <1>2 DEF Writes

LEMMA CasesKept ==
  ASSUME IInv, CasesFit, NEW g \in Goroutines, NEW r, Becomes(g, r), Writes(g),
         CaseFits(r, log')
  PROVE  CasesFit'
<1>1. run'[g] = r /\ \A h \in Goroutines : h # g => run'[h] = run[h]
  BY DEF Becomes, IInv, TypeOK
<1>2. \A h \in Goroutines : h # g => CaseFits(run[h], log')
  BY OthersFit DEF CasesFit
<1> QED
  BY <1>1, <1>2 DEF CasesFit

-----------------------------------------------------------------------------
(* The cases step by step. *)

(* The engines leave the suppression of duplicates to the claim gate. *)
LEMMA EnginesKnowNoDuplicates ==
  ASSUME NEW flow, NEW ctx, NEW t
  PROVE  StepState(flow, ctx, t).rule # "duplicate_suppress"
<1> DEFINE in == StoppingInput(ctx)
<1>1. BaseRetryDecision(in, t).rule # "duplicate_suppress"
  BY DEF BaseRetryDecision, Fires
<1>2. DecideMandateRetry(in, t).rule # "duplicate_suppress"
  BY <1>1 DEF DecideMandateRetry, Fires
<1>3. DecideCheckoutAbandonment(in, t).rule # "duplicate_suppress"
  BY DEF DecideCheckoutAbandonment, Fires
<1>4. DecideB2BReceivables(in, t).rule # "duplicate_suppress"
  BY DEF DecideB2BReceivables, Fires
<1>5. DecidePaymentDegradation(in).rule # "duplicate_suppress"
  BY DEF DecidePaymentDegradation, Fires
<1>6. DecideHinglishVoice(in, t).rule # "duplicate_suppress"
  BY DEF DecideHinglishVoice, Fires
<1>7. DecidePromiseToPay(in, t).rule # "duplicate_suppress"
  BY DEF DecidePromiseToPay, Fires
<1>8. Fires("no_op", "none").rule # "duplicate_suppress"
  BY DEF Fires
<1> HIDE DEF in
<1>9. DecideForFlow(flow, in, t).rule # "duplicate_suppress"
  BY <1>1, <1>2, <1>3, <1>4, <1>5, <1>6, <1>7, <1>8 DEF DecideForFlow
<1> QED
  BY <1>9 DEF StepState, in

(* A step that is neither carried out nor followed up settles the event. *)
LEMMA StepSettles ==
  ASSUME NEW flow, NEW ctx, NEW t
  PROVE  LET step == StepState(flow, ctx, t)
         IN  /\ AfterDecision(step.decision) \in {"execute", "followup", "loop"}
             /\ AfterDecision(step.decision) = "loop" => step.state \in RunningTerminal
             /\ AfterDecision(step.decision) = "execute" => step.state \notin RunningTerminal
<1> DEFINE d == DecideForFlow(flow, StoppingInput(ctx), t)
<1>1. d \in Verdicts
  BY DecideType
<1> HIDE DEF d
<1>2. d.decision \in Decisions
  BY <1>1 DEF Verdicts
<1>3. /\ AfterDecision(d.decision) = "loop" => StateFor(d.decision, flow) \in RunningTerminal
      /\ AfterDecision(d.decision) = "execute" => StateFor(d.decision, flow) \notin RunningTerminal
      /\ AfterDecision(d.decision) \in {"execute", "followup", "loop"}
  BY <1>2 DEF AfterDecision, StateFor, RunningTerminal, Decisions
<1> QED
  BY <1>3 DEF StepState, d

LEMMA DecideFits ==
  ASSUME IInv, CasesFit, NEW g \in Goroutines, Decide(g)
  PROVE  CasesFit'
<1> DEFINE
      ctx == FlowContext(run[g].cur, run[g].attempt, run[g].touches[run[g].cur.customer],
                         run[g].now)
      step == StepState(run[g].cur.flow, ctx, Tunables)
      row == DecisionRow(run[g], step)
      r == [run[g] EXCEPT !.pc = AfterDecision(step.decision), !.state = step.state,
                          !.steps = @ + 1, !.used = @ + 1, !.step = step]
<1>1. /\ run[g].pc = "loop" /\ run[g].state \notin RunningTerminal
      /\ AppendRow(row) /\ Becomes(g, r)
  BY DEF Decide, MayDecide
<1>2. step.rule # "duplicate_suppress"
  BY EnginesKnowNoDuplicates
<1>3. /\ AfterDecision(step.decision) \in {"execute", "followup", "loop"}
      /\ AfterDecision(step.decision) = "loop" => step.state \in RunningTerminal
      /\ AfterDecision(step.decision) = "execute" => step.state \notin RunningTerminal
  BY StepSettles
<1> HIDE DEF step
<1>4. /\ r.pc = AfterDecision(step.decision) /\ r.state = step.state /\ r.step = step
      /\ r.cur = run[g].cur
  BY DEF IInv, TypeOK, RunStates
<1>5. row.event = run[g].cur.id /\ row.state = step.state /\ ~IsDuplicate(row)
  BY <1>2 DEF DecisionRow, Row, IsDuplicate
<1> HIDE DEF r, row
<1>6. Writes(g)
  BY <1>1, <1>5 DEF Writes, Working, Holding
<1>7. ~Closed(log, r.cur.id)
  BY <1>1, <1>4 DEF CasesFit, CaseFits, GoesFurther
<1>8. /\ Opened(log', r.cur.id)
      /\ Closed(log', r.cur.id) <=> step.state \in RunningTerminal
  BY <1>1, <1>4, <1>5, <1>7, AppendRows DEF IInv, TypeOK, Settling, Settled, RunningTerminal
<1>9. CaseFits(r, log')
  BY <1>2, <1>3, <1>4, <1>8 DEF CaseFits, GoesFurther, IsThrough
<1> QED
  BY <1>1, <1>6, <1>9, CasesKept

LEMMA RecordActionFits ==
  ASSUME IInv, CasesFit, NEW g \in Goroutines, RecordAction(g)
  PROVE  CasesFit'
<1> DEFINE row == ActionRow(run[g], run[g].attempt, run[g].recovered)
           r == [run[g] EXCEPT !.pc = IF run[g].recovered THEN "recovery" ELSE "loop",
                               !.attempt = @ + 1]
<1>1. run[g].pc = "record" /\ AppendRow(row) /\ Becomes(g, r)
  BY DEF RecordAction
<1>2. /\ run[g] \in RunStates /\ Working(g)
      /\ run[g].step.rule # "duplicate_suppress" /\ ~Closed(log, run[g].cur.id)
  BY <1>1 DEF IInv, TypeOK, Working, Holding, CasesFit, CaseFits, GoesFurther
<1>3. /\ r.pc = IF run[g].recovered THEN "recovery" ELSE "loop"
      /\ r.cur = run[g].cur /\ r.state = run[g].state /\ r.step = run[g].step
  BY <1>2 DEF RunStates
<1>4. /\ row.event = run[g].cur.id /\ ~IsDuplicate(row)
      /\ row.state \in RunningTerminal <=> run[g].recovered
  BY <1>2 DEF ActionRow, Row, IsDuplicate, RunningTerminal
<1> HIDE DEF r, row
<1>5. Writes(g)
  BY <1>1, <1>2, <1>4 DEF Writes
<1>6. Opened(log', r.cur.id) /\ (Closed(log', r.cur.id) <=> run[g].recovered)
  BY <1>1, <1>2, <1>3, <1>4, AppendRows
     DEF IInv, TypeOK, Settling, Settled, RunningTerminal
<1>7. r.state \notin RunningTerminal
  BY <1>1, <1>3 DEF CasesFit, CaseFits
<1>8. CaseFits(r, log')
  BY <1>2, <1>3, <1>6, <1>7 DEF CaseFits, GoesFurther, IsThrough
<1> QED
  BY <1>1, <1>5, <1>8, CasesKept

LEMMA RecordRecoveryFits ==
  ASSUME IInv, CasesFit, NEW g \in Goroutines, RecordRecovery(g)
  PROVE  CasesFit'
<1> DEFINE row == ActionRow(run[g], run[g].attempt - 1, TRUE)
           r == [run[g] EXCEPT !.pc = "loop", !.state = "recovered"]
<1>1. run[g].pc = "recovery" /\ AppendRow(row) /\ Becomes(g, r)
  BY DEF RecordRecovery
<1>2. /\ Working(g) /\ run[g].step.rule # "duplicate_suppress"
  BY <1>1 DEF Working, Holding, CasesFit, CaseFits
<1>3. /\ r.pc = "loop" /\ r.state = "recovered" /\ r.cur = run[g].cur /\ r.step = run[g].step
  BY DEF IInv, TypeOK, RunStates
<1>4. row.event = run[g].cur.id /\ Settling(row)
  BY DEF ActionRow, Row, IsDuplicate, Settling, Settled
<1> HIDE DEF r, row
<1>5. Writes(g)
  BY <1>1, <1>2, <1>4 DEF Writes
<1>6. Closed(log', r.cur.id)
  BY <1>1, <1>3, <1>4, AppendRows DEF IInv, TypeOK
<1>7. CaseFits(r, log')
  BY <1>2, <1>3, <1>6 DEF CaseFits, GoesFurther, IsThrough, RunningTerminal
<1> QED
  BY <1>1, <1>5, <1>7, CasesKept

(* A follow-up row settles the event. *)
LEMMA FollowUpSettles ==
  ASSUME NEW r, r.step.rule # "duplicate_suppress"
  PROVE  /\ FollowUpRow(r).event = r.cur.id
         /\ ~IsDuplicate(FollowUpRow(r))
         /\ FollowUpRow(r).state \in RunningTerminal
BY DEF FollowUpRow, Row, IsDuplicate, RunningTerminal

LEMMA RecordFollowUpFits ==
  ASSUME IInv, CasesFit, NEW g \in Goroutines, RecordFollowUp(g)
  PROVE  CasesFit'
<1> DEFINE row == FollowUpRow(run[g])
           r == [run[g] EXCEPT !.pc = "loop", !.state = row.state]
<1>1. run[g].pc = "followup" /\ AppendRow(row) /\ Becomes(g, r)
  BY DEF RecordFollowUp
<1>2. Working(g) /\ run[g].step.rule # "duplicate_suppress"
  BY <1>1 DEF Working, Holding, CasesFit, CaseFits
<1>3. row.event = run[g].cur.id /\ ~IsDuplicate(row) /\ row.state \in RunningTerminal
  BY <1>2, FollowUpSettles
<1> HIDE DEF row
<1>4. r.pc = "loop" /\ r.state = row.state /\ r.cur = run[g].cur /\ r.step = run[g].step
  BY DEF IInv, TypeOK, RunStates
<1> HIDE DEF r
<1>5. Writes(g)
  BY <1>1, <1>2, <1>3 DEF Writes
<1>6. Closed(log', r.cur.id)
  BY <1>1, <1>3, <1>4, AppendRows
     DEF IInv, TypeOK, Settling, Settled, RunningTerminal
<1>7. CaseFits(r, log')
  BY <1>2, <1>3, <1>4, <1>6 DEF CaseFits, GoesFurther, IsThrough
<1> QED
  BY <1>1, <1>5, <1>7, CasesKept

(* What the claim gate lets through has no row yet. *)
LEMMA ClaimFits ==
  ASSUME IInv, CasesFit, NEW g \in Goroutines,
         ClaimRefused(g) \/ ClaimOverLimit(g) \/ ClaimGranted(g)
  PROVE  CasesFit'
<1> DEFINE e == Head(run[g].todo)
<1>1. log' = log /\ run[g].pc = "claim" /\ run[g] \in RunStates
      /\ run[g].step.rule # "duplicate_suppress"
  BY DEF ClaimRefused, ClaimOverLimit, ClaimGranted, ClaimNext, CasesFit, CaseFits, IInv, TypeOK
<1>2. CASE ClaimRefused(g)
  <2> DEFINE r == [run[g] EXCEPT !.pc = "duplicate", !.cur = e, !.todo = Tail(@)]
  <2>1. Becomes(g, r) /\ r.pc = "duplicate" /\ r.step = run[g].step
    BY <1>1, <1>2 DEF ClaimRefused, RunStates
  <2> HIDE DEF r
  <2> QED
    BY <1>1, <2>1, CasesKept DEF CaseFits, GoesFurther, IsThrough, Writes
<1>3. CASE ClaimOverLimit(g)
  <2> DEFINE r == [run[g] EXCEPT !.todo = <<>>, !.limitHit = TRUE]
  <2>1. Becomes(g, r) /\ r.pc = "claim" /\ r.step = run[g].step
    BY <1>1, <1>3 DEF ClaimOverLimit, RunStates
  <2> HIDE DEF r
  <2> QED
    BY <1>1, <2>1, CasesKept DEF CaseFits, GoesFurther, IsThrough, Writes
<1>4. CASE ClaimGranted(g)
  <2> DEFINE r == [run[g] EXCEPT !.pc = "loop", !.cur = e, !.todo = Tail(@),
                                 !.attempt = 0, !.state = "detected", !.steps = 0]
  <2>1. /\ Becomes(g, r) /\ r.pc = "loop" /\ r.state = "detected" /\ r.cur = e
        /\ r.step = run[g].step
    BY <1>1, <1>4 DEF ClaimGranted, RunStates
  <2> HIDE DEF r
  <2>2. e.id \notin Known
    BY <1>4 DEF ClaimGranted
  <2>3. ~Closed(log, r.cur.id)
    BY <2>1, <2>2 DEF Closed, Known, IInv, LoggedIsClaimed
  <2> QED
    BY <1>1, <2>1, <2>3, CasesKept DEF CaseFits, GoesFurther, IsThrough, Writes, RunningTerminal
<1> QED
  BY <1>2, <1>3, <1>4

LEMMA IdleFits ==
  ASSUME NEW rows
  PROVE  CaseFits(IdleRun, rows)
BY DEF IdleRun, CaseFits, GoesFurther, IsThrough

(* Steps that log nothing but a duplicate, and take the case no further. *)
LEMMA OtherStepsFit ==
  ASSUME IInv, CasesFit, NEW g \in Goroutines,
         \/ Deliver(g) \/ SuppressDuplicate(g) \/ LeaveLoop(g) \/ Execute(g)
         \/ Return(g) \/ StoreFails(g)
  PROVE  CasesFit'
<1>1. run[g] \in RunStates /\ run[g].step.rule # "duplicate_suppress"
  BY DEF CasesFit, CaseFits, IInv, TypeOK
<1>2. CASE Deliver(g)
  <2>1. PICK b \in Batches, now \in Clocks :
          Becomes(g, [IdleRun EXCEPT !.pc = "claim", !.id = deliveries + 1, !.now = now,
                                     !.batch = b, !.todo = b])
    BY <1>2 DEF Deliver
  <2> DEFINE r == [IdleRun EXCEPT !.pc = "claim", !.id = deliveries + 1, !.now = now,
                                  !.batch = b, !.todo = b]
  <2>2. Becomes(g, r) /\ r.pc = "claim" /\ r.step.rule = "no_op"
    BY <2>1 DEF IdleRun
  <2> HIDE DEF r
  <2> QED
    BY <1>2, <2>2, CasesKept DEF Deliver, CaseFits, GoesFurther, IsThrough, Writes
<1>3. CASE SuppressDuplicate(g)
  <2> DEFINE r == [run[g] EXCEPT !.pc = "claim", !.cur = NoEvent]
  <2>1. Becomes(g, r) /\ r.pc = "claim" /\ r.step = run[g].step
    BY <1>1, <1>3 DEF SuppressDuplicate, RunStates
  <2> HIDE DEF r
  <2>2. Writes(g)
    BY <1>3 DEF SuppressDuplicate, Writes, DuplicateRow, Row, IsDuplicate
  <2> QED
    BY <1>1, <2>1, <2>2, CasesKept DEF CaseFits, GoesFurther, IsThrough
<1>4. CASE LeaveLoop(g)
  <2> DEFINE hit == run[g].limitHit \/ (/\ run[g].state \notin RunningTerminal
                                       /\ run[g].steps < GuardLimit)
             r == [run[g] EXCEPT !.pc = "claim", !.cur = NoEvent, !.limitHit = hit]
  <2>1. Becomes(g, r)
    BY <1>1, <1>4 DEF LeaveLoop, Becomes, RunStates
  <2> HIDE DEF hit
  <2>2. r.pc = "claim" /\ r.step = run[g].step
    BY <1>1 DEF RunStates
  <2> HIDE DEF r
  <2> QED
    BY <1>1, <1>4, <2>1, <2>2, CasesKept DEF LeaveLoop, CaseFits, GoesFurther, IsThrough, Writes
<1>5. CASE Execute(g)
  <2>1. PICK won \in ExecuteAction(run[g].cur) :
          Becomes(g, [run[g] EXCEPT !.pc = "record", !.recovered = won,
                                    !.touches[run[g].cur.customer] = @ + 1])
    BY <1>5 DEF Execute
  <2> DEFINE r == [run[g] EXCEPT !.pc = "record", !.recovered = won,
                                 !.touches[run[g].cur.customer] = @ + 1]
  <2>2. /\ Becomes(g, r) /\ r.pc = "record" /\ r.step = run[g].step /\ r.cur = run[g].cur
        /\ r.state = run[g].state
    BY <1>1, <2>1 DEF RunStates
  <2> HIDE DEF r
  <2>3. log' = log /\ run[g].pc = "execute" /\ CaseFits(run[g], log)
    BY <1>5 DEF Execute, CasesFit
  <2> QED
    BY <2>2, <2>3, CasesKept DEF CaseFits, GoesFurther, IsThrough, Writes
<1>6. CASE Return(g) \/ StoreFails(g)
  <2>1. Becomes(g, IdleRun) /\ log' = log
    BY <1>6 DEF Return, StoreFails
  <2> QED
    BY <2>1, IdleFits, CasesKept DEF Writes
<1> QED
  BY <1>2, <1>3, <1>4, <1>5, <1>6

(* What a goroutine may do, action by action. *)
LEMMA NextIsStep ==
  ASSUME [Next]_vars
  PROVE  \/ \E g \in Goroutines :
              \/ ClaimRefused(g) \/ ClaimOverLimit(g) \/ ClaimGranted(g)
              \/ Decide(g) \/ Execute(g) \/ RecordAction(g) \/ RecordRecovery(g)
              \/ RecordFollowUp(g) \/ Deliver(g) \/ SuppressDuplicate(g) \/ LeaveLoop(g)
              \/ Return(g) \/ StoreFails(g)
         \/ Crash
         \/ UNCHANGED vars
BY DEF Next, Advance, Quiescent

LEMMA CasesFitKept == IInv /\ CasesFit /\ [Next]_vars => CasesFit'
<1> SUFFICES ASSUME IInv, CasesFit, [Next]_vars PROVE CasesFit'
  OBVIOUS
<1>1. CASE Crash
  BY <1>1, IdleFits DEF Crash, CasesFit
<1>2. CASE UNCHANGED vars
  BY <1>2 DEF vars, CasesFit
<1> QED
  BY <1>1, <1>2, NextIsStep, ClaimFits, DecideFits, RecordActionFits, RecordRecoveryFits,
     RecordFollowUpFits, OtherStepsFit

LEMMA InitCasesFit == Init => CasesFit
BY IdleFits DEF Init, CasesFit

(* RunBatch's loop ends where the event is settled, and the claim gate keeps   *)
(* every other delivery of it out: nothing is carried out for an event the log *)
(* says is settled.                                                            *)
THEOREM NothingAfterSettled == Spec => NoActionAfterSettled
<1>1. CasesFit /\ [Next]_vars =>
        [\A g \in Goroutines : Execute(g) =>
           \A k \in DOMAIN log : log[k].event = run[g].cur.id => ~Settling(log[k])]_vars
  BY DEF CasesFit, CaseFits, GoesFurther, Closed, Execute
<1> QED
  BY <1>1, InitCasesFit, CasesFitKept, Invariance, PTL DEF Spec, NoActionAfterSettled

-----------------------------------------------------------------------------
(* Runs, and what they carried out.  The invariant: a run number is used once; *)
(* the actions of an event are all of the run that works on it, as many as its *)
(* attempt number says; their outcomes are logged but for the one in flight.   *)
Active(g) == run[g].pc # "idle"

RunsFit ==
  /\ deliveries \in 0..MaxDeliveries
  /\ \A g \in Goroutines : Active(g) => run[g].id \in 1..deliveries
  /\ \A g, h \in Goroutines : Active(g) /\ Active(h) /\ run[g].id = run[h].id => g = h
  /\ \A i \in DOMAIN effects : effects[i].run \in 1..deliveries

ActsOf(id) == {i \in DOMAIN effects : effects[i].ev.id = id}
Acted(r) == r.attempt + (IF r.pc = "record" THEN 1 ELSE 0)

CountsFit ==
  \A g \in Goroutines : Working(g) =>
    /\ \A i \in ActsOf(run[g].cur.id) : effects[i].run = run[g].id
    /\ Cardinality(ActsOf(run[g].cur.id)) = Acted(run[g])

Outcome(rows, id, attempt) ==
  \E k \in DOMAIN rows :
    /\ rows[k].event = id /\ rows[k].attempt = attempt
    /\ rows[k].state \in {"retrying", "contacting", "recovered"}

OutcomesFit ==
  \A g \in Goroutines : Active(g) =>
    \A i \in DOMAIN effects : effects[i].run = run[g].id =>
      \/ Outcome(log, effects[i].ev.id, effects[i].attempt)
      \/ /\ run[g].pc = "record" /\ effects[i].ev.id = run[g].cur.id
         /\ effects[i].attempt = run[g].attempt

ActsFit == RunsFit /\ CountsFit /\ OutcomesFit /\ OnlyLastOutcomeMissing

(* The rows of a log that grows stay. *)
Grows == log' = log \/ \E row : AppendRow(row)

LEMMA OutcomeStays ==
  ASSUME log \in Seq(Rows), Grows, NEW id, NEW attempt, Outcome(log, id, attempt)
  PROVE  Outcome(log', id, attempt)
<1>1. ASSUME NEW row, log' = Append(log, row)
      PROVE  \A k \in DOMAIN log : k \in DOMAIN log' /\ log'[k] = log[k]
  BY <1>1
<1>2. \A k \in DOMAIN log : k \in DOMAIN log' /\ log'[k] = log[k]
  BY <1>1 DEF Grows, AppendRow
<1> QED
  BY <1>2 DEF Outcome

(* A goroutine that goes on with its run, or drops it, and carries nothing out. *)
Carries(g, r) ==
  \/ r.pc \in {"idle", "claim", "duplicate"}
  \/ r.pc # "record" /\ r.attempt = 0 /\ ActsOf(r.cur.id) = {}
  \/ Working(g) /\ r.cur = run[g].cur /\ Acted(r) = Acted(run[g])

LEMMA ActsKept ==
  ASSUME IInv, ActsFit, NEW g \in Goroutines, NEW r, Becomes(g, r), Grows,
         UNCHANGED <<effects, deliveries>>,
         r.pc = "idle" \/ (Active(g) /\ r.id = run[g].id),
         r.pc # "record", r.attempt \in Nat, Carries(g, r),
         run[g].pc = "record" /\ r.pc # "idle" =>
           Outcome(log', run[g].cur.id, run[g].attempt)
  PROVE  ActsFit'
<1>1. run'[g] = r /\ \A h \in Goroutines : h # g => run'[h] = run[h]
  BY DEF Becomes, IInv, TypeOK
<1>2. \A id, attempt : Outcome(log, id, attempt) => Outcome(log', id, attempt)
  BY OutcomeStays DEF IInv, TypeOK
<1>3. RunsFit'
  <2>1. \A h \in Goroutines : Active(h)' => Active(h) /\ run'[h].id = run[h].id
    BY <1>1 DEF Active
  <2> QED
    BY <2>1 DEF ActsFit, RunsFit
<1>4. CountsFit'
  <2> SUFFICES ASSUME NEW h \in Goroutines, Working(h)'
               PROVE  /\ \A i \in ActsOf(run'[h].cur.id) : effects[i].run = run'[h].id
                      /\ Cardinality(ActsOf(run'[h].cur.id)) = Acted(run'[h])
    BY DEF CountsFit, ActsOf
  <2>1. CASE h # g
    BY <1>1, <2>1 DEF ActsFit, CountsFit, Working, Holding
  <2>2. CASE h = g /\ r.pc # "record" /\ r.attempt = 0 /\ ActsOf(r.cur.id) = {}
    BY <1>1, <2>2, FS_EmptySet DEF Acted
  <2>3. CASE h = g /\ Working(g) /\ r.cur = run[g].cur /\ Acted(r) = Acted(run[g])
    BY <1>1, <2>3 DEF ActsFit, CountsFit, Working, Holding
  <2> QED
    BY <1>1, <2>1, <2>2, <2>3 DEF Carries, Working, Holding
<1>5. OutcomesFit'
  <2> SUFFICES ASSUME NEW h \in Goroutines, Active(h)', NEW i \in DOMAIN effects,
                      effects[i].run = run'[h].id
               PROVE  \/ Outcome(log', effects[i].ev.id, effects[i].attempt)
                      \/ /\ run'[h].pc = "record" /\ effects[i].ev.id = run'[h].cur.id
                         /\ effects[i].attempt = run'[h].attempt
    BY DEF OutcomesFit
  <2>1. Active(h) /\ run'[h].id = run[h].id
    BY <1>1 DEF Active
  <2>2. \/ Outcome(log, effects[i].ev.id, effects[i].attempt)
        \/ /\ run[h].pc = "record" /\ effects[i].ev.id = run[h].cur.id
           /\ effects[i].attempt = run[h].attempt
    BY <2>1 DEF ActsFit, OutcomesFit
  <2> QED
    BY <1>1, <1>2, <2>2 DEF Active
<1>6. OnlyLastOutcomeMissing'
  <2>1. \A e : Recorded(e) => Recorded(e)'
    BY <1>2 DEF Recorded, Outcome
  <2> QED
    BY <2>1 DEF ActsFit, OnlyLastOutcomeMissing
<1> QED
  BY <1>3, <1>4, <1>5, <1>6 DEF ActsFit

LEMMA AttemptsAreNat ==
  ASSUME IInv, NEW g \in Goroutines
  PROVE  run[g] \in RunStates /\ run[g].attempt \in Nat
BY DEF IInv, TypeOK, RunStates

LEMMA ClaimActs ==
  ASSUME IInv, ActsFit, NEW g \in Goroutines,
         ClaimRefused(g) \/ ClaimOverLimit(g) \/ ClaimGranted(g)
  PROVE  ActsFit'
<1> DEFINE e == Head(run[g].todo)
<1>1. /\ Grows /\ UNCHANGED <<effects, deliveries>> /\ run[g].pc = "claim" /\ Active(g)
      /\ run[g] \in RunStates /\ run[g].attempt \in Nat
  BY AttemptsAreNat
     DEF ClaimRefused, ClaimOverLimit, ClaimGranted, ClaimNext, Grows, Active, bounds
<1>2. CASE ClaimRefused(g)
  <2> DEFINE r == [run[g] EXCEPT !.pc = "duplicate", !.cur = e, !.todo = Tail(@)]
  <2>1. /\ Becomes(g, r) /\ r.pc = "duplicate" /\ r.id = run[g].id
        /\ r.attempt = run[g].attempt
    BY <1>1, <1>2 DEF ClaimRefused, RunStates
  <2> HIDE DEF r
  <2> QED
    BY <1>1, <2>1, ActsKept DEF Carries
<1>3. CASE ClaimOverLimit(g)
  <2> DEFINE r == [run[g] EXCEPT !.todo = <<>>, !.limitHit = TRUE]
  <2>1. Becomes(g, r) /\ r.pc = "claim" /\ r.id = run[g].id /\ r.attempt = run[g].attempt
    BY <1>1, <1>3 DEF ClaimOverLimit, RunStates
  <2> HIDE DEF r
  <2> QED
    BY <1>1, <2>1, ActsKept DEF Carries
<1>4. CASE ClaimGranted(g)
  <2> DEFINE r == [run[g] EXCEPT !.pc = "loop", !.cur = e, !.todo = Tail(@),
                                 !.attempt = 0, !.state = "detected", !.steps = 0]
  <2>1. /\ Becomes(g, r) /\ r.pc = "loop" /\ r.cur = e /\ r.attempt = 0
        /\ r.id = run[g].id
    BY <1>1, <1>4 DEF ClaimGranted, RunStates
  <2> HIDE DEF r
  <2>2. e.id \notin Known
    BY <1>4 DEF ClaimGranted
  <2>3. \A i \in DOMAIN effects : effects[i].ev.id \in Known
    BY DEF IInv, AuditBeforeAction, LoggedIsClaimed, Known
  <2>4. ActsOf(r.cur.id) = {}
    BY <2>1, <2>2, <2>3 DEF ActsOf
  <2> QED
    BY <1>1, <2>1, <2>4, ActsKept DEF Carries
<1> QED
  BY <1>2, <1>3, <1>4

LEMMA LoopActs ==
  ASSUME IInv, ActsFit, NEW g \in Goroutines,
         Decide(g) \/ RecordRecovery(g) \/ RecordFollowUp(g)
  PROVE  ActsFit'
<1>1. run[g] \in RunStates /\ run[g].attempt \in Nat
  BY AttemptsAreNat
<1>2. /\ Grows /\ UNCHANGED <<effects, deliveries>> /\ run[g].pc # "record"
      /\ Active(g) /\ Working(g)
  BY DEF Decide, MayDecide, RecordRecovery, RecordFollowUp, Grows, Active, Working, Holding, bounds
<1>3. \E r : /\ Becomes(g, r) /\ r.pc \notin {"idle", "claim", "duplicate", "record"}
             /\ r.cur = run[g].cur /\ r.id = run[g].id /\ r.attempt = run[g].attempt
  <2>1. CASE Decide(g)
    <3> DEFINE
          ctx == FlowContext(run[g].cur, run[g].attempt, run[g].touches[run[g].cur.customer],
                             run[g].now)
          step == StepState(run[g].cur.flow, ctx, Tunables)
          r == [run[g] EXCEPT !.pc = AfterDecision(step.decision), !.state = step.state,
                              !.steps = @ + 1, !.used = @ + 1, !.step = step]
    <3>1. Becomes(g, r)
      BY <2>1 DEF Decide
    <3>2. AfterDecision(step.decision) \in {"execute", "followup", "loop"}
      BY AfterDecisionType
    <3> HIDE DEF step
    <3>3. /\ r.pc \notin {"idle", "claim", "duplicate", "record"}
          /\ r.cur = run[g].cur /\ r.id = run[g].id /\ r.attempt = run[g].attempt
      BY <1>1, <3>2 DEF RunStates
    <3> QED
      BY <3>1, <3>3
  <2>2. CASE RecordRecovery(g)
    <3> DEFINE r == [run[g] EXCEPT !.pc = "loop", !.state = "recovered"]
    <3>1. /\ Becomes(g, r) /\ r.pc = "loop"
          /\ r.cur = run[g].cur /\ r.id = run[g].id /\ r.attempt = run[g].attempt
      BY <1>1, <2>2 DEF RecordRecovery, RunStates
    <3> QED
      BY <3>1
  <2>3. CASE RecordFollowUp(g)
    <3> DEFINE s == FollowUpRow(run[g]).state
               r == [run[g] EXCEPT !.pc = "loop", !.state = s]
    <3>1. Becomes(g, r)
      BY <2>3 DEF RecordFollowUp
    <3> HIDE DEF s
    <3>2. /\ r.pc = "loop"
          /\ r.cur = run[g].cur /\ r.id = run[g].id /\ r.attempt = run[g].attempt
      BY <1>1 DEF RunStates
    <3> QED
      BY <3>1, <3>2
  <2> QED
    BY <2>1, <2>2, <2>3
<1>4. PICK r : /\ Becomes(g, r) /\ r.pc \notin {"idle", "claim", "duplicate", "record"}
               /\ r.cur = run[g].cur /\ r.id = run[g].id /\ r.attempt = run[g].attempt
  BY <1>3
<1> QED
  BY <1>1, <1>2, <1>4, ActsKept DEF Carries, Acted

(* The attempt is counted where its outcome is logged. *)
LEMMA RecordActionActs ==
  ASSUME IInv, ActsFit, NEW g \in Goroutines, RecordAction(g)
  PROVE  ActsFit'
<1> DEFINE row == ActionRow(run[g], run[g].attempt, run[g].recovered)
           r == [run[g] EXCEPT !.pc = IF run[g].recovered THEN "recovery" ELSE "loop",
                               !.attempt = @ + 1]
<1>1. /\ run[g].pc = "record" /\ AppendRow(row) /\ Becomes(g, r)
      /\ UNCHANGED <<effects, deliveries>>
  BY DEF RecordAction, bounds
<1>2. run[g] \in RunStates /\ run[g].attempt \in Nat /\ Active(g) /\ Working(g)
  BY <1>1, AttemptsAreNat DEF Active, Working, Holding
<1>3. /\ r.pc \in {"recovery", "loop"} /\ r.cur = run[g].cur /\ r.id = run[g].id
      /\ r.attempt = run[g].attempt + 1
  BY <1>2 DEF RunStates
<1>4. /\ row.event = run[g].cur.id /\ row.attempt = run[g].attempt
      /\ row.state \in {"retrying", "contacting", "recovered"}
  BY DEF ActionRow, Row
<1> HIDE DEF r, row
<1>5. Outcome(log', run[g].cur.id, run[g].attempt)
  <2>1. Len(log) + 1 \in DOMAIN log' /\ log'[Len(log) + 1] = row
    BY <1>1 DEF AppendRow, IInv, TypeOK
  <2> QED
    BY <1>4, <2>1 DEF Outcome
<1>6. Acted(r) = Acted(run[g]) /\ r.attempt \in Nat
  BY <1>1, <1>2, <1>3 DEF Acted
<1> QED
  BY <1>1, <1>2, <1>3, <1>5, <1>6, ActsKept DEF Carries, Grows

LEMMA LettingGoActs ==
  ASSUME IInv, ActsFit, NEW g \in Goroutines,
         SuppressDuplicate(g) \/ LeaveLoop(g) \/ Return(g) \/ StoreFails(g)
  PROVE  ActsFit'
<1>1. run[g] \in RunStates /\ run[g].attempt \in Nat
  BY AttemptsAreNat
<1>2. Grows /\ UNCHANGED <<effects, deliveries>>
  BY DEF SuppressDuplicate, LeaveLoop, Return, StoreFails, Grows, bounds
<1>3. CASE SuppressDuplicate(g)
  <2> DEFINE r == [run[g] EXCEPT !.pc = "claim", !.cur = NoEvent]
  <2>1. /\ Becomes(g, r) /\ r.pc = "claim" /\ r.id = run[g].id /\ r.attempt = run[g].attempt
        /\ run[g].pc = "duplicate"
    BY <1>1, <1>3 DEF SuppressDuplicate, RunStates
  <2> HIDE DEF r
  <2> QED
    BY <1>1, <1>2, <2>1, ActsKept DEF Carries, Active
<1>4. CASE LeaveLoop(g)
  <2> DEFINE hit == run[g].limitHit \/ (/\ run[g].state \notin RunningTerminal
                                       /\ run[g].steps < GuardLimit)
             r == [run[g] EXCEPT !.pc = "claim", !.cur = NoEvent, !.limitHit = hit]
  <2>1. Becomes(g, r) /\ run[g].pc = "loop"
    BY <1>1, <1>4 DEF LeaveLoop, Becomes, RunStates
  <2> HIDE DEF hit
  <2>2. r.pc = "claim" /\ r.id = run[g].id /\ r.attempt = run[g].attempt
    BY <1>1 DEF RunStates
  <2> HIDE DEF r
  <2> QED
    BY <1>1, <1>2, <2>1, <2>2, ActsKept DEF Carries, Active
<1>5. CASE Return(g) \/ StoreFails(g)
  <2>1. Becomes(g, IdleRun)
    BY <1>5 DEF Return, StoreFails
  <2>2. IdleRun.pc = "idle" /\ IdleRun.attempt = 0
    BY DEF IdleRun
  <2> QED
    BY <1>2, <2>1, <2>2, ActsKept DEF Carries
<1> QED
  BY <1>3, <1>4, <1>5

(* A delivery gets a number no run had. *)
LEMMA DeliverActs ==
  ASSUME IInv, ActsFit, NEW g \in Goroutines, Deliver(g)
  PROVE  ActsFit'
<1>1. PICK b \in Batches, now \in Clocks :
        Becomes(g, [IdleRun EXCEPT !.pc = "claim", !.id = deliveries + 1, !.now = now,
                                   !.batch = b, !.todo = b])
  BY DEF Deliver
<1> DEFINE r == [IdleRun EXCEPT !.pc = "claim", !.id = deliveries + 1, !.now = now,
                                !.batch = b, !.todo = b]
<1>2. /\ run'[g] = r /\ \A h \in Goroutines : h # g => run'[h] = run[h]
      /\ r.pc = "claim" /\ r.id = deliveries + 1
  BY <1>1 DEF Becomes, IInv, TypeOK, IdleRun
<1> HIDE DEF r
<1>3. /\ log' = log /\ effects' = effects /\ deliveries' = deliveries + 1
      /\ deliveries \in Nat /\ deliveries < MaxDeliveries
  BY DEF Deliver, IInv, TypeOK
<1>4. RunsFit'
  <2>1. deliveries' \in 0..MaxDeliveries
    BY <1>3, BoundsAssumption
  <2>2. \A h \in Goroutines : h # g /\ Active(h)' =>
          Active(h) /\ run'[h].id = run[h].id /\ run[h].id \in 1..deliveries
    BY <1>2 DEF Active, ActsFit, RunsFit
  <2>3. \A i \in DOMAIN effects : effects[i].run \in 1..deliveries
    BY DEF ActsFit, RunsFit
  <2>4. 1..deliveries \subseteq 1..deliveries' /\ deliveries + 1 \in 1..deliveries'
        /\ deliveries + 1 \notin 1..deliveries
    BY <1>3
  <2>5. \A h, k \in Goroutines : Active(h)' /\ Active(k)' /\ run'[h].id = run'[k].id => h = k
    BY <1>2, <2>2, <2>4 DEF ActsFit, RunsFit
  <2>6. \A h \in Goroutines : Active(h)' => run'[h].id \in 1..deliveries'
    BY <1>2, <2>2, <2>4
  <2>7. \A i \in DOMAIN effects' : effects'[i].run \in 1..deliveries'
    BY <1>3, <2>3, <2>4
  <2> QED
    BY <2>1, <2>5, <2>6, <2>7 DEF RunsFit
<1>5. CountsFit'
  BY <1>2, <1>3 DEF ActsFit, CountsFit, Working, Holding, ActsOf
<1>6. OutcomesFit'
  <2>1. \A i \in DOMAIN effects : effects[i].run # run'[g].id
    BY <1>2, <1>3 DEF ActsFit, RunsFit
  <2> QED
    BY <1>2, <1>3, <2>1 DEF ActsFit, OutcomesFit, Active
<1>7. OnlyLastOutcomeMissing'
  BY <1>3 DEF ActsFit, OnlyLastOutcomeMissing, Recorded
<1> QED
  BY <1>4, <1>5, <1>6, <1>7 DEF ActsFit

LEMMA ExecuteActs ==
  ASSUME IInv, ActsFit, NEW g \in Goroutines, Execute(g)
  PROVE  ActsFit'
<1> DEFINE e == run[g].cur
           done == [ev |-> e, attempt |-> run[g].attempt, run |-> run[g].id,
                    now |-> run[g].now]
           n == Len(effects) + 1
<1>1. run[g].pc = "execute" /\ effects' = Append(effects, done) /\ UNCHANGED <<log, deliveries>>
  BY DEF Execute, bounds
<1>2. /\ run[g] \in RunStates /\ run[g].attempt \in Nat /\ Active(g) /\ Working(g)
  BY <1>1, AttemptsAreNat DEF Active, Working, Holding
<1>3. PICK won \in ExecuteAction(e) :
        Becomes(g, [run[g] EXCEPT !.pc = "record", !.recovered = won,
                                  !.touches[e.customer] = @ + 1])
  BY DEF Execute
<1> DEFINE r == [run[g] EXCEPT !.pc = "record", !.recovered = won,
                               !.touches[e.customer] = @ + 1]
<1>4. /\ r.pc = "record" /\ r.cur = e /\ r.attempt = run[g].attempt /\ r.id = run[g].id
      /\ Becomes(g, r)
  BY <1>2, <1>3 DEF RunStates
<1> HIDE DEF r
<1>5. run'[g] = r /\ \A h \in Goroutines : h # g => run'[h] = run[h]
  BY <1>4 DEF Becomes, IInv, TypeOK
<1>6. done.ev = e /\ done.attempt = run[g].attempt /\ done.run = run[g].id
  OBVIOUS
<1> HIDE DEF done
<1>7. /\ DOMAIN effects = 1..Len(effects) /\ Len(effects) \in Nat
      /\ DOMAIN effects' = DOMAIN effects \cup {n} /\ n \notin DOMAIN effects
      /\ \A i \in DOMAIN effects : effects'[i] = effects[i]
      /\ effects'[n] = done
  BY <1>1 DEF IInv, TypeOK
<1> HIDE DEF n
<1>8. /\ \A h \in Goroutines : Active(h)' <=> Active(h)
      /\ \A h \in Goroutines : run'[h].id = run[h].id
  BY <1>2, <1>4, <1>5 DEF Active
<1>9. RunsFit'
  BY <1>1, <1>2, <1>6, <1>7, <1>8 DEF ActsFit, RunsFit
<1>10. CountsFit'
  <2> DEFINE ActsNow(id) == {i \in DOMAIN effects' : effects'[i].ev.id = id}
  <2> SUFFICES ASSUME NEW h \in Goroutines, Working(h)'
               PROVE  /\ \A i \in ActsNow(run'[h].cur.id) : effects'[i].run = run'[h].id
                      /\ Cardinality(ActsNow(run'[h].cur.id)) = Acted(run'[h])
    BY DEF CountsFit, ActsOf, Acted
  <2>1. CASE h = g
    <3>1. ActsNow(run'[h].cur.id) = ActsOf(e.id) \cup {n} /\ n \notin ActsOf(e.id)
      BY <1>4, <1>5, <1>6, <1>7, <2>1 DEF ActsOf
    <3>2. /\ \A i \in ActsOf(e.id) : effects[i].run = run[g].id
          /\ Cardinality(ActsOf(e.id)) = run[g].attempt
      BY <1>1, <1>2 DEF ActsFit, CountsFit, Acted
    <3>3. IsFiniteSet(ActsOf(e.id))
      <4>1. IsFiniteSet(DOMAIN effects)
        <5>1. 1 \in Int /\ Len(effects) \in Int
          BY <1>7
        <5> QED
          BY <1>7, <5>1, FS_Interval
      <4> QED
        BY <4>1, FS_Subset DEF ActsOf
    <3>4. Cardinality(ActsOf(e.id) \cup {n}) = Cardinality(ActsOf(e.id)) + 1
      BY <3>1, <3>3, FS_AddElement
    <3>5. Acted(run'[h]) = run[g].attempt + 1
      BY <1>4, <1>5, <2>1 DEF Acted
    <3>6. \A i \in ActsOf(e.id) : i \in DOMAIN effects
      BY DEF ActsOf
    <3> QED
      BY <1>4, <1>5, <1>6, <1>7, <2>1, <3>1, <3>2, <3>4, <3>5, <3>6
  <2>2. CASE h # g
    <3>1. Working(h) /\ run'[h] = run[h] /\ run[h].cur.id # e.id
      BY <1>2, <1>5, <2>2 DEF IInv, OneWorker, Working, Holding
    <3>2. ActsNow(run'[h].cur.id) = ActsOf(run[h].cur.id)
      BY <1>6, <1>7, <3>1 DEF ActsOf
    <3> QED
      BY <1>7, <3>1, <3>2 DEF ActsFit, CountsFit, ActsOf
  <2> QED
    BY <2>1, <2>2
<1>11. \A i \in DOMAIN effects : effects[i].run = run[g].id =>
         Outcome(log, effects[i].ev.id, effects[i].attempt)
  BY <1>1, <1>2 DEF ActsFit, OutcomesFit
<1>12. OutcomesFit'
  <2> SUFFICES ASSUME NEW h \in Goroutines, Active(h)', NEW i \in DOMAIN effects',
                      effects'[i].run = run'[h].id
               PROVE  \/ Outcome(log', effects'[i].ev.id, effects'[i].attempt)
                      \/ /\ run'[h].pc = "record" /\ effects'[i].ev.id = run'[h].cur.id
                         /\ effects'[i].attempt = run'[h].attempt
    BY DEF OutcomesFit
  <2>1. CASE i = n
    <3>1. h = g
      BY <1>2, <1>6, <1>7, <1>8, <2>1 DEF ActsFit, RunsFit
    <3> QED
      BY <1>4, <1>5, <1>6, <1>7, <2>1, <3>1
  <2>2. CASE i # n /\ h = g
    BY <1>1, <1>7, <1>8, <1>11, <2>2
  <2>3. CASE i # n /\ h # g
    BY <1>1, <1>5, <1>7, <1>8, <2>3 DEF ActsFit, OutcomesFit
  <2> QED
    BY <2>1, <2>2, <2>3
<1>13. OnlyLastOutcomeMissing'
  <2> SUFFICES ASSUME NEW i \in DOMAIN effects', NEW j \in DOMAIN effects',
                      i < j, effects'[i].run = effects'[j].run
               PROVE  Outcome(log', effects'[i].ev.id, effects'[i].attempt)
    BY DEF OnlyLastOutcomeMissing, Recorded, Outcome
  <2>1. i \in DOMAIN effects
    BY <1>7 DEF n
  <2>2. CASE j = n
    BY <1>1, <1>6, <1>7, <1>11, <2>1, <2>2
  <2>3. CASE j # n
    BY <1>1, <1>7, <2>1, <2>3 DEF ActsFit, OnlyLastOutcomeMissing, Recorded, Outcome
  <2> QED
    BY <2>2, <2>3
<1> QED
  BY <1>9, <1>10, <1>12, <1>13 DEF ActsFit

LEMMA ActsFitKept == IInv /\ ActsFit /\ [Next]_vars => ActsFit'
<1> SUFFICES ASSUME IInv, ActsFit, [Next]_vars PROVE ActsFit'
  OBVIOUS
<1>1. CASE Crash
  <2>1. /\ UNCHANGED <<log, effects, deliveries>>
        /\ \A g \in Goroutines : run'[g] = IdleRun /\ ~Active(g)' /\ ~Working(g)'
    BY <1>1 DEF Crash, Active, Working, Holding, IdleRun
  <2> QED
    BY <2>1 DEF ActsFit, RunsFit, CountsFit, OutcomesFit, OnlyLastOutcomeMissing, Recorded
<1>2. CASE UNCHANGED vars
  BY <1>2 DEF vars, ActsFit, RunsFit, CountsFit, OutcomesFit, OnlyLastOutcomeMissing, Recorded,
              Active, Working, Holding, ActsOf, Acted, Outcome
<1> QED
  BY <1>1, <1>2, NextIsStep, ClaimActs, LoopActs, RecordActionActs, LettingGoActs,
     DeliverActs, ExecuteActs

LEMMA InitActsFit == Init => ActsFit
<1> SUFFICES ASSUME Init PROVE ActsFit
  OBVIOUS
<1>1. \A g \in Goroutines : ~Active(g) /\ ~Working(g)
  BY DEF Init, IdleRun, Active, Working, Holding
<1>2. DOMAIN effects = {} /\ deliveries \in 0..MaxDeliveries
  BY BoundsAssumption DEF Init
<1> QED
  BY <1>1, <1>2 DEF ActsFit, RunsFit, CountsFit, OutcomesFit, OnlyLastOutcomeMissing

(* A run goes on only after it has logged what the last action led to: with   *)
(* crashes and failing appends anywhere, the log can miss the outcome of the  *)
(* last action of a run and of no other.                                      *)
THEOREM MissesOnlyLastOutcome == Spec => []OnlyLastOutcomeMissing
<1>1. ActsFit => OnlyLastOutcomeMissing
  BY DEF ActsFit
<1> QED
  BY <1>1, InitActsFit, ActsFitKept, Invariance, PTL DEF Spec

-----------------------------------------------------------------------------
(* Runner implements CaseLedger. *)

Standing(rows, id) ==
  IF Opened(rows, id) THEN IF Closed(rows, id) THEN "closed" ELSE "open" ELSE "new"

LEMMA StatusIsStanding ==
  ASSUME NEW id
  PROVE  CaseStatus(id) = Standing(log, id) /\ CaseStatus(id)' = Standing(log', id)
<1> DEFINE Of(rows) == {k \in DOMAIN rows : rows[k].event = id /\ ~IsDuplicate(rows[k])}
           Read(rows) == IF Of(rows) = {} THEN "new"
                         ELSE IF \E k \in Of(rows) : Settling(rows[k]) THEN "closed" ELSE "open"
<1>1. CaseStatus(id) = Read(log) /\ CaseStatus(id)' = Read(log')
  BY DEF CaseStatus, IsDuplicate, Settling
<1>2. ASSUME NEW rows
      PROVE  Read(rows) = Standing(rows, id)
  <2>1. Of(rows) = {} <=> ~Opened(rows, id)
    BY DEF Opened
  <2>2. (\E k \in Of(rows) : Settling(rows[k])) <=> Closed(rows, id)
    BY DEF Closed, Settling
  <2> HIDE DEF Of
  <2> QED
    BY <2>1, <2>2 DEF Standing
<1> QED
  BY <1>1, <1>2

(* The mapped variables of CaseLedger. *)
Status == [id \in EventIds |-> CaseStatus(id)]
Done == [i \in DOMAIN effects |-> [event |-> effects[i].ev.id, attempt |-> effects[i].attempt,
                                   run |-> effects[i].run]]

LEMMA StandingStays ==
  ASSUME \A id \in EventIds : Standing(log', id) = Standing(log, id), effects' = effects
  PROVE  UNCHANGED Ledger!vars
<1>1. Status' = Status
  BY StatusIsStanding DEF Status
<1>2. Done' = Done
  BY DEF Done
<1> QED
  BY <1>1, <1>2 DEF Ledger!vars, Status, Done

(* Whatever row is appended: its event's case is opened, closed or stays as it *)
(* was, and no case is opened again.                                           *)
LEMMA RowMovesCase ==
  ASSUME log \in Seq(Rows), NEW row, AppendRow(row), row.event \in EventIds, effects' = effects
  PROVE  [Ledger!Next]_(Ledger!vars)
<1> DEFINE e == row.event
<1>1. \A id : id # e => Standing(log', id) = Standing(log, id)
  BY AppendRows DEF Standing
<1>2. \/ Standing(log', e) = Standing(log, e)
      \/ Standing(log, e) = "new" /\ Standing(log', e) = "open"
      \/ Standing(log, e) # "closed" /\ Standing(log', e) = "closed"
  <2>1. Closed(log, e) => Opened(log, e)
    BY DEF Closed, Opened, Settling
  <2> QED
    BY <2>1, AppendRows DEF Standing, Settling
<1>3. CASE Standing(log', e) = Standing(log, e)
  BY <1>1, <1>3, StandingStays
<1>4. ASSUME NEW s, Standing(log', e) = s
      PROVE  Status' = [Status EXCEPT ![e] = s]
  BY <1>1, <1>4, StatusIsStanding DEF Status
<1>5. Status[e] = Standing(log, e) /\ Done' = Done
  BY StatusIsStanding DEF Status, Done
<1>6. CASE Standing(log, e) = "new" /\ Standing(log', e) = "open"
  <2>1. Ledger!Open(e)
    BY <1>4, <1>5, <1>6 DEF Ledger!Open, Status, Done
  <2> QED
    BY <2>1 DEF Ledger!Next
<1>7. CASE Standing(log, e) # "closed" /\ Standing(log', e) = "closed"
  <2>1. Ledger!Close(e)
    BY <1>4, <1>5, <1>7 DEF Ledger!Close, Status, Done
  <2> QED
    BY <2>1 DEF Ledger!Next
<1> QED
  BY <1>2, <1>3, <1>6, <1>7

LEMMA ExecuteActsOnCase ==
  ASSUME IInv, CasesFit, ActsFit, NEW g \in Goroutines, Execute(g),
         NEW e, NEW r, e = run[g].cur.id, r = run[g].id
  PROVE  /\ e \in EventIds /\ r \in 1..MaxDeliveries
         /\ Ledger!Act(e, r)
<1> DEFINE act == [ev |-> run[g].cur, attempt |-> run[g].attempt, run |-> run[g].id,
                   now |-> run[g].now]
           entry == [event |-> e, attempt |-> run[g].attempt, run |-> r]
<1>1. /\ run[g].pc = "execute" /\ effects' = Append(effects, act) /\ log' = log
      /\ Working(g) /\ Active(g)
  BY DEF Execute, Working, Holding, Active
<1>2. e \in EventIds /\ r \in 1..MaxDeliveries /\ run[g].attempt \in Nat
  <2>1. e \in EventIds
    BY <1>1, EventsAssumption DEF IInv, TypeOK
  <2>2. r \in 1..MaxDeliveries
    BY <1>1, BoundsAssumption DEF ActsFit, RunsFit
  <2> QED
    BY <2>1, <2>2, AttemptsAreNat
<1>3. Status[e] = "open"
  <2>1. Opened(log, e) /\ ~Closed(log, e)
    BY <1>1 DEF CasesFit, CaseFits, GoesFurther
  <2> QED
    BY <1>2, <2>1, StatusIsStanding DEF Status, Standing
<1>4. Status' = Status
  BY <1>1, StatusIsStanding DEF Status
<1>5. /\ \A i \in ActsOf(e) : effects[i].run = r
      /\ Cardinality(ActsOf(e)) = run[g].attempt
  BY <1>1, <1>2 DEF ActsFit, CountsFit, Acted
<1>6. Ledger!Of(e) = ActsOf(e)
  BY DEF Ledger!Of, ActsOf
<1>7. Done' = Append(Done, entry)
  <2>1. act.ev.id = e /\ act.attempt = run[g].attempt /\ act.run = r
    OBVIOUS
  <2> HIDE DEF act
  <2>2. /\ DOMAIN effects = 1..Len(effects) /\ Len(effects) \in Nat
        /\ DOMAIN effects' = 1..Len(effects) + 1
        /\ \A i \in 1..Len(effects) : effects'[i] = effects[i]
        /\ effects'[Len(effects) + 1] = act
    BY <1>1 DEF IInv, TypeOK
  <2> DEFINE Entry(a) == [event |-> a.ev.id, attempt |-> a.attempt, run |-> a.run]
             old == [i \in 1..Len(effects) |-> Entry(effects[i])]
             new == [i \in 1..Len(effects) + 1 |-> Entry(effects'[i])]
  <2>3. Done = old /\ Done' = new
    BY <2>2 DEF Done
  <2>4. Entry(act) = entry
    BY <2>1
  <2> HIDE DEF Entry, entry
  <2>5. old \in Seq({Entry(effects[i]) : i \in 1..Len(effects)}) /\ Len(old) = Len(effects)
    BY <2>2
  <2>6. new = Append(old, entry)
    BY <2>2, <2>4, <2>5
  <2> QED
    BY <2>3, <2>6
<1>8. \A i \in Ledger!Of(e) : Done[i].run = r
  BY <1>5, <1>6 DEF Done, ActsOf
<1>9. entry = [event |-> e, attempt |-> Cardinality(Ledger!Of(e)), run |-> r]
  BY <1>5, <1>6
<1> HIDE DEF act, entry
<1>10. Ledger!Act(e, r)
  <2>1. SUFFICES /\ Status[e] = "open" /\ \A i \in Ledger!Of(e) : Done[i].run = r
                 /\ Done' = Append(Done, [event |-> e, attempt |-> Cardinality(Ledger!Of(e)),
                                          run |-> r])
                 /\ UNCHANGED Status
    <3>1. Cardinality(Ledger!Of(e)) = Ledger!Cardinality(Ledger!Of(e))
      BY DEF Cardinality, Ledger!Cardinality
    <3> QED
      BY <3>1 DEF Ledger!Act, Status, Done
  <2> QED
    BY <1>3, <1>4, <1>7, <1>8, <1>9
<1> QED
  BY <1>2, <1>10

(* Apart from carrying out an action, a step appends a row of an event or none. *)
LEMMA RowsAreOfEvents ==
  ASSUME IInv, NEW g \in Goroutines,
         \/ Decide(g) \/ RecordAction(g) \/ RecordRecovery(g) \/ RecordFollowUp(g)
         \/ SuppressDuplicate(g)
  PROVE  /\ effects' = effects
         /\ \E row : AppendRow(row) /\ row.event \in EventIds
<1>1. run[g].cur.id \in EventIds /\ effects' = effects
  BY EventsAssumption
     DEF IInv, TypeOK, Decide, MayDecide, RecordAction, RecordRecovery, RecordFollowUp,
         SuppressDuplicate
<1>2. /\ \A step : DecisionRow(run[g], step).event = run[g].cur.id
      /\ \A n, won : ActionRow(run[g], n, won).event = run[g].cur.id
      /\ FollowUpRow(run[g]).event = run[g].cur.id
      /\ DuplicateRow(run[g]).event = run[g].cur.id
  BY DEF DecisionRow, ActionRow, FollowUpRow, DuplicateRow, Row
<1>3. CASE Decide(g)
  <2>1. \E step : AppendRow(DecisionRow(run[g], step))
    BY <1>3 DEF Decide
  <2> QED
    BY <1>1, <1>2, <2>1
<1>4. CASE RecordAction(g)
  BY <1>1, <1>2, <1>4 DEF RecordAction
<1>5. CASE RecordRecovery(g)
  BY <1>1, <1>2, <1>5 DEF RecordRecovery
<1>6. CASE RecordFollowUp(g)
  BY <1>1, <1>2, <1>6 DEF RecordFollowUp
<1>7. CASE SuppressDuplicate(g)
  BY <1>1, <1>2, <1>7 DEF SuppressDuplicate
<1> QED
  BY <1>3, <1>4, <1>5, <1>6, <1>7

LEMMA StepsOfLedger ==
  IInv /\ CasesFit /\ ActsFit /\ [Next]_vars => [Ledger!Next]_(Ledger!vars)
<1> SUFFICES ASSUME IInv, CasesFit, ActsFit, [Next]_vars
             PROVE  [Ledger!Next]_(Ledger!vars)
  OBVIOUS
<1>1. CASE UNCHANGED <<log, effects>>
  BY <1>1, StandingStays
<1>2. ASSUME NEW g \in Goroutines,
             \/ Decide(g) \/ RecordAction(g) \/ RecordRecovery(g) \/ RecordFollowUp(g)
             \/ SuppressDuplicate(g)
      PROVE  [Ledger!Next]_(Ledger!vars)
  <2>1. PICK row : AppendRow(row) /\ row.event \in EventIds
    BY <1>2, RowsAreOfEvents
  <2> QED
    BY <1>2, <2>1, RowsAreOfEvents, RowMovesCase DEF IInv, TypeOK
<1>3. ASSUME NEW g \in Goroutines, Execute(g)
      PROVE  Ledger!Next
  <2>1. \E e, r : e = run[g].cur.id /\ r = run[g].id
    OBVIOUS
  <2>2. PICK e, r : e = run[g].cur.id /\ r = run[g].id
    BY <2>1
  <2>3. e \in EventIds /\ r \in 1..MaxDeliveries /\ Ledger!Act(e, r)
    BY <1>3, <2>2, ExecuteActsOnCase
  <2> QED
    BY <2>3 DEF Ledger!Next
<1>4. \/ UNCHANGED <<log, effects>>
      \/ \E g \in Goroutines : Execute(g)
      \/ \E g \in Goroutines :
           \/ Decide(g) \/ RecordAction(g) \/ RecordRecovery(g) \/ RecordFollowUp(g)
           \/ SuppressDuplicate(g)
  BY NextIsStep DEF ClaimRefused, ClaimOverLimit, ClaimGranted, ClaimNext, Deliver, LeaveLoop,
                    Return, StoreFails, Crash, vars
<1> QED
  BY <1>1, <1>2, <1>3, <1>4

(* Each event is a case of the ledger: RunBatch and the claim gate open it     *)
(* once, one run acts on it with attempts 0, 1, 2, ... while it is open, and   *)
(* what closed it is final, over all deliveries, crashes and failing appends.  *)
THEOREM ImplementsCaseLedger == Spec => KeepsCaseLedger
<1>1. Init => Ledger!Init
  <2> SUFFICES ASSUME Init PROVE Ledger!Init
    OBVIOUS
  <2>1. \A id : CaseStatus(id) = "new"
    BY DEF Init, CaseStatus
  <2>2. Done = <<>>
    BY DEF Init, Done
  <2> QED
    BY <2>1, <2>2 DEF Ledger!Init, Done
<1> QED
  BY <1>1, InitCasesFit, InitActsFit, CasesFitKept, ActsFitKept, StepsOfLedger, Invariance,
     PTL DEF Spec, KeepsCaseLedger, Ledger!Spec
=============================================================================
