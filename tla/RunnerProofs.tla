---------------------------- MODULE RunnerProofs ----------------------------
(***************************************************************************)
(* Theorems about Runner: its types, at-most-once execution and audit      *)
(* before action hold for any goroutines, events, batches and bounds, with *)
(* crashes and failing appends anywhere.                                   *)
(***************************************************************************)
EXTENDS Runner, TLAPS

-----------------------------------------------------------------------------
(* What the policy computes. *)

(* Every event is classified into one of the known reasons. *)
LEMMA ClassifyType ==
  ASSUME NEW ev \in Events
  PROVE  Classify(ev) \in Reasons
<1>1. ev.flow \in Flows /\ ev.signal.code \in Reasons \cup {""}
  BY EventsAssumption
<1>2. ClassifySubscription(ev.signal) \in Reasons
  BY <1>1 DEF ClassifySubscription, Reasons
<1>3. ClassifyCheckout(ev.signal) \in Reasons
  BY DEF ClassifyCheckout, Reasons
<1>4. ClassifyReceivable(ev.signal) \in Reasons
  BY DEF ClassifyReceivable, Reasons
<1>5. ClassifyDegradation(ev.signal) \in Reasons
  BY <1>1 DEF ClassifyDegradation, Reasons
<1>6. ClassifyVoice(ev.signal) \in Reasons
  BY DEF ClassifyVoice, Reasons
<1>7. ClassifyPromiseToPay(ev.signal) \in Reasons
  BY DEF ClassifyPromiseToPay, Reasons
<1> QED
  BY <1>1, <1>2, <1>3, <1>4, <1>5, <1>6, <1>7 DEF Classify, Flows

Verdicts == [rule : Rules, decision : Decisions]

(* Every engine answers with a rule and a decision. *)
LEMMA DecideType ==
  ASSUME NEW flow, NEW in, NEW t
  PROVE  DecideForFlow(flow, in, t) \in Verdicts
<1>1. BaseRetryDecision(in, t) \in Verdicts
  BY DEF BaseRetryDecision, Fires, Verdicts, Decisions, Rules
<1>2. DecideMandateRetry(in, t) \in Verdicts
  BY <1>1 DEF DecideMandateRetry, Fires, Verdicts, Decisions, Rules
<1>3. DecideCheckoutAbandonment(in, t) \in Verdicts
  BY DEF DecideCheckoutAbandonment, Fires, Verdicts, Decisions, Rules
<1>4. DecideB2BReceivables(in, t) \in Verdicts
  BY DEF DecideB2BReceivables, Fires, Verdicts, Decisions, Rules
<1>5. DecidePaymentDegradation(in) \in Verdicts
  BY DEF DecidePaymentDegradation, Fires, Verdicts, Decisions, Rules
<1>6. DecideHinglishVoice(in, t) \in Verdicts
  BY DEF DecideHinglishVoice, Fires, Verdicts, Decisions, Rules
<1>7. DecidePromiseToPay(in, t) \in Verdicts
  BY DEF DecidePromiseToPay, Fires, Verdicts, Decisions, Rules
<1>8. Fires("no_op", "none") \in Verdicts
  BY DEF Fires, Verdicts, Decisions, Rules
<1> QED
  BY <1>1, <1>2, <1>3, <1>4, <1>5, <1>6, <1>7, <1>8 DEF DecideForFlow

(* A step has a rule, a decision and a state, and one that is to be carried *)
(* out leaves the event scheduled.                                          *)
LEMMA StepType ==
  ASSUME NEW flow, NEW ctx, NEW t
  PROVE  LET step == StepState(flow, ctx, t)
         IN  /\ step \in Steps
             /\ step.decision \in Actionable =>
                  step.state \in {"retry_scheduled", "contact_scheduled"}
<1> DEFINE d == DecideForFlow(flow, StoppingInput(ctx), t)
<1>1. d \in Verdicts
  BY DecideType
<1>2. StateFor(d.decision, flow) \in States
  BY DEF StateFor, States
<1>3. d.decision \in Actionable =>
        StateFor(d.decision, flow) \in {"retry_scheduled", "contact_scheduled"}
  BY DEF StateFor, Actionable
<1> HIDE DEF d
<1>4. /\ [rule |-> d.rule, decision |-> d.decision, state |-> StateFor(d.decision, flow)]
           \in Steps
  BY <1>1, <1>2 DEF Verdicts, Steps
<1> QED
  BY <1>3, <1>4 DEF StepState, d

-----------------------------------------------------------------------------
(* The inductive invariant. *)

Holding(g) == run[g].pc \notin {"idle", "claim"}
Working(g) == Holding(g) /\ run[g].pc # "duplicate"

(* What a goroutine holds is claimed, in a claim set built over the log. *)
HeldIsClaimed == \A g \in Goroutines : Holding(g) => hydrated /\ run[g].cur.id \in claimed

(* No event is worked on by two goroutines. *)
OneWorker ==
  \A g, h \in Goroutines :
    (Working(g) /\ Working(h) /\ run[g].cur.id = run[h].cur.id) => g = h

(* A claim set that was built over the log still covers it. *)
LoggedIsClaimed == hydrated => \A k \in DOMAIN log : log[k].event \in claimed

(* The actions carried out for an event have lower attempt numbers than the  *)
(* one its worker has come to; while it records an action, that one as well. *)
EffectsBehind ==
  \A g \in Goroutines : Working(g) =>
    \A i \in DOMAIN effects : effects[i].ev.id = run[g].cur.id =>
      \/ effects[i].attempt < run[g].attempt
      \/ run[g].pc = "record" /\ effects[i].attempt = run[g].attempt

Decided(rows, id, attempt) ==
  \E k \in DOMAIN rows :
    /\ rows[k].event = id
    /\ rows[k].attempt = attempt
    /\ rows[k].decision \in Actionable
    /\ rows[k].state \in {"retry_scheduled", "contact_scheduled"}

(* What is about to be carried out is decided in the log. *)
DecidedFirst ==
  \A g \in Goroutines :
    run[g].pc = "execute" => Decided(log, run[g].cur.id, run[g].attempt)

(* A recovery is recorded after the attempt was counted. *)
RecoveryCounted == \A g \in Goroutines : run[g].pc = "recovery" => run[g].attempt > 0

IInv ==
  /\ TypeOK
  /\ HeldIsClaimed
  /\ OneWorker
  /\ LoggedIsClaimed
  /\ EffectsBehind
  /\ DecidedFirst
  /\ RecoveryCounted
  /\ AuditBeforeAction
  /\ AtMostOnce

-----------------------------------------------------------------------------
(* How a step changes a run and the log. *)

(* A step of one goroutine leaves the others' runs alone. *)
LEMMA RunUpdate ==
  ASSUME run \in [Goroutines -> RunStates], NEW g \in Goroutines, NEW r \in RunStates,
         Becomes(g, r)
  PROVE  /\ run' \in [Goroutines -> RunStates]
         /\ run'[g] = r
         /\ \A h \in Goroutines : h # g => run'[h] = run[h]
BY DEF Becomes

(* Either the log stays, or a row of the event that the goroutine holds is *)
(* added to it.                                                            *)
Logs(g) ==
  \/ log' = log
  \/ Holding(g) /\ \E row \in Rows : row.event = run[g].cur.id /\ AppendRow(row)

(* The log only grows, and by rows of the event at hand. *)
LEMMA LogUpdate ==
  ASSUME log \in Seq(Rows), NEW g \in Goroutines, Logs(g)
  PROVE  /\ log' \in Seq(Rows)
         /\ \A k \in DOMAIN log : k \in DOMAIN log' /\ log'[k] = log[k]
         /\ \A k \in DOMAIN log' :
              \/ k \in DOMAIN log
              \/ Holding(g) /\ log'[k].event = run[g].cur.id
<1>1. CASE log' = log
  BY <1>1
<1>2. CASE Holding(g) /\ \E row \in Rows : row.event = run[g].cur.id /\ AppendRow(row)
  <2>1. PICK row \in Rows : row.event = run[g].cur.id /\ log' = Append(log, row)
    BY <1>2 DEF AppendRow
  <2>2. DOMAIN log = 1..Len(log) /\ DOMAIN log' = 1..(Len(log) + 1) /\ Len(log) \in Nat
    BY <2>1
  <2>3. \A k \in DOMAIN log : log'[k] = log[k]
    BY <2>1, <2>2
  <2>4. log'[Len(log) + 1] = row
    BY <2>1
  <2> QED
    BY <1>2, <2>1, <2>2, <2>3, <2>4
<1> QED
  BY <1>1, <1>2 DEF Logs

(* What was decided in the log stays decided. *)
LEMMA DecidedStays ==
  ASSUME log \in Seq(Rows), NEW g \in Goroutines, Logs(g),
         NEW id, NEW attempt, Decided(log, id, attempt)
  PROVE  Decided(log', id, attempt)
BY LogUpdate DEF Decided

(* A row made of well-typed parts is one. *)
LEMMA RowType ==
  ASSUME NEW r \in RunStates, r.cur \in Events, NEW rule \in Rules,
         NEW decision \in Decisions, NEW state \in States, NEW actor \in Actors,
         NEW attempt \in Nat \cup {NoAttempt}
  PROVE  /\ Row(r, rule, decision, state, actor, attempt) \in Rows
         /\ Row(r, rule, decision, state, actor, attempt).event = r.cur.id
<1>1. Classify(r.cur) \in Reasons
  BY ClassifyType
<1>2. r.now \in Nat
  BY DEF RunStates
<1>3. r.cur.id \in EventIds /\ r.cur.flow \in Flows
  BY EventsAssumption
<1> QED
  BY <1>1, <1>2, <1>3 DEF Row, Rows

-----------------------------------------------------------------------------
(* A step that claims nothing and carries nothing out. *)

(* A goroutine that lets go of its event, or goes on working on it with an *)
(* attempt number that is ahead of what it has carried out.                *)
GoesOn(g, r) ==
  \/ r.pc \in {"idle", "claim"}
  \/ /\ Working(g) /\ r.pc \notin {"idle", "claim", "duplicate", "record"}
     /\ r.cur = run[g].cur
     /\ r.attempt >= run[g].attempt
     /\ run[g].pc = "record" => r.attempt > run[g].attempt

(* Such a step preserves the invariant. *)
LEMMA BookkeepingKeepsIInv ==
  ASSUME IInv, NEW g \in Goroutines, NEW r \in RunStates, Becomes(g, r), GoesOn(g, r),
         Logs(g), UNCHANGED <<claimed, hydrated, effects>>,
         deliveries' \in Nat, crashes' \in Nat, faults' \in Nat,
         r.pc = "execute" => Decided(log', r.cur.id, r.attempt),
         r.pc = "recovery" => r.attempt > 0
  PROVE  IInv'
<1>1. /\ run' \in [Goroutines -> RunStates]
      /\ run'[g] = r
      /\ \A h \in Goroutines : h # g => run'[h] = run[h]
  BY RunUpdate DEF IInv, TypeOK
<1>2. /\ log' \in Seq(Rows)
      /\ \A k \in DOMAIN log : k \in DOMAIN log' /\ log'[k] = log[k]
      /\ \A k \in DOMAIN log' :
           \/ k \in DOMAIN log
           \/ Holding(g) /\ log'[k].event = run[g].cur.id
  BY LogUpdate DEF IInv, TypeOK
<1>3. TypeOK'
  BY <1>1, <1>2 DEF IInv, TypeOK, GoesOn, Working, Holding
<1>4. HeldIsClaimed'
  BY <1>1 DEF IInv, HeldIsClaimed, Holding, Working, GoesOn
<1>5. OneWorker'
  BY <1>1 DEF IInv, OneWorker, Holding, Working, GoesOn
<1>6. LoggedIsClaimed'
  BY <1>2 DEF IInv, LoggedIsClaimed, HeldIsClaimed
<1>7. EffectsBehind'
  <2> SUFFICES ASSUME NEW h \in Goroutines, Working(h)', NEW i \in DOMAIN effects,
                      effects[i].ev.id = run'[h].cur.id
               PROVE  \/ effects[i].attempt < run'[h].attempt
                      \/ run'[h].pc = "record" /\ effects[i].attempt = run'[h].attempt
    BY DEF EffectsBehind
  <2>1. CASE h # g
    BY <2>1, <1>1 DEF IInv, EffectsBehind, Working, Holding
  <2>2. CASE h = g
    <3>1. /\ Working(g) /\ r.cur = run[g].cur
          /\ r.attempt >= run[g].attempt
          /\ run[g].pc = "record" => r.attempt > run[g].attempt
      BY <2>2, <1>1 DEF GoesOn, Working, Holding
    <3>2. \/ effects[i].attempt < run[g].attempt
          \/ run[g].pc = "record" /\ effects[i].attempt = run[g].attempt
      BY <2>2, <1>1, <3>1 DEF IInv, EffectsBehind
    <3>3. r.attempt \in Nat /\ run[g].attempt \in Nat
      BY DEF IInv, TypeOK, RunStates
    <3>4. effects[i] \in Effects
      BY DEF IInv, TypeOK
    <3>5. effects[i].attempt \in Nat
      BY <3>4 DEF Effects
    <3> QED
      BY <2>2, <1>1, <3>1, <3>2, <3>3, <3>5
  <2> QED
    BY <2>1, <2>2
<1>8. DecidedFirst'
  <2> SUFFICES ASSUME NEW h \in Goroutines, run'[h].pc = "execute"
               PROVE  Decided(log', run'[h].cur.id, run'[h].attempt)
    BY DEF DecidedFirst
  <2>1. CASE h # g
    <3>1. Decided(log, run[h].cur.id, run[h].attempt)
      BY <2>1, <1>1 DEF IInv, DecidedFirst
    <3>2. Decided(log', run[h].cur.id, run[h].attempt)
      BY <3>1, DecidedStays DEF IInv, TypeOK
    <3> QED
      BY <3>2, <2>1, <1>1
  <2>2. CASE h = g
    BY <2>2, <1>1
  <2> QED
    BY <2>1, <2>2
<1>9. RecoveryCounted'
  BY <1>1 DEF IInv, RecoveryCounted
<1>10. AuditBeforeAction'
  BY <1>2 DEF IInv, AuditBeforeAction
<1>11. AtMostOnce'
  BY DEF IInv, AtMostOnce
<1> QED
  BY <1>3, <1>4, <1>5, <1>6, <1>7, <1>8, <1>9, <1>10, <1>11 DEF IInv

-----------------------------------------------------------------------------
(* The rows and the places in the program that the actions lead to. *)

LEMMA IdleRunType == IdleRun \in RunStates
BY DEF IdleRun, RunStates, PCs, States, Steps, Rules, Decisions

LEMMA AfterDecisionType ==
  ASSUME NEW d
  PROVE  /\ AfterDecision(d) \in {"execute", "followup", "loop"}
         /\ AfterDecision(d) = "execute" => d \in Actionable
BY DEF AfterDecision, Actionable

LEMMA ActionRowType ==
  ASSUME NEW r \in RunStates, r.cur \in Events, NEW attempt \in Nat, NEW recovered \in BOOLEAN
  PROVE  /\ ActionRow(r, attempt, recovered) \in Rows
         /\ ActionRow(r, attempt, recovered).event = r.cur.id
<1>1. r.step.rule \in Rules /\ r.step.decision \in Decisions
  BY DEF RunStates, Steps
<1>2. /\ "recovered" \in Rules /\ "recover" \in Decisions /\ "policy_engine" \in Actors
      /\ {"recovered", "contacting", "retrying"} \subseteq States
  BY DEF Rules, Decisions, Actors, States
<1> QED
  BY <1>1, <1>2, RowType DEF ActionRow

LEMMA FollowUpRowType ==
  ASSUME NEW r \in RunStates, r.cur \in Events
  PROVE  /\ FollowUpRow(r) \in Rows
         /\ FollowUpRow(r).event = r.cur.id
         /\ FollowUpRow(r).state \in States
<1>1. r.step.rule \in Rules /\ r.attempt \in Nat \cup {NoAttempt}
  BY DEF RunStates, Steps
<1>2. /\ "no_op" \in Rules /\ {"escalate", "hold", "none"} \subseteq Decisions
      /\ {"policy_engine", "llm_copy"} \subseteq Actors
      /\ {"escalated", "waiting_on_ptp", "abandoned"} \subseteq States
  BY DEF Rules, Decisions, Actors, States
<1>3. /\ {"no_op", r.step.rule} \subseteq Rules /\ {"escalate", "hold", "none"} \subseteq Decisions
      /\ r.attempt \in Nat \cup {NoAttempt}
  BY <1>1, <1>2
<1> DEFINE escalated == Row(r, "no_op", "escalate", "escalated", "llm_copy", r.attempt)
           held == Row(r, r.step.rule, "hold", "waiting_on_ptp", "policy_engine", r.attempt)
           dropped == Row(r, r.step.rule, "none", "abandoned", "policy_engine", r.attempt)
<1>4. escalated \in Rows /\ escalated.event = r.cur.id
  <2>1. "escalated" \in States /\ "llm_copy" \in Actors
    BY <1>2
  <2> QED
    BY <1>3, <2>1, RowType
<1>5. held \in Rows /\ held.event = r.cur.id
  <2>1. "waiting_on_ptp" \in States /\ "policy_engine" \in Actors
    BY <1>2
  <2> QED
    BY <1>3, <2>1, RowType
<1>6. dropped \in Rows /\ dropped.event = r.cur.id
  <2>1. "abandoned" \in States /\ "policy_engine" \in Actors
    BY <1>2
  <2> QED
    BY <1>3, <2>1, RowType
<1>7. FollowUpRow(r) \in {escalated, held, dropped}
  BY DEF FollowUpRow
<1> HIDE DEF escalated, held, dropped
<1>8. FollowUpRow(r) \in Rows /\ FollowUpRow(r).event = r.cur.id
  BY <1>4, <1>5, <1>6, <1>7
<1> QED
  BY <1>8 DEF Rows

-----------------------------------------------------------------------------
(* Every action preserves the invariant. *)

LEMMA DeliverKeeps ==
  ASSUME IInv, NEW g \in Goroutines, Deliver(g)
  PROVE  IInv'
<1>1. PICK b \in Batches, now \in Clocks :
        Becomes(g, [IdleRun EXCEPT !.pc = "claim", !.id = deliveries + 1, !.now = now,
                                   !.batch = b, !.todo = b])
  BY DEF Deliver
<1> DEFINE r == [IdleRun EXCEPT !.pc = "claim", !.id = deliveries + 1, !.now = now,
                                !.batch = b, !.todo = b]
<1>2. b \in Seq(Events) /\ now \in Nat /\ deliveries \in Nat
  BY BatchesAssumption, ClocksAssumption DEF IInv, TypeOK
<1>3. r \in RunStates /\ r.pc = "claim"
  <2>1. deliveries + 1 \in Nat /\ "claim" \in PCs
    BY <1>2 DEF PCs
  <2> QED
    BY <1>2, <2>1, IdleRunType DEF RunStates
<1>4. /\ Becomes(g, r) /\ Logs(g) /\ UNCHANGED <<claimed, hydrated, effects>>
      /\ deliveries' \in Nat /\ crashes' \in Nat /\ faults' \in Nat
  BY <1>1 DEF Deliver, Logs, store, IInv, TypeOK
<1> HIDE DEF r
<1> QED
  BY <1>3, <1>4, BookkeepingKeepsIInv DEF GoesOn

LEMMA SuppressDuplicateKeeps ==
  ASSUME IInv, NEW g \in Goroutines, SuppressDuplicate(g)
  PROVE  IInv'
<1> DEFINE r == [run[g] EXCEPT !.pc = "claim", !.cur = NoEvent]
<1>1. run[g] \in RunStates /\ run[g].cur \in Events /\ Holding(g)
  BY DEF IInv, TypeOK, SuppressDuplicate, Holding
<1>2. r \in RunStates /\ r.pc = "claim"
  BY <1>1 DEF RunStates, PCs
<1>3. DuplicateRow(run[g]) \in Rows /\ DuplicateRow(run[g]).event = run[g].cur.id
  <2>1. /\ "duplicate_suppress" \in Rules /\ "suppress" \in Decisions
        /\ "suppressed" \in States /\ "policy_engine" \in Actors
    BY DEF Rules, Decisions, States, Actors
  <2>2. NoAttempt \in Nat \cup {NoAttempt}
    OBVIOUS
  <2> QED
    BY <1>1, <2>1, <2>2, RowType DEF DuplicateRow
<1>4. Logs(g)
  BY <1>1, <1>3 DEF SuppressDuplicate, Logs
<1>5. /\ Becomes(g, r) /\ UNCHANGED <<claimed, hydrated, effects>>
      /\ deliveries' \in Nat /\ crashes' \in Nat /\ faults' \in Nat
  BY DEF SuppressDuplicate, store, bounds, IInv, TypeOK
<1> HIDE DEF r
<1> QED
  BY <1>2, <1>4, <1>5, BookkeepingKeepsIInv DEF GoesOn

LEMMA DecideKeeps ==
  ASSUME IInv, NEW g \in Goroutines, Decide(g)
  PROVE  IInv'
<1> DEFINE
      ctx == FlowContext(run[g].cur, run[g].attempt, run[g].touches[run[g].cur.customer],
                         run[g].now)
      step == StepState(run[g].cur.flow, ctx, Tunables)
      row == DecisionRow(run[g], step)
      r == [run[g] EXCEPT !.pc = AfterDecision(step.decision), !.state = step.state,
                          !.steps = @ + 1, !.used = @ + 1, !.step = step]
<1>1. /\ run[g].pc = "loop" /\ AppendRow(row) /\ Becomes(g, r)
      /\ UNCHANGED <<claimed, hydrated, effects, deliveries, crashes, faults>>
  BY DEF Decide, MayDecide, store, bounds
<1>2. /\ step \in Steps
      /\ step.decision \in Actionable =>
           step.state \in {"retry_scheduled", "contact_scheduled"}
  BY StepType
<1> HIDE DEF step
<1>3. run[g] \in RunStates /\ run[g].cur \in Events /\ Working(g)
  BY <1>1 DEF IInv, TypeOK, Working, Holding
<1>4. step.rule \in Rules /\ step.decision \in Decisions /\ step.state \in States
  BY <1>2 DEF Steps
<1>5. run[g].attempt \in Nat
  BY <1>3 DEF RunStates
<1>6. row \in Rows /\ row.event = run[g].cur.id
  <2>1. "policy_engine" \in Actors
    BY DEF Actors
  <2> QED
    BY <1>3, <1>4, <1>5, <2>1, RowType DEF DecisionRow
<1>7. Logs(g)
  BY <1>1, <1>3, <1>6 DEF Logs, Working
<1>8. r \in RunStates
  <2>1. AfterDecision(step.decision) \in PCs
    BY AfterDecisionType DEF PCs
  <2>2. run[g].steps + 1 \in Nat /\ run[g].used + 1 \in Nat
    BY <1>3 DEF RunStates
  <2> QED
    BY <1>2, <1>3, <1>4, <2>1, <2>2 DEF RunStates
<1>9. /\ r.pc = AfterDecision(step.decision) /\ r.cur = run[g].cur
      /\ r.attempt = run[g].attempt
  BY <1>3 DEF RunStates
<1>10. GoesOn(g, r) /\ r.pc # "recovery"
  BY <1>1, <1>3, <1>5, <1>9, AfterDecisionType DEF GoesOn
<1>11. ASSUME r.pc = "execute" PROVE Decided(log', r.cur.id, r.attempt)
  <2>1. step.decision \in Actionable
    BY <1>9, <1>11, AfterDecisionType
  <2>2. /\ row.attempt = run[g].attempt
        /\ row.decision = step.decision /\ row.state = step.state
    BY DEF DecisionRow, Row
  <2>3. log \in Seq(Rows) /\ log' = Append(log, row)
    BY <1>1 DEF IInv, TypeOK, AppendRow
  <2> HIDE DEF row, r
  <2>4. Len(log) + 1 \in DOMAIN log' /\ log'[Len(log) + 1] = row
    BY <2>3, <1>6
  <2> QED
    BY <1>2, <1>6, <1>9, <2>1, <2>2, <2>4 DEF Decided
<1> HIDE DEF row, r
<1>12. deliveries' \in Nat /\ crashes' \in Nat /\ faults' \in Nat
  BY <1>1 DEF IInv, TypeOK
<1> QED
  BY <1>1, <1>7, <1>8, <1>10, <1>11, <1>12, BookkeepingKeepsIInv

LEMMA RecordActionKeeps ==
  ASSUME IInv, NEW g \in Goroutines, RecordAction(g)
  PROVE  IInv'
<1> DEFINE r == [run[g] EXCEPT !.pc = IF run[g].recovered THEN "recovery" ELSE "loop",
                               !.attempt = @ + 1]
<1>1. /\ run[g].pc = "record" /\ Becomes(g, r)
      /\ AppendRow(ActionRow(run[g], run[g].attempt, run[g].recovered))
      /\ UNCHANGED <<claimed, hydrated, effects, deliveries, crashes, faults>>
  BY DEF RecordAction, store, bounds
<1>2. run[g] \in RunStates /\ run[g].cur \in Events /\ Working(g)
  BY <1>1 DEF IInv, TypeOK, Working, Holding
<1>3. run[g].attempt \in Nat /\ run[g].recovered \in BOOLEAN
  BY <1>2 DEF RunStates
<1>4. Logs(g)
  BY <1>1, <1>2, <1>3, ActionRowType DEF Logs, Working
<1>5. r \in RunStates
  <2>1. /\ run[g].attempt + 1 \in Nat
        /\ (IF run[g].recovered THEN "recovery" ELSE "loop") \in PCs
    BY <1>3 DEF PCs
  <2> QED
    BY <1>2, <2>1 DEF RunStates
<1>6. /\ r.pc \in {"recovery", "loop"} /\ r.cur = run[g].cur
      /\ r.attempt = run[g].attempt + 1
  BY <1>2 DEF RunStates
<1> HIDE DEF r
<1>7. GoesOn(g, r) /\ r.attempt > 0
  BY <1>2, <1>3, <1>6 DEF GoesOn
<1>8. deliveries' \in Nat /\ crashes' \in Nat /\ faults' \in Nat
  BY <1>1 DEF IInv, TypeOK
<1> QED
  BY <1>1, <1>4, <1>5, <1>6, <1>7, <1>8, BookkeepingKeepsIInv

LEMMA RecordRecoveryKeeps ==
  ASSUME IInv, NEW g \in Goroutines, RecordRecovery(g)
  PROVE  IInv'
<1> DEFINE r == [run[g] EXCEPT !.pc = "loop", !.state = "recovered"]
<1>1. /\ run[g].pc = "recovery" /\ Becomes(g, r)
      /\ AppendRow(ActionRow(run[g], run[g].attempt - 1, TRUE))
      /\ UNCHANGED <<claimed, hydrated, effects, deliveries, crashes, faults>>
  BY DEF RecordRecovery, store, bounds
<1>2. run[g] \in RunStates /\ run[g].cur \in Events /\ Working(g)
  BY <1>1 DEF IInv, TypeOK, Working, Holding
<1>3. run[g].attempt \in Nat /\ run[g].attempt - 1 \in Nat
  <2>1. run[g].attempt \in Nat
    BY <1>2 DEF RunStates
  <2>2. run[g].attempt > 0
    BY <1>1 DEF IInv, RecoveryCounted
  <2> QED
    BY <2>1, <2>2
<1>4. Logs(g)
  BY <1>1, <1>2, <1>3, ActionRowType DEF Logs, Working
<1>5. r \in RunStates
  <2>1. "loop" \in PCs /\ "recovered" \in States
    BY DEF PCs, States
  <2> QED
    BY <1>2, <2>1 DEF RunStates
<1>6. r.pc = "loop" /\ r.cur = run[g].cur /\ r.attempt = run[g].attempt
  BY <1>2 DEF RunStates
<1> HIDE DEF r
<1>7. GoesOn(g, r)
  BY <1>1, <1>2, <1>3, <1>6 DEF GoesOn
<1>8. deliveries' \in Nat /\ crashes' \in Nat /\ faults' \in Nat
  BY <1>1 DEF IInv, TypeOK
<1> QED
  BY <1>1, <1>4, <1>5, <1>6, <1>7, <1>8, BookkeepingKeepsIInv

LEMMA RecordFollowUpKeeps ==
  ASSUME IInv, NEW g \in Goroutines, RecordFollowUp(g)
  PROVE  IInv'
<1> DEFINE r == [run[g] EXCEPT !.pc = "loop", !.state = FollowUpRow(run[g]).state]
<1>1. /\ run[g].pc = "followup" /\ Becomes(g, r) /\ AppendRow(FollowUpRow(run[g]))
      /\ UNCHANGED <<claimed, hydrated, effects, deliveries, crashes, faults>>
  BY DEF RecordFollowUp, store, bounds
<1>2. run[g] \in RunStates /\ run[g].cur \in Events /\ Working(g)
  BY <1>1 DEF IInv, TypeOK, Working, Holding
<1>3. Logs(g)
  BY <1>1, <1>2, FollowUpRowType DEF Logs, Working
<1>4. r \in RunStates
  <2>1. "loop" \in PCs /\ FollowUpRow(run[g]).state \in States
    BY <1>2, FollowUpRowType DEF PCs
  <2> QED
    BY <1>2, <2>1 DEF RunStates
<1>5. r.pc = "loop" /\ r.cur = run[g].cur /\ r.attempt = run[g].attempt
  BY <1>2 DEF RunStates
<1>6. run[g].attempt \in Nat
  BY <1>2 DEF RunStates
<1> HIDE DEF r
<1>7. GoesOn(g, r)
  BY <1>1, <1>2, <1>5, <1>6 DEF GoesOn
<1>8. deliveries' \in Nat /\ crashes' \in Nat /\ faults' \in Nat
  BY <1>1 DEF IInv, TypeOK
<1> QED
  BY <1>1, <1>3, <1>4, <1>5, <1>7, <1>8, BookkeepingKeepsIInv

(* Leaving the loop, returning and failing only let go of the event. *)
LEMMA LettingGoKeeps ==
  ASSUME IInv, NEW g \in Goroutines, LeaveLoop(g) \/ Return(g) \/ StoreFails(g)
  PROVE  IInv'
<1>1. run[g] \in RunStates
  BY DEF IInv, TypeOK
<1>2. /\ UNCHANGED <<log, claimed, hydrated, effects>>
      /\ deliveries' \in Nat /\ crashes' \in Nat /\ faults' \in Nat
  BY DEF LeaveLoop, Return, StoreFails, store, bounds, IInv, TypeOK
<1>3. CASE LeaveLoop(g)
  <2> DEFINE hit == run[g].limitHit \/ (/\ run[g].state \notin RunningTerminal
                                      /\ run[g].steps < GuardLimit)
             r == [run[g] EXCEPT !.pc = "claim", !.cur = NoEvent, !.limitHit = hit]
  <2>1. Becomes(g, r)
    BY <1>1, <1>3 DEF LeaveLoop, Becomes, RunStates
  <2>2. hit \in BOOLEAN /\ "claim" \in PCs
    BY DEF PCs
  <2> HIDE DEF hit
  <2>3. r \in RunStates /\ r.pc = "claim"
    BY <1>1, <2>2 DEF RunStates
  <2> HIDE DEF r
  <2> QED
    BY <1>2, <2>1, <2>3, BookkeepingKeepsIInv DEF GoesOn, Logs
<1>4. CASE Return(g) \/ StoreFails(g)
  <2>1. Becomes(g, IdleRun)
    BY <1>4 DEF Return, StoreFails
  <2>2. IdleRun \in RunStates /\ IdleRun.pc = "idle"
    BY IdleRunType DEF IdleRun
  <2> QED
    BY <1>2, <2>1, <2>2, BookkeepingKeepsIInv DEF GoesOn, Logs
<1> QED
  BY <1>3, <1>4

(* A claim adds to a claim set that covers the log, and what a goroutine takes *)
(* up for work nobody has logged or works on.                                  *)
LEMMA ClaimKeeps ==
  ASSUME IInv, NEW g \in Goroutines,
         ClaimRefused(g) \/ ClaimOverLimit(g) \/ ClaimGranted(g)
  PROVE  IInv'
<1> DEFINE e == Head(run[g].todo)
<1>1. /\ run[g].pc = "claim" /\ run[g].todo # <<>>
      /\ hydrated' = TRUE /\ claimed' = Known \cup {e.id}
      /\ UNCHANGED <<log, effects, deliveries, crashes, faults>>
  BY DEF ClaimRefused, ClaimOverLimit, ClaimGranted, ClaimNext, bounds
<1>2. run[g] \in RunStates /\ run[g].todo \in Seq(Events)
  BY DEF IInv, TypeOK, RunStates
<1>3. e \in Events /\ Tail(run[g].todo) \in Seq(Events) /\ e.id \in EventIds
  <2>1. ASSUME NEW s \in Seq(Events), s # <<>>
        PROVE  Head(s) \in Events /\ Tail(s) \in Seq(Events)
    BY <2>1
  <2>2. e \in Events /\ Tail(run[g].todo) \in Seq(Events)
    BY <1>1, <1>2, <2>1
  <2> QED
    BY <2>2, EventsAssumption
<1> HIDE DEF e
<1>4. /\ claimed \subseteq Known /\ \A k \in DOMAIN log : log[k].event \in Known
      /\ Known \subseteq EventIds
  <2>1. \A k \in DOMAIN log : log[k].event \in EventIds
    <3>1. \A k \in DOMAIN log : log[k] \in Rows
      BY DEF IInv, TypeOK
    <3> QED
      BY <3>1 DEF Rows
  <2> QED
    BY <2>1 DEF IInv, TypeOK, LoggedIsClaimed, Known
<1>5. \E r \in RunStates :
        /\ Becomes(g, r)
        /\ \/ r.pc = "duplicate" /\ r.cur = e
           \/ r.pc = "claim"
           \/ r.pc = "loop" /\ r.cur = e /\ r.attempt = 0 /\ e.id \notin Known
  <2>1. CASE ClaimRefused(g)
    <3> DEFINE r == [run[g] EXCEPT !.pc = "duplicate", !.cur = e, !.todo = Tail(@)]
    <3>1. Becomes(g, r)
      BY <2>1 DEF ClaimRefused, e
    <3>2. r \in RunStates /\ r.pc = "duplicate" /\ r.cur = e
      BY <1>2, <1>3 DEF RunStates, PCs
    <3> QED
      BY <3>1, <3>2
  <2>2. CASE ClaimOverLimit(g)
    <3> DEFINE r == [run[g] EXCEPT !.todo = <<>>, !.limitHit = TRUE]
    <3>1. Becomes(g, r)
      BY <2>2 DEF ClaimOverLimit
    <3>2. <<>> \in Seq(Events)
      OBVIOUS
    <3>3. r \in RunStates
      BY <1>2, <3>2 DEF RunStates
    <3>4. r.pc = "claim"
      BY <1>1, <1>2 DEF RunStates
    <3> QED
      BY <3>1, <3>3, <3>4
  <2>3. CASE ClaimGranted(g)
    <3> DEFINE r == [run[g] EXCEPT !.pc = "loop", !.cur = e, !.todo = Tail(@),
                                   !.attempt = 0, !.state = "detected", !.steps = 0]
    <3>1. Becomes(g, r) /\ e.id \notin Known
      BY <2>3 DEF ClaimGranted, e
    <3>2. "loop" \in PCs /\ "detected" \in States /\ 0 \in Nat
      BY DEF PCs, States
    <3>3. r \in RunStates
      BY <1>2, <1>3, <3>2 DEF RunStates
    <3>4. r.pc = "loop" /\ r.cur = e /\ r.attempt = 0
      BY <1>2 DEF RunStates
    <3> QED
      BY <3>1, <3>3, <3>4
  <2> QED
    BY <2>1, <2>2, <2>3
<1>6. PICK r \in RunStates :
        /\ Becomes(g, r)
        /\ \/ r.pc = "duplicate" /\ r.cur = e
           \/ r.pc = "claim"
           \/ r.pc = "loop" /\ r.cur = e /\ r.attempt = 0 /\ e.id \notin Known
  BY <1>5
<1>7. /\ run' \in [Goroutines -> RunStates]
      /\ run'[g] = r
      /\ \A h \in Goroutines : h # g => run'[h] = run[h]
  BY <1>6, RunUpdate DEF IInv, TypeOK
<1>8. TypeOK'
  BY <1>1, <1>3, <1>4, <1>6, <1>7 DEF IInv, TypeOK
<1>9. HeldIsClaimed'
  BY <1>1, <1>4, <1>6, <1>7 DEF IInv, HeldIsClaimed, Holding
<1>10. OneWorker'
  BY <1>4, <1>6, <1>7 DEF IInv, OneWorker, HeldIsClaimed, Holding, Working
<1>11. LoggedIsClaimed'
  BY <1>1, <1>4 DEF LoggedIsClaimed
<1>12. EffectsBehind'
  <2> SUFFICES ASSUME NEW h \in Goroutines, Working(h)', NEW i \in DOMAIN effects,
                      effects[i].ev.id = run'[h].cur.id
               PROVE  \/ effects[i].attempt < run'[h].attempt
                      \/ run'[h].pc = "record" /\ effects[i].attempt = run'[h].attempt
    BY <1>1 DEF EffectsBehind
  <2>1. CASE h # g
    BY <2>1, <1>7 DEF IInv, EffectsBehind, Working, Holding
  <2>2. CASE h = g
    <3>1. effects[i].ev.id \notin Known
      BY <2>2, <1>6, <1>7 DEF Working, Holding
    <3>2. effects[i].ev.id \in Known
      BY <1>4 DEF IInv, AuditBeforeAction
    <3> QED
      BY <3>1, <3>2
  <2> QED
    BY <2>1, <2>2
<1>13. DecidedFirst'
  BY <1>1, <1>6, <1>7 DEF IInv, DecidedFirst
<1>14. RecoveryCounted'
  BY <1>6, <1>7 DEF IInv, RecoveryCounted
<1>15. AuditBeforeAction' /\ AtMostOnce'
  BY <1>1 DEF IInv, AuditBeforeAction, AtMostOnce
<1> QED
  BY <1>8, <1>9, <1>10, <1>11, <1>12, <1>13, <1>14, <1>15 DEF IInv

(* The one action that reaches the customer: its attempt number is ahead of *)
(* all that was carried out for the event, and it is decided in the log.    *)
LEMMA ExecuteKeeps ==
  ASSUME IInv, NEW g \in Goroutines, Execute(g)
  PROVE  IInv'
<1> DEFINE e == run[g].cur
           n == run[g].attempt
           done == [ev |-> e, attempt |-> n, run |-> run[g].id, now |-> run[g].now]
<1>1. /\ run[g].pc = "execute" /\ effects' = Append(effects, done)
      /\ UNCHANGED <<log, claimed, hydrated, deliveries, crashes, faults>>
  BY DEF Execute, store, bounds
<1>2. run[g] \in RunStates /\ e \in Events /\ Working(g)
  BY <1>1 DEF IInv, TypeOK, Working, Holding
<1>3. n \in Nat /\ done \in Effects /\ done.ev = e /\ done.attempt = n
  BY <1>2 DEF RunStates, Effects
<1>4. PICK won \in ExecuteAction(e) :
        Becomes(g, [run[g] EXCEPT !.pc = "record", !.recovered = won,
                                  !.touches[e.customer] = @ + 1])
  BY DEF Execute
<1> DEFINE r == [run[g] EXCEPT !.pc = "record", !.recovered = won,
                               !.touches[e.customer] = @ + 1]
<1>5. r \in RunStates
  <2>1. won \in BOOLEAN
    <3>1. ExecuteAction(e) \subseteq BOOLEAN
      <4>1. {e.signal.recovered} \subseteq BOOLEAN
        BY <1>2, EventsAssumption
      <4>2. (IF Classify(e) \in Retryable THEN BOOLEAN ELSE {FALSE}) \subseteq BOOLEAN
        OBVIOUS
      <4> QED
        BY <4>1, <4>2 DEF ExecuteAction
    <3> QED
      BY <3>1
  <2>2. [run[g].touches EXCEPT ![e.customer] = @ + 1] \in [Customers -> Nat]
    <3>1. run[g].touches \in [Customers -> Nat] /\ e.customer \in Customers
      BY <1>2, EventsAssumption DEF RunStates
    <3> QED
      BY <3>1
  <2>3. "record" \in PCs
    BY DEF PCs
  <2> QED
    BY <1>2, <2>1, <2>2, <2>3 DEF RunStates
<1>6. r.pc = "record" /\ r.cur = e /\ r.attempt = n
  BY <1>2 DEF RunStates
<1>7. Becomes(g, r)
  BY <1>4
<1> HIDE DEF r, done
<1>8. /\ run' \in [Goroutines -> RunStates]
      /\ run'[g] = r
      /\ \A h \in Goroutines : h # g => run'[h] = run[h]
  BY <1>5, <1>7, RunUpdate DEF IInv, TypeOK
<1>9. /\ effects' \in Seq(Effects)
      /\ \A i \in DOMAIN effects' :
           \/ i \in DOMAIN effects /\ effects'[i] = effects[i]
           \/ i = Len(effects) + 1 /\ i \notin DOMAIN effects /\ effects'[i] = done
  BY <1>1, <1>3 DEF IInv, TypeOK
<1>10. \A i \in DOMAIN effects : effects[i].attempt \in Nat
  <2>1. \A i \in DOMAIN effects : effects[i] \in Effects
    BY DEF IInv, TypeOK
  <2> QED
    BY <2>1 DEF Effects
<1>11. \A i \in DOMAIN effects : effects[i].ev.id = e.id => effects[i].attempt < n
  BY <1>1, <1>2 DEF IInv, EffectsBehind
<1>12. TypeOK'
  BY <1>1, <1>2, <1>6, <1>8, <1>9 DEF IInv, TypeOK
<1>13. HeldIsClaimed'
  BY <1>1, <1>2, <1>6, <1>8 DEF IInv, HeldIsClaimed, Holding, Working
<1>14. OneWorker'
  BY <1>2, <1>6, <1>8 DEF IInv, OneWorker, Holding, Working
<1>15. LoggedIsClaimed'
  BY <1>1 DEF IInv, LoggedIsClaimed
<1>16. EffectsBehind'
  <2> SUFFICES ASSUME NEW h \in Goroutines, Working(h)', NEW i \in DOMAIN effects',
                      effects'[i].ev.id = run'[h].cur.id
               PROVE  \/ effects'[i].attempt < run'[h].attempt
                      \/ run'[h].pc = "record" /\ effects'[i].attempt = run'[h].attempt
    BY DEF EffectsBehind
  <2>1. CASE h = g
    BY <2>1, <1>3, <1>6, <1>8, <1>9, <1>11
  <2>2. CASE h # g
    <3>1. Working(h) /\ run'[h] = run[h] /\ run[h].cur.id # e.id
      BY <2>2, <1>2, <1>8 DEF IInv, OneWorker, Working, Holding
    <3>2. i \in DOMAIN effects /\ effects'[i] = effects[i]
      BY <3>1, <1>3, <1>9
    <3> QED
      BY <3>1, <3>2 DEF IInv, EffectsBehind
  <2> QED
    BY <2>1, <2>2
<1>17. DecidedFirst'
  BY <1>1, <1>6, <1>8 DEF IInv, DecidedFirst
<1>18. RecoveryCounted'
  BY <1>6, <1>8 DEF IInv, RecoveryCounted
<1>19. AuditBeforeAction'
  <2>1. Decided(log, e.id, n)
    BY <1>1 DEF IInv, DecidedFirst
  <2>2. \A i \in DOMAIN effects : Decided(log, effects[i].ev.id, effects[i].attempt)
    BY DEF IInv, AuditBeforeAction, Decided
  <2>3. \A i \in DOMAIN effects' : Decided(log, effects'[i].ev.id, effects'[i].attempt)
    BY <2>1, <2>2, <1>3, <1>9
  <2> QED
    BY <2>3, <1>1 DEF AuditBeforeAction, Decided
<1>20. AtMostOnce'
  BY <1>3, <1>9, <1>10, <1>11 DEF IInv, AtMostOnce
<1> QED
  BY <1>12, <1>13, <1>14, <1>15, <1>16, <1>17, <1>18, <1>19, <1>20 DEF IInv

LEMMA CrashKeeps ==
  ASSUME IInv, Crash
  PROVE  IInv'
<1>1. /\ UNCHANGED <<log, effects, deliveries, faults>> /\ crashes' \in Nat
      /\ claimed' = {} /\ hydrated' = FALSE
      /\ run' \in [Goroutines -> RunStates]
      /\ \A g \in Goroutines : run'[g] = IdleRun
  BY IdleRunType DEF Crash, IInv, TypeOK
<1>2. IdleRun.pc = "idle"
  BY DEF IdleRun
<1>3. TypeOK'
  BY <1>1, <1>2 DEF IInv, TypeOK
<1>4. HeldIsClaimed' /\ OneWorker' /\ EffectsBehind' /\ DecidedFirst' /\ RecoveryCounted'
  BY <1>1, <1>2 DEF HeldIsClaimed, OneWorker, EffectsBehind, DecidedFirst, RecoveryCounted,
                    Holding, Working
<1>5. LoggedIsClaimed' /\ AuditBeforeAction' /\ AtMostOnce'
  BY <1>1 DEF IInv, LoggedIsClaimed, AuditBeforeAction, AtMostOnce
<1> QED
  BY <1>3, <1>4, <1>5 DEF IInv

-----------------------------------------------------------------------------
(* The theorems. *)

LEMMA InitIInv == Init => IInv
<1> SUFFICES ASSUME Init PROVE IInv
  OBVIOUS
<1>1. \A g \in Goroutines : run[g] = IdleRun /\ run[g].pc = "idle"
  BY DEF Init, IdleRun
<1>2. run \in [Goroutines -> RunStates]
  BY IdleRunType DEF Init
<1>3. TypeOK
  <2>1. <<>> \in Seq(Rows) /\ <<>> \in Seq(Effects)
    OBVIOUS
  <2> QED
    BY <1>1, <1>2, <2>1 DEF Init, TypeOK
<1>4. HeldIsClaimed /\ OneWorker /\ EffectsBehind /\ DecidedFirst /\ RecoveryCounted
  BY <1>1 DEF HeldIsClaimed, OneWorker, EffectsBehind, DecidedFirst, RecoveryCounted,
              Holding, Working
<1>5. LoggedIsClaimed /\ AuditBeforeAction /\ AtMostOnce
  BY DEF Init, LoggedIsClaimed, AuditBeforeAction, AtMostOnce
<1> QED
  BY <1>3, <1>4, <1>5 DEF IInv

LEMMA NextIInv == IInv /\ [Next]_vars => IInv'
<1> SUFFICES ASSUME IInv, [Next]_vars PROVE IInv'
  OBVIOUS
<1>1. CASE UNCHANGED vars
  BY <1>1 DEF vars, IInv, TypeOK, HeldIsClaimed, OneWorker, LoggedIsClaimed, EffectsBehind,
              DecidedFirst, RecoveryCounted, AuditBeforeAction, AtMostOnce, Working, Holding,
              Decided
<1>2. CASE Next
  <2>1. ASSUME NEW g \in Goroutines, Deliver(g) PROVE IInv'
    BY <2>1, DeliverKeeps
  <2>2. ASSUME NEW g \in Goroutines, Advance(g) PROVE IInv'
    <3>1. CASE ClaimRefused(g) \/ ClaimOverLimit(g) \/ ClaimGranted(g)
      BY <3>1, ClaimKeeps
    <3>2. CASE SuppressDuplicate(g)
      BY <3>2, SuppressDuplicateKeeps
    <3>3. CASE Decide(g)
      BY <3>3, DecideKeeps
    <3>4. CASE LeaveLoop(g) \/ Return(g)
      BY <3>4, LettingGoKeeps
    <3>5. CASE Execute(g)
      BY <3>5, ExecuteKeeps
    <3>6. CASE RecordAction(g)
      BY <3>6, RecordActionKeeps
    <3>7. CASE RecordRecovery(g)
      BY <3>7, RecordRecoveryKeeps
    <3>8. CASE RecordFollowUp(g)
      BY <3>8, RecordFollowUpKeeps
    <3> QED
      BY <2>2, <3>1, <3>2, <3>3, <3>4, <3>5, <3>6, <3>7, <3>8 DEF Advance
  <2>3. ASSUME NEW g \in Goroutines, StoreFails(g) PROVE IInv'
    BY <2>3, LettingGoKeeps
  <2>4. CASE Crash
    BY <2>4, CrashKeeps
  <2>5. CASE Quiescent
    BY <2>5, <1>1 DEF Quiescent
  <2> QED
    BY <1>2, <2>1, <2>2, <2>3, <2>4, <2>5 DEF Next
<1> QED
  BY <1>1, <1>2

(* The inductive invariant holds in every reachable state. *)
THEOREM Invariance == Spec => []IInv
<1>1. Init => IInv
  BY InitIInv
<1>2. IInv /\ [Next]_vars => IInv'
  BY NextIInv
<1> QED
  BY <1>1, <1>2, PTL DEF Spec

(* RunBatch never leaves the types of its locals, its rows and its effects. *)
THEOREM TypeCorrect == Spec => []TypeOK
<1>1. IInv => TypeOK
  BY DEF IInv
<1> QED
  BY <1>1, Invariance, PTL

(* The claim gate of the store makes execution at-most-once: no attempt of an *)
(* event is carried out twice by any goroutines, deliveries or restarts.      *)
THEOREM ExecutesAtMostOnce == Spec => []AtMostOnce
<1>1. IInv => AtMostOnce
  BY DEF IInv
<1> QED
  BY <1>1, Invariance, PTL

(* RunBatch appends the decision before it carries the action out, and the    *)
(* row survives whatever happens then.                                        *)
THEOREM AuditsBeforeAction == Spec => []AuditBeforeAction
<1>1. IInv => AuditBeforeAction
  BY DEF IInv
<1> QED
  BY <1>1, Invariance, PTL
=============================================================================
