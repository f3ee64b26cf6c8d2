------------------------------- MODULE Runner -------------------------------
(***************************************************************************)
(* RunBatch (runner.go): goroutines that drive delivered batches of events *)
(* through the policy, execute what it decides and write every transition  *)
(* to one shared audit store (store.go).  A delivery may carry an event    *)
(* that was delivered before, the process may crash and come back over the *)
(* log it left, and an append may fail.                                    *)
(*                                                                         *)
(* Here a store operation is one step: it runs under the store's mutex.    *)
(* AuditStore models what happens inside one.                              *)
(***************************************************************************)
EXTENDS Policy, Sequences, FiniteSets

CONSTANTS
  Goroutines,     (* callers of RunBatch in the process                       *)
  Events,         (* every event a delivery may carry                         *)
  EventIds,
  Customers,
  Batches,        (* the batches a delivery may bring: sequences of events    *)
  Clocks,         (* the clock values a batch may run at: opts.Now            *)
  Tunables,       (* the tunable configuration in force                       *)
  MaxBatch,       (* maxBatch: decisions one batch may make                   *)
  GuardLimit,     (* decisions one event may take in a batch: 100 in the code *)
  MaxDeliveries,  (* bound: batches delivered                                 *)
  MaxCrashes,     (* bound: crashes of the process                            *)
  MaxFaults,      (* bound: store operations that fail                        *)
  NoEvent         (* the current event of a goroutine that has none           *)

VARIABLES
  log,            (* the rows of the audit log file                           *)
  claimed,        (* the store's in-memory claim set                          *)
  hydrated,       (* whether claimed was rebuilt from the log yet             *)
  run,            (* per goroutine, the locals of its RunBatch                *)
  effects,        (* history: the actions carried out on customers            *)
  deliveries, crashes, faults

store == <<claimed, hydrated>>
bounds == <<deliveries, crashes, faults>>
vars == <<log, claimed, hydrated, run, effects, deliveries, crashes, faults>>

ASSUME EventsAssumption ==
  \A ev \in Events : /\ ev.id \in EventIds
                     /\ ev.customer \in Customers
                     /\ ev.flow \in Flows
                     /\ ev.signal.code \in Reasons \cup {""}
                     /\ ev.signal.recovered \in BOOLEAN
ASSUME BatchesAssumption == Batches \subseteq Seq(Events)
ASSUME ClocksAssumption == Clocks \subseteq Nat \ {0}
ASSUME NoEventAssumption == NoEvent \notin Events
(* applyTunableKey refuses what is not an integer, or is negative. *)
ASSUME TunablesAssumption == Tunables \in [DOMAIN DefaultTunables -> Nat]
ASSUME BoundsAssumption ==
  /\ MaxBatch \in Nat /\ GuardLimit \in Nat
  /\ MaxDeliveries \in Nat /\ MaxCrashes \in Nat /\ MaxFaults \in Nat

-----------------------------------------------------------------------------
(* Rows.  No attempt number stands in a duplicate_suppress row. *)

NoAttempt == -1

Row(r, rule, decision, state, actor, attempt) ==
  [event |-> r.cur.id, at |-> r.now, flow |-> r.cur.flow, reason |-> Classify(r.cur),
   rule |-> rule, decision |-> decision, state |-> state, actor |-> actor,
   attempt |-> attempt]

DuplicateRow(r) ==
  Row(r, "duplicate_suppress", "suppress", "suppressed", "policy_engine", NoAttempt)

(* Slip: the attempt is counted before it is logged. *)
DecisionRow_Early(r, step) ==
  Row(r, step.rule, step.decision, step.state, "policy_engine", r.attempt + 1)
DecisionRow(r, step) ==
  Row(r, step.rule, step.decision, step.state, "policy_engine", r.attempt)

(* What a carried out action leaves in the log: the decision row again, or    *)
(* rule and decision of a recovery, with the state the attempt ended in.      *)
ActionRow(r, attempt, recovered) ==
  IF recovered THEN Row(r, "recovered", "recover", "recovered", "policy_engine", attempt)
  ELSE Row(r, r.step.rule, r.step.decision,
           IF r.step.state = "contact_scheduled" THEN "contacting" ELSE "retrying",
           "policy_engine", attempt)

(* The row that follows a decision to escalate, hold or do nothing. *)
FollowUpRow(r) ==
  CASE r.step.decision = "escalate" ->
         Row(r, "no_op", "escalate", "escalated", "llm_copy", r.attempt)
    [] r.step.decision = "hold" ->
         Row(r, r.step.rule, "hold", "waiting_on_ptp", "policy_engine", r.attempt)
    [] OTHER -> Row(r, r.step.rule, "none", "abandoned", "policy_engine", r.attempt)

(* Slip: a recovery does not end the loop. *)
RunningTerminal_GoesOn == {"escalated", "abandoned", "suppressed", "waiting_on_ptp"}
RunningTerminal == {"recovered", "escalated", "abandoned", "suppressed", "waiting_on_ptp"}

-----------------------------------------------------------------------------
(* A run.  pc is where the goroutine stands:                                 *)
(*   idle       not in RunBatch                                              *)
(*   claim      about to claim the next event, or to return                  *)
(*   duplicate  about to log that its event was a duplicate                  *)
(*   loop       at the head of the per-event loop                            *)
(*   execute    decision logged, about to carry it out                       *)
(*   record     carried out, about to log the outcome                        *)
(*   recovery   outcome logged, about to log the recovery                    *)
(*   followup   decision logged, about to log its follow-up row              *)
IdleRun ==
  [pc |-> "idle", id |-> 0, now |-> 0, batch |-> <<>>, todo |-> <<>>, cur |-> NoEvent,
   attempt |-> 0,
   state |-> "detected", steps |-> 0, used |-> 0, touches |-> [c \in Customers |-> 0],
   limitHit |-> FALSE, step |-> [rule |-> "no_op", decision |-> "none", state |-> "detected"],
   recovered |-> FALSE]

Becomes(g, r) == run' = [run EXCEPT ![g] = r]

AppendRow(row) == log' = Append(log, row)

(* Slip: the claim set is not rebuilt from the log. *)
Known_NotHydrated == claimed

(* The ids the store refuses: hydrateLocked reads the log's first. *)
Known == IF hydrated THEN claimed ELSE claimed \cup {log[i].event : i \in DOMAIN log}

Init ==
  /\ log = <<>> /\ claimed = {} /\ hydrated = FALSE
  /\ run = [g \in Goroutines |-> IdleRun]
  /\ effects = <<>>
  /\ deliveries = 0 /\ crashes = 0 /\ faults = 0

(* A delivery calls RunBatch. *)
Deliver(g) ==
  /\ run[g].pc = "idle"
  /\ deliveries < MaxDeliveries
  /\ deliveries' = deliveries + 1
  /\ \E b \in Batches, now \in Clocks :
       Becomes(g, [IdleRun EXCEPT !.pc = "claim", !.id = deliveries + 1, !.now = now,
                                  !.batch = b, !.todo = b])
  /\ UNCHANGED <<log, store, effects, crashes, faults>>

(* AuditStore.Claim: check and mark in one critical section. *)
ClaimNext(g) ==
  /\ run[g].pc = "claim" /\ run[g].todo # <<>>
  /\ hydrated' = TRUE
  /\ claimed' = Known \cup {Head(run[g].todo).id}
  /\ UNCHANGED <<log, effects, bounds>>

(* Slip: the refused event is not kept for its row. *)
ClaimRefused_Unkept(g) ==
  /\ ClaimNext(g)
  /\ Head(run[g].todo).id \in Known
  /\ Becomes(g, [run[g] EXCEPT !.pc = "duplicate", !.todo = Tail(@)])

ClaimRefused(g) ==
  /\ ClaimNext(g)
  /\ Head(run[g].todo).id \in Known
  /\ Becomes(g, [run[g] EXCEPT !.pc = "duplicate", !.cur = Head(run[g].todo),
                               !.todo = Tail(@)])

(* The batch's budget is spent: the event just claimed is dropped with the rest. *)
ClaimOverLimit(g) ==
  /\ ClaimNext(g)
  /\ Head(run[g].todo).id \notin Known
  /\ run[g].used >= MaxBatch
  /\ Becomes(g, [run[g] EXCEPT !.todo = <<>>, !.limitHit = TRUE])

ClaimGranted(g) ==
  /\ ClaimNext(g)
  /\ Head(run[g].todo).id \notin Known
  /\ run[g].used < MaxBatch
  /\ Becomes(g, [run[g] EXCEPT !.pc = "loop", !.cur = Head(run[g].todo), !.todo = Tail(@),
                               !.attempt = 0, !.state = "detected", !.steps = 0])

SuppressDuplicate(g) ==
  /\ run[g].pc = "duplicate"
  /\ AppendRow(DuplicateRow(run[g]))
  /\ Becomes(g, [run[g] EXCEPT !.pc = "claim", !.cur = NoEvent])
  /\ UNCHANGED <<store, effects, bounds>>

(* The loop's conditions: not settled, guard not reached, batch budget left. *)
MayDecide(g) ==
  /\ run[g].pc = "loop"
  /\ run[g].state \notin RunningTerminal
  /\ run[g].steps < GuardLimit
  /\ run[g].used < MaxBatch

AfterDecision(decision) ==
  CASE decision \in {"retry", "contact"} -> "execute"
    [] decision \in {"escalate", "hold", "none"} -> "followup"
    [] OTHER -> "loop"

(* One turn of the loop up to its first append: the decision row. *)
Decide(g) ==
  LET r == run[g]
      ctx == FlowContext(r.cur, r.attempt, r.touches[r.cur.customer], r.now)
      step == StepState(r.cur.flow, ctx, Tunables)
  IN  /\ MayDecide(g)
      /\ AppendRow(DecisionRow(r, step))
      /\ Becomes(g, [r EXCEPT !.pc = AfterDecision(step.decision), !.state = step.state,
                              !.steps = @ + 1, !.used = @ + 1, !.step = step])
      /\ UNCHANGED <<store, effects, bounds>>

(* Slips: the limit is not reported; the loop guard does not end the loop. *)
LeaveLoop_Silent(g) ==
  /\ run[g].pc = "loop" /\ ~MayDecide(g)
  /\ Becomes(g, [run[g] EXCEPT !.pc = "claim", !.cur = NoEvent])
  /\ UNCHANGED <<log, store, effects, bounds>>
LeaveLoop_Unguarded(g) ==
  run[g].state \in RunningTerminal /\ LeaveLoop_Silent(g)

LeaveLoop(g) ==
  /\ run[g].pc = "loop" /\ ~MayDecide(g)
  /\ Becomes(g, [run[g] EXCEPT !.pc = "claim", !.cur = NoEvent,
       !.limitHit = @ \/ (/\ run[g].state \notin RunningTerminal
                          /\ run[g].steps < GuardLimit)])
  /\ UNCHANGED <<log, store, effects, bounds>>

(* ExecuteAction: the charge, message or call reaches the customer. *)
Execute(g) ==
  LET r == run[g]
  IN  /\ r.pc = "execute"
      /\ effects' = Append(effects,
           [ev |-> r.cur, attempt |-> r.attempt, run |-> r.id, now |-> r.now])
      /\ \E won \in ExecuteAction(r.cur) :
           Becomes(g, [r EXCEPT !.pc = "record", !.recovered = won,
                                !.touches[r.cur.customer] = @ + 1])
      /\ UNCHANGED <<log, store, bounds>>

(* Slips: only recoveries are logged; the attempt is not counted. *)
RecordAction_Quiet(g) ==
  LET r == run[g]
  IN  /\ r.pc = "record"
      /\ IF r.recovered THEN AppendRow(ActionRow(r, r.attempt, TRUE)) ELSE UNCHANGED log
      /\ Becomes(g, [r EXCEPT !.pc = IF r.recovered THEN "recovery" ELSE "loop",
                              !.attempt = @ + 1])
      /\ UNCHANGED <<store, effects, bounds>>
RecordAction_Uncounted(g) ==
  LET r == run[g]
  IN  /\ r.pc = "record"
      /\ AppendRow(ActionRow(r, r.attempt, r.recovered))
      /\ Becomes(g, [r EXCEPT !.pc = IF r.recovered THEN "recovery" ELSE "loop"])
      /\ UNCHANGED <<store, effects, bounds>>

RecordAction(g) ==
  LET r == run[g]
  IN  /\ r.pc = "record"
      /\ AppendRow(ActionRow(r, r.attempt, r.recovered))
      /\ Becomes(g, [r EXCEPT !.pc = IF r.recovered THEN "recovery" ELSE "loop",
                              !.attempt = @ + 1])
      /\ UNCHANGED <<store, effects, bounds>>

(* The row repeats the action row's attempt number, the one before the increment. *)
RecordRecovery(g) ==
  LET r == run[g]
  IN  /\ r.pc = "recovery"
      /\ AppendRow(ActionRow(r, r.attempt - 1, TRUE))
      /\ Becomes(g, [r EXCEPT !.pc = "loop", !.state = "recovered"])
      /\ UNCHANGED <<store, effects, bounds>>

RecordFollowUp(g) ==
  LET r == run[g]
      row == FollowUpRow(r)
  IN  /\ r.pc = "followup"
      /\ AppendRow(row)
      /\ Becomes(g, [r EXCEPT !.pc = "loop", !.state = row.state])
      /\ UNCHANGED <<store, effects, bounds>>

Return(g) ==
  /\ run[g].pc = "claim" /\ run[g].todo = <<>>
  /\ Becomes(g, IdleRun)
  /\ UNCHANGED <<log, store, effects, bounds>>

(* The store operation the run is about to make fails: RunBatch returns the  *)
(* error.  What was claimed stays claimed.                                   *)
StoreFails(g) ==
  /\ faults < MaxFaults
  /\ \/ run[g].pc \in {"duplicate", "record", "recovery", "followup"}
     \/ MayDecide(g)
     \/ run[g].pc = "claim" /\ (run[g].todo = <<>> \/ ~hydrated)
  /\ faults' = faults + 1
  /\ Becomes(g, IdleRun)
  /\ UNCHANGED <<log, store, effects, deliveries, crashes>>

(* The process dies; the next store opened over the file starts empty. *)
Crash ==
  /\ crashes < MaxCrashes
  /\ crashes' = crashes + 1
  /\ run' = [g \in Goroutines |-> IdleRun]
  /\ claimed' = {} /\ hydrated' = FALSE
  /\ UNCHANGED <<log, effects, deliveries, faults>>

(* Every run has returned and nothing more is delivered. *)
Quiescent ==
  /\ deliveries = MaxDeliveries
  /\ \A g \in Goroutines : run[g].pc = "idle"
  /\ UNCHANGED vars

(* What a goroutine does once called, as long as nothing fails. *)
Advance(g) ==
  \/ ClaimRefused(g) \/ ClaimOverLimit(g) \/ ClaimGranted(g)
  \/ SuppressDuplicate(g) \/ Decide(g) \/ LeaveLoop(g) \/ Execute(g)
  \/ RecordAction(g) \/ RecordRecovery(g) \/ RecordFollowUp(g) \/ Return(g)

Next ==
  \/ \E g \in Goroutines : Deliver(g) \/ Advance(g) \/ StoreFails(g)
  \/ Crash \/ Quiescent

Spec == Init /\ [][Next]_vars

(* A called RunBatch keeps running: the scheduler and the store's mutex      *)
(* starve no goroutine.  Nothing promises a delivery, a crash or a fault.    *)
FairSpec == Spec /\ \A g \in Goroutines : WF_vars(Advance(g))
-----------------------------------------------------------------------------
(* Types. *)

Actors == {"policy_engine", "llm_copy"}
Steps == [rule : Rules, decision : Decisions, state : States]
Rows == [event : EventIds, at : Nat, flow : Flows, reason : Reasons, rule : Rules,
         decision : Decisions, state : States, actor : Actors, attempt : Nat \cup {NoAttempt}]
Effects == [ev : Events, attempt : Nat, run : Nat, now : Nat]
PCs == {"idle", "claim", "duplicate", "loop", "execute", "record", "recovery", "followup"}
RunStates ==
  [pc : PCs, id : Nat, now : Nat, batch : Seq(Events), todo : Seq(Events),
   cur : Events \cup {NoEvent}, attempt : Nat, state : States, steps : Nat, used : Nat, touches : [Customers -> Nat],
   limitHit : BOOLEAN, step : Steps, recovered : BOOLEAN]

(* Every variable has its type, and a goroutine past a claim has an event. *)
TypeOK ==
  /\ log \in Seq(Rows)
  /\ claimed \subseteq EventIds /\ hydrated \in BOOLEAN
  /\ run \in [Goroutines -> RunStates]
  /\ \A g \in Goroutines :
       run[g].pc \notin {"idle", "claim"} => run[g].cur \in Events
  /\ effects \in Seq(Effects)
  /\ deliveries \in Nat /\ crashes \in Nat /\ faults \in Nat

-----------------------------------------------------------------------------
(* Safety. *)

IsDuplicate(row) == row.rule = "duplicate_suppress"
Settled == {"recovered", "escalated", "abandoned", "suppressed", "waiting_on_ptp"}
Settling(row) == ~IsDuplicate(row) /\ row.state \in Settled
Actionable == {"retry", "contact"}

(* No action is carried out twice, whatever is delivered again, concurrently *)
(* or after a crash: the claim gate makes processing at-most-once.           *)
AtMostOnce ==
  \A i, j \in DOMAIN effects :
    (/\ effects[i].ev.id = effects[j].ev.id
     /\ effects[i].attempt = effects[j].attempt) => i = j

(* Whatever is carried out was decided in the log before: audit before action. *)
AuditBeforeAction ==
  \A i \in DOMAIN effects : \E k \in DOMAIN log :
    /\ log[k].event = effects[i].ev.id
    /\ log[k].attempt = effects[i].attempt
    /\ log[k].decision \in Actionable
    /\ log[k].state \in {"retry_scheduled", "contact_scheduled"}

(* Nothing is carried out for an event the log says is settled. *)
NoActionAfterSettled ==
  [][\A g \in Goroutines : Execute(g) =>
       \A k \in DOMAIN log : log[k].event = run[g].cur.id => ~Settling(log[k])]_vars

(* The outcome of an action is missing from the log only for the last action *)
(* of a run: the one a crash or a failed append cut off, or one in flight.   *)
Recorded(e) ==
  \E k \in DOMAIN log :
    /\ log[k].event = e.ev.id /\ log[k].attempt = e.attempt
    /\ log[k].state \in {"retrying", "contacting", "recovered"}
OnlyLastOutcomeMissing ==
  \A i, j \in DOMAIN effects :
    i < j /\ effects[i].run = effects[j].run => Recorded(effects[i])

(* The flows whose engine consults a cap before every touch. *)
RetryFlows == {"failed_subscription", "mandate_retry"}
CappedFlows == RetryFlows \cup {"checkout_abandonment", "b2b_receivables"}
TouchesOf(flows, r, c) ==
  Cardinality({i \in DOMAIN effects : /\ effects[i].run = r
                                      /\ effects[i].ev.customer = c
                                      /\ effects[i].ev.flow \in flows})

(* Within a batch no customer is touched more often than the cap says, however *)
(* the events of several flows share the customer.                             *)
CappedTouches ==
  \A r \in 1..deliveries, c \in Customers :
    TouchesOf(CappedFlows, r, c) <= Tunables.maxTouches

(* An event is charged at most maxRetry times, over all its deliveries. *)
RetryBudget ==
  \A ev \in Events :
    Cardinality({i \in DOMAIN effects : /\ effects[i].ev.id = ev.id
                                        /\ effects[i].ev.flow \in RetryFlows})
      <= Tunables.maxRetry

(* A run that returns without reporting that it hit the batch limit left no    *)
(* event of a capped flow undone: each is settled or logged as a duplicate.    *)
LimitReported ==
  [][\A g \in Goroutines :
       (Return(g) /\ ~run[g].limitHit) =>
         \A i \in DOMAIN run[g].batch :
           run[g].batch[i].flow \in CappedFlows =>
             \E k \in DOMAIN log :
               /\ log[k].event = run[g].batch[i].id
               /\ (IsDuplicate(log[k]) \/ Settling(log[k]))]_vars

(* CountLockedViolations (sandbox.go) over the rows of these flows: a fraud or *)
(* revoked-mandate row that is not settled, or a voice call in quiet hours.    *)
LockedViolations(flows) ==
  {k \in DOMAIN log :
    /\ log[k].flow \in flows
    /\ \/ /\ log[k].reason \in {"fraud_flagged", "mandate_revoked"}
          /\ log[k].state \notin RunningTerminal
       \/ /\ log[k].flow = "hinglish_voice" /\ log[k].state = "contacting"
          /\ QuietHours(log[k].at)}

(* No tunable and no order of rules lets a locked rule be passed over, and a   *)
(* do-not-call flag is obeyed, in every flow but payment degradation.          *)
LockedRulesHold ==
  /\ LockedViolations(Flows \ {"payment_degradation"}) = {}
  /\ \A i \in DOMAIN effects :
       effects[i].ev.flow = "hinglish_voice" => ~effects[i].ev.signal.dnc

(* A customer who promised to pay later is not charged before, and only        *)
(* reminded in the last day, by the flows that look at the promise.            *)
PromiseHonoured ==
  \A i \in DOMAIN effects :
    LET e == effects[i]
        date == e.ev.signal.ptpDate
    IN  (/\ e.ev.flow \in RetryFlows \cup {"promise_to_pay"}
         /\ HasActivePromiseToPay(date, e.now))
          => e.ev.flow = "promise_to_pay" /\ PtpReminderDue(e.now, date)

AllIdle == \A g \in Goroutines : run[g].pc = "idle"
Processed(id) == \E k \in DOMAIN log : log[k].event = id /\ ~IsDuplicate(log[k])

(* Once the runs are over, an event logged as a duplicate of one already       *)
(* processed really was processed ("Duplicate eventId already processed").     *)
DuplicateWasProcessed ==
  AllIdle => \A k \in DOMAIN log : IsDuplicate(log[k]) => Processed(log[k].event)

-----------------------------------------------------------------------------
(* The promise Runner keeps: CaseLedger, its cases read off log and effects. *)

CaseStatus(id) ==
  LET rows == {k \in DOMAIN log : log[k].event = id /\ ~IsDuplicate(log[k])}
  IN  IF rows = {} THEN "new"
      ELSE IF \E k \in rows : Settling(log[k]) THEN "closed" ELSE "open"

Ledger == INSTANCE CaseLedger WITH
  Runs <- 1..MaxDeliveries,
  status <- [id \in EventIds |-> CaseStatus(id)],
  done <- [i \in DOMAIN effects |-> [event |-> effects[i].ev.id,
                                     attempt |-> effects[i].attempt,
                                     run |-> effects[i].run]]

(* Each event is one case of the ledger: opened once, acted on by one run with *)
(* consecutive attempts, closed for good.                                      *)
KeepsCaseLedger == Ledger!Spec

-----------------------------------------------------------------------------
(* Liveness. *)

(* Every call of RunBatch returns: also for customers no cap of a flow protects *)
(* from being called again and again.                                          *)
EveryRunEnds == \A g \in Goroutines : run[g].pc # "idle" ~> run[g].pc = "idle"
=============================================================================
