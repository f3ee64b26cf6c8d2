----------------------------- MODULE AdminDesk -----------------------------
(***************************************************************************)
(* Who else writes to the log of RunBatch: admins, who intervene in an     *)
(* event (handleAdminAction of streamserver.go), and the UI, which sends   *)
(* what happens to payments (handlePaymentEvent).                          *)
(*                                                                         *)
(* Runner is composed with them over one store.  A request of an admin     *)
(* reads the log, makes up its row, and appends it later: batches and      *)
(* other requests come in between.                                         *)
(***************************************************************************)
EXTENDS Policy, Sequences, FiniteSets

CONSTANTS
  Goroutines, Events, EventIds, Customers, Batches, Clocks, Tunables, MaxBatch,
  GuardLimit, MaxDeliveries, MaxCrashes, MaxFaults, NoEvent,    (* as in Runner *)
  Admins,         (* requests of admins under way at the same time            *)
  Loaded,         (* the events the server knows: s.events                    *)
  Payments,       (* ids of payments                                          *)
  Nothing,        (* the row of a request that has none                       *)
  MaxRequests     (* bound: requests made                                     *)

VARIABLES
  log, claimed, hydrated, run, effects, deliveries, crashes, faults, (* Runner's *)
  desk,           (* per request: the row it is about to append               *)
  requests

desks == <<desk, requests>>
vars == <<log, claimed, hydrated, run, effects, deliveries, crashes, faults, desks>>

Batch == INSTANCE Runner

ASSUME RequestsAssumption == MaxRequests \in Nat /\ Payments \cap EventIds = {}
(* As in Runner. *)
ASSUME EventsAssumption ==
  \A ev \in Events : /\ ev.id \in EventIds
                     /\ ev.customer \in Customers
                     /\ ev.flow \in Flows
                     /\ ev.signal.code \in Reasons \cup {""}
                     /\ ev.signal.recovered \in BOOLEAN
ASSUME BatchesAssumption == Batches \subseteq Seq(Events)
ASSUME ClocksAssumption == Clocks \subseteq Nat \ {0}

Init == Batch!Init /\ desk = [a \in Admins |-> Nothing] /\ requests = 0

Requested ==
  /\ requests < MaxRequests /\ requests' = requests + 1
  /\ UNCHANGED <<claimed, hydrated, run, effects, deliveries, crashes, faults>>
-----------------------------------------------------------------------------
lockedAdminRules ==
  {"fraud_high_score", "fraud_chargeback", "mandate_revoked", "dnc_match", "quiet_hours",
   "touch_cap", "fraud_velocity", "mandate_insufficient_funds"}

Latest(id) ==
  LET mine == {k \in DOMAIN log : log[k].event = id}
  IN  log[CHOOSE k \in mine : \A j \in mine : j <= k]

(* Slip: the row is signed by the engine. *)
Entry_Unsigned(latest, now, decision, state) ==
  [latest EXCEPT !.at = now, !.rule = "no_op", !.decision = decision, !.state = state,
                 !.attempt = Batch!NoAttempt]

(* The row of an admin, with flow and reason of the latest row of the event. *)
Entry(latest, now, decision, state) ==
  [latest EXCEPT !.at = now, !.rule = "no_op", !.decision = decision, !.state = state,
                 !.actor = "human", !.attempt = Batch!NoAttempt]
Refusal(latest, now) == Entry(latest, now, "none", latest.state)

(* What the engine is asked of an event again: none of its signals, no touch, *)
(* and a reason it does not know.                                             *)
buildRecoveryContext(now) ==
  [reason |-> "admin_intervention", attempt |-> 0, touches |-> 0, now |-> now,
   ptpDate |-> NoDate, overdue |-> 0, window |-> NoWindow, dnc |-> FALSE, cart |-> 0,
   visits |-> 0, rate |-> 0, amount |-> 0]

(* Slip: a suppressed event may be nudged. *)
NudgeRetry_Suppressed(latest, now) ==
  IF latest.state = "recovered" THEN Refusal(latest, now)
  ELSE Entry(latest, now, "retry", "retry_scheduled")

NudgeRetry(latest, now) ==
  LET step == IF \E ev \in Loaded : ev.id = latest.event
                THEN LET ev == CHOOSE e \in Loaded : e.id = latest.event
                     IN  StepState(ev.flow, buildRecoveryContext(now), Tunables)
                ELSE [decision |-> "retry", state |-> "retry_scheduled"]
      refused == \/ latest.state \in {"recovered", "suppressed"}
                 \/ latest.rule \in lockedAdminRules
                 \/ step.decision \notin {"retry", "contact"}
  IN  IF refused THEN Refusal(latest, now)
      ELSE Entry(latest, now, step.decision, step.state)

SelectRecoveryChannel(latest, now) ==
  IF latest.state \in {"recovered", "suppressed"} \/ latest.rule \in lockedAdminRules
    THEN Refusal(latest, now)
  ELSE Entry(latest, now, "retry", "retry_scheduled")

(* Slip: any event that is not recovered may be marked. *)
MarkPtpFulfilled_Any(latest, now) ==
  IF latest.state = "recovered" THEN Refusal(latest, now)
  ELSE Entry(latest, now, "recover", "recovered")

MarkPtpFulfilled(latest, now) ==
  IF latest.state # "waiting_on_ptp" \/ latest.rule \in lockedAdminRules
    THEN Refusal(latest, now)
  ELSE Entry(latest, now, "recover", "recovered")
-----------------------------------------------------------------------------
(* handleAdminAction up to its append: events without a row are not found. *)
Ask(a) ==
  /\ desk[a] = Nothing /\ Requested
  /\ \E id \in {log[k].event : k \in DOMAIN log}, now \in Clocks :
       \E row \in {NudgeRetry(Latest(id), now), SelectRecoveryChannel(Latest(id), now),
                   MarkPtpFulfilled(Latest(id), now)} :
         desk' = [desk EXCEPT ![a] = row]
  /\ UNCHANGED log

Record(a) ==
  /\ desk[a] # Nothing
  /\ log' = Append(log, desk[a]) /\ desk' = [desk EXCEPT ![a] = Nothing]
  /\ UNCHANGED <<claimed, hydrated, run, effects, deliveries, crashes, faults, requests>>

RecordFails(a) ==
  /\ desk[a] # Nothing /\ faults < MaxFaults
  /\ faults' = faults + 1 /\ desk' = [desk EXCEPT ![a] = Nothing]
  /\ UNCHANGED <<log, claimed, hydrated, run, effects, deliveries, crashes, requests>>

(* handlePaymentEvent: "verified", "rejected" and "accepted" of the UI.  When  *)
(* it happens tells nothing apart.                                            *)
PaymentEvent(p, state) ==
  /\ Requested
  /\ log' = Append(log,
       [event |-> p, at |-> 0, flow |-> "payment_event", reason |-> "payment_event",
        rule |-> "no_op", decision |-> "none", state |-> state,
        actor |-> "payment_gateway", attempt |-> Batch!NoAttempt])
  /\ UNCHANGED desk

(* RunBatch goes on; when the process dies, the requests die with it. *)
Batches_Next ==
  /\ \E g \in Goroutines : Batch!Deliver(g) \/ Batch!Advance(g) \/ Batch!StoreFails(g)
  /\ UNCHANGED desks

Crash ==
  /\ Batch!Crash
  /\ desk' = [a \in Admins |-> Nothing] /\ UNCHANGED requests

Next ==
  \/ Batches_Next \/ Crash
  \/ \E a \in Admins : Ask(a) \/ Record(a) \/ RecordFails(a)
  \/ \E p \in Payments, state \in {"recovered", "escalated", "detected"} :
       PaymentEvent(p, state)

Spec == Init /\ [][Next]_vars
-----------------------------------------------------------------------------
Rows ==
  [event : EventIds \cup Payments, at : Nat, flow : Flows \cup {"payment_event"},
   reason : Reasons \cup {"payment_event"}, rule : Rules, decision : Decisions,
   state : States, actor : Batch!Actors \cup {"human", "payment_gateway"},
   attempt : Nat \cup {Batch!NoAttempt}]

(* Every row has its type, those of admins and payments too, and what an      *)
(* admin is about to append is about an event that has a row.                 *)
TypeOK ==
  /\ log \in Seq(Rows) /\ desk \in [Admins -> Rows \cup {Nothing}] /\ requests \in Nat
  /\ claimed \subseteq EventIds \cup Payments
  /\ run \in [Goroutines -> Batch!RunStates]
  /\ \A a \in Admins : desk[a] # Nothing =>
       desk[a].actor = "human" /\ \E k \in DOMAIN log : log[k].event = desk[a].event

ByAdmin(k) == log[k].actor = "human"
Allowed(k) == ByAdmin(k) /\ log[k].decision # "none"
Before(j, k) == j < k /\ log[j].event = log[k].event

(* What is left of "including locked rules": an event the engine suppressed,  *)
(* for fraud or a promise, is let alone by admins, and a call they make is    *)
(* one by day: whatever batches, other admins and crashes do between the      *)
(* reading of the log and the append.                                         *)
AdminsHeedEngine ==
  \A k \in DOMAIN log : Allowed(k) =>
    /\ \A j \in DOMAIN log : Before(j, k) =>
         log[j].rule \notin {"fraud_suppress", "promise_to_pay_suppress", "ptp_suppress"}
    /\ log[k].decision = "contact" => ~QuietHours(log[k].at)

(* An admin marks an event as fulfilled only after the engine put it on hold, *)
(* and RunBatch charges nobody for it afterwards: what it still logs of it is *)
(* the second row of that hold, which it may be about to write, or duplicates.*)
FulfilledWasOnHold ==
  \A k \in DOMAIN log : ByAdmin(k) /\ log[k].decision = "recover" =>
    \E j \in DOMAIN log :
      /\ Before(j, k) /\ log[j].decision = "hold" /\ log[j].state = "waiting_on_ptp"
      /\ \A i \in DOMAIN log : Before(j, i) /\ ~ByAdmin(i) =>
           log[i].rule = log[j].rule \/ Batch!IsDuplicate(log[i])

(* "LockedRuleIds are permanently locked and can never be overridden"; admin  *)
(* actions on an event one of them fired for are refused.                     *)
LockedRuleIds ==
  {"fraud_suppress", "mandate_revoked_escalate", "voice_do_not_call", "quiet_hours"}
NeverOverridden ==
  \A j, k \in DOMAIN log : Before(j, k) /\ log[j].rule \in LockedRuleIds => ~Allowed(k)
=============================================================================
