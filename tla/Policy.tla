------------------------------- MODULE Policy -------------------------------
(***************************************************************************)
(* The pure half of the recovery engine: classification of an event into a *)
(* reason bucket (classify.go), the named stopping rules (rules.go), the   *)
(* seven per-flow decision engines (engines.go) and the state transition   *)
(* they drive (statemachine.go).                                           *)
(*                                                                         *)
(* Time is counted in half hours, the finest unit a rule distinguishes     *)
(* (the IST offset is 5h30), and is never 0: 0 means "no clock given" in   *)
(* the code and no caller of RunBatch passes it.  Success rates are whole  *)
(* percents.  A signal holds what the classifiers and engines read of the  *)
(* event's JSON: an absent key has the zero value Go reads for it.         *)
(***************************************************************************)
EXTENDS Integers

Hour == 2
Day == 24 * Hour
IstOffset == 11

(* The promise date or retry window of an event that carries none. *)
NoDate == -1
NoWindow == [start |-> NoDate, end |-> NoDate]

Flows == {"payment_degradation", "checkout_abandonment", "failed_subscription",
          "b2b_receivables", "mandate_retry", "hinglish_voice", "promise_to_pay"}

Decisions == {"retry", "contact", "recover", "escalate", "suppress", "abandon",
              "hold", "none"}

States == {"detected", "retry_scheduled", "retrying", "contact_scheduled",
           "contacting", "waiting_on_ptp", "recovered", "escalated", "abandoned",
           "suppressed"}

Reasons ==
  {"insufficient_funds", "card_expired", "mandate_revoked", "bank_declined_transient",
   "auth_3ds_abandoned", "fraud_flagged", "success_rate_drop", "latency_spike",
   "issuer_down", "price_mismatch", "payment_step_abandoned", "address_abandoned",
   "slow_checkout", "checkout_error", "overdue_net30", "overdue_net60",
   "disputed_receivable", "voice_missed_call", "voice_asked_call_back",
   "voice_unreachable", "ptp_committed", "ptp_missed", "ptp_broken"}

(* The rules that decide something, and the two RunBatch itself logs. *)
Rules ==
  {"no_op", "max_touches_cap", "fraud_suppress", "mandate_revoked_escalate",
   "promise_to_pay_suppress", "transient_retry", "exhaust_attempts_escalate",
   "mandate_retry_window", "mandate_retry_seq", "checkout_reminder", "cart_incentive",
   "checkout_abandon", "repeat_visitor_only", "invoice_reminder",
   "invoice_escalate_dunning", "dispute_hold", "degradation_alert", "degradation_recover",
   "degradation_escalate", "voice_call", "voice_retry", "voice_escalate_human",
   "voice_do_not_call", "ptp_schedule", "ptp_suppress", "ptp_followup",
   "ptp_reminder_before", "ptp_missed_escalate", "recovered", "duplicate_suppress"}

DefaultTunables ==
  [maxRetry |-> 3, maxTouches |-> 3, checkoutCap |-> 2, voiceCalls |-> 2,
   cartMin |-> 50000, ptpSupervisor |-> 2000000, windowDays |-> 3, tier2 |-> 60]

NoSignal ==
  [code |-> "", words |-> {}, error |-> FALSE, step |-> "", slow |-> FALSE,
   mismatch |-> FALSE, disputed |-> FALSE, overdue |-> 0, rate |-> 0,
   issuerDown |-> FALSE, call |-> "", ptp |-> "", ptpDate |-> NoDate,
   window |-> NoWindow, dnc |-> FALSE, cart |-> 0, visits |-> 0,
   recovered |-> FALSE]

-----------------------------------------------------------------------------
(* Classification.  code is the bucket the error-code table gives, "" when  *)
(* the table has no entry; words are the keywords found in the description. *)

ClassifySubscription(s) ==
  LET Says(ws) == s.words \cap ws # {}
  IN  IF s.code # "" THEN s.code
      ELSE IF Says({"insufficient", "limit"}) THEN "insufficient_funds"
      ELSE IF Says({"expired"}) THEN "card_expired"
      ELSE IF Says({"mandate"}) /\ Says({"revoke", "cancel", "invalid"})
        THEN "mandate_revoked"
      ELSE IF Says({"fraud", "risk", "suspicious"}) THEN "fraud_flagged"
      ELSE IF Says({"abandoned", "3ds", "auth"}) THEN "auth_3ds_abandoned"
      ELSE "bank_declined_transient"

ClassifyCheckout(s) ==
  IF s.error THEN "checkout_error"
  ELSE IF s.step = "payment" THEN "payment_step_abandoned"
  ELSE IF s.step = "address" THEN "address_abandoned"
  ELSE IF s.slow THEN "slow_checkout"
  ELSE IF s.mismatch THEN "price_mismatch"
  ELSE "payment_step_abandoned"

ClassifyReceivable(s) ==
  IF s.disputed THEN "disputed_receivable"
  ELSE IF s.overdue < 60 THEN "overdue_net30" ELSE "overdue_net60"

ClassifyDegradation(s) ==
  IF s.code # "" THEN s.code
  ELSE IF s.rate < 85 THEN "success_rate_drop"
  ELSE IF s.slow THEN "latency_spike"
  ELSE IF s.issuerDown THEN "issuer_down"
  ELSE "bank_declined_transient"

ClassifyVoice(s) ==
  IF s.call = "missed" THEN "voice_missed_call"
  ELSE IF s.call = "call_back_requested" THEN "voice_asked_call_back"
  ELSE "voice_unreachable"

ClassifyPromiseToPay(s) ==
  IF s.ptp = "broken" THEN "ptp_broken"
  ELSE IF s.ptp = "missed" THEN "ptp_missed" ELSE "ptp_committed"

Classify(ev) ==
  CASE ev.flow \in {"failed_subscription", "mandate_retry"} -> ClassifySubscription(ev.signal)
    [] ev.flow = "checkout_abandonment" -> ClassifyCheckout(ev.signal)
    [] ev.flow = "b2b_receivables" -> ClassifyReceivable(ev.signal)
    [] ev.flow = "payment_degradation" -> ClassifyDegradation(ev.signal)
    [] ev.flow = "hinglish_voice" -> ClassifyVoice(ev.signal)
    [] ev.flow = "promise_to_pay" -> ClassifyPromiseToPay(ev.signal)
    [] OTHER -> "bank_declined_transient"

-----------------------------------------------------------------------------
(* The named rules.  t is the tunable configuration in force. *)

(* Slip: one touch too many. *)
AtTouchCap_OffByOne(touches, t) == touches > t.maxTouches
AtTouchCap(touches, t) == touches >= t.maxTouches
(* Slip: one attempt too many. *)
AtMaxRetryAttempts_OffByOne(attempt, t) == attempt > t.maxRetry
AtMaxRetryAttempts(attempt, t) == attempt >= t.maxRetry
HasActivePromiseToPay(date, now) == date # NoDate /\ date > now
Retryable == {"insufficient_funds", "card_expired", "bank_declined_transient",
              "auth_3ds_abandoned"}

IsWithinMandateRetryWindow(now, w) == w # NoWindow /\ now >= w.start /\ now <= w.end

(* Attempt k may run from day k of the window on; a window is at least a day. *)
MandateRetryAttemptAllowed(attempt, now, w, t) ==
  LET day == (now - w.start) \div Day
      days == IF t.windowDays < 1 THEN 1 ELSE t.windowDays
  IN  w # NoWindow /\ day >= 0 /\ day < days /\ attempt <= day

IsRepeatVisitor(visits) == visits >= 2
AtCheckoutReminderCap(sent, t) == sent >= t.checkoutCap
CartEligibleForIncentive(cart, t) == cart >= t.cartMin

ReceivableTier(days, t) ==
  IF days < 30 THEN 0 ELSE IF days < t.tier2 THEN 1 ELSE IF days < t.tier2 * 2 THEN 2 ELSE 3

(* Quiet hours run from 21:00 to 09:00 in India. *)
QuietHours(now) ==
  LET hour == ((now + IstOffset) % Day) \div Hour IN hour >= 21 \/ hour < 9
IsDoNotCall(dnc, now) == dnc \/ QuietHours(now)

AtVoiceCallCap(calls, t) == calls >= t.voiceCalls
PtpReminderDue(now, date) == now >= date - Day /\ now < date
PtpNeedsSupervisor(amount, t) == amount >= t.ptpSupervisor

-----------------------------------------------------------------------------
(* The decision engines: ordered rules, the first that applies decides. *)

Fires(rule, decision) == [rule |-> rule, decision |-> decision]

BaseRetryDecision(in, t) ==
  IF in.reason = "fraud_flagged" THEN Fires("fraud_suppress", "suppress")
  ELSE IF in.reason = "mandate_revoked" THEN Fires("mandate_revoked_escalate", "escalate")
  ELSE IF HasActivePromiseToPay(in.ptpDate, in.now)
    THEN Fires("promise_to_pay_suppress", "suppress")
  ELSE IF AtMaxRetryAttempts(in.attempt, t) THEN Fires("exhaust_attempts_escalate", "escalate")
  ELSE IF AtTouchCap(in.touches, t) THEN Fires("max_touches_cap", "abandon")
  ELSE IF in.reason \notin Retryable THEN Fires("no_op", "abandon")
  ELSE Fires("transient_retry", "retry")

DecideMandateRetry(in, t) ==
  LET base == BaseRetryDecision(in, t)
  IN  IF base.decision # "retry" THEN base
      ELSE IF ~IsWithinMandateRetryWindow(in.now, in.window)
        THEN Fires("mandate_retry_window", "hold")
      ELSE IF ~MandateRetryAttemptAllowed(in.attempt, in.now, in.window, t)
        THEN Fires("mandate_retry_seq", "hold")
      ELSE Fires("mandate_retry_seq", "retry")

DecideCheckoutAbandonment(in, t) ==
  IF in.reason = "checkout_error" THEN Fires("checkout_abandon", "escalate")
  ELSE IF ~IsRepeatVisitor(in.visits) THEN Fires("repeat_visitor_only", "abandon")
  ELSE IF AtCheckoutReminderCap(in.touches, t) \/ AtTouchCap(in.touches, t)
    THEN Fires("max_touches_cap", "abandon")
  ELSE IF in.touches = 0 /\ CartEligibleForIncentive(in.cart, t)
    THEN Fires("cart_incentive", "contact")
  ELSE Fires("checkout_reminder", "contact")

DecideB2BReceivables(in, t) ==
  LET tier == ReceivableTier(in.overdue, t)
  IN  IF in.reason \in {"mandate_revoked", "disputed_receivable"} THEN Fires("dispute_hold", "hold")
      ELSE IF AtTouchCap(in.touches, t) THEN Fires("max_touches_cap", "abandon")
      ELSE IF tier = 0 THEN Fires("no_op", "none")
      ELSE IF tier \in {1, 2} THEN Fires("invoice_reminder", "contact")
      ELSE Fires("invoice_escalate_dunning", "escalate")

(* A rate of 0 means the signal had none, and counts as 100%. *)
DecidePaymentDegradation(in) ==
  IF in.reason = "fraud_flagged" THEN Fires("fraud_suppress", "suppress")
  ELSE IF in.reason = "issuer_down" THEN Fires("degradation_escalate", "escalate")
  ELSE IF in.rate # 0 /\ in.rate < 85 THEN Fires("degradation_alert", "contact")
  ELSE Fires("degradation_recover", "recover")

(* Slip: the rule for unreachable customers is tried first. *)
DecideHinglishVoice_Unordered(in, t) ==
  IF in.reason = "voice_unreachable" THEN Fires("voice_retry", "contact")
  ELSE IF IsDoNotCall(in.dnc, in.now) THEN Fires("voice_do_not_call", "abandon")
  ELSE Fires("voice_call", "contact")

DecideHinglishVoice(in, t) ==
  IF in.reason = "mandate_revoked" THEN Fires("mandate_revoked_escalate", "escalate")
  ELSE IF in.reason = "fraud_flagged" THEN Fires("fraud_suppress", "suppress")
  ELSE IF IsDoNotCall(in.dnc, in.now) THEN Fires("voice_do_not_call", "abandon")
  ELSE IF in.reason = "voice_unreachable" THEN Fires("voice_retry", "contact")
  ELSE IF AtVoiceCallCap(in.touches, t) THEN Fires("voice_escalate_human", "escalate")
  ELSE IF AtTouchCap(in.touches, t) THEN Fires("max_touches_cap", "abandon")
  ELSE Fires("voice_call", "contact")

DecidePromiseToPay(in, t) ==
  IF in.reason \in {"ptp_broken", "ptp_missed"} THEN Fires("ptp_missed_escalate", "escalate")
  ELSE IF in.reason = "fraud_flagged" THEN Fires("fraud_suppress", "suppress")
  ELSE IF in.ptpDate = NoDate THEN Fires("ptp_schedule", "hold")
  ELSE IF PtpNeedsSupervisor(in.amount, t) THEN Fires("ptp_missed_escalate", "escalate")
  ELSE IF PtpReminderDue(in.now, in.ptpDate) THEN Fires("ptp_reminder_before", "contact")
  ELSE IF in.now < in.ptpDate THEN Fires("ptp_suppress", "suppress")
  ELSE IF in.now > in.ptpDate THEN Fires("ptp_followup", "contact")
  ELSE Fires("no_op", "none")

DecideForFlow(flow, in, t) ==
  CASE flow = "failed_subscription" -> BaseRetryDecision(in, t)
    [] flow = "mandate_retry" -> DecideMandateRetry(in, t)
    [] flow = "checkout_abandonment" -> DecideCheckoutAbandonment(in, t)
    [] flow = "b2b_receivables" -> DecideB2BReceivables(in, t)
    [] flow = "payment_degradation" -> DecidePaymentDegradation(in)
    [] flow = "hinglish_voice" -> DecideHinglishVoice(in, t)
    [] flow = "promise_to_pay" -> DecidePromiseToPay(in, t)
    [] OTHER -> Fires("no_op", "none")

-----------------------------------------------------------------------------
(* The state transition. *)

FlowContext(ev, attempt, touches, now) ==
  [reason |-> Classify(ev), attempt |-> attempt, touches |-> touches, now |-> now,
   ptpDate |-> ev.signal.ptpDate, overdue |-> ev.signal.overdue,
   window |-> ev.signal.window, dnc |-> ev.signal.dnc, cart |-> ev.signal.cart,
   visits |-> ev.signal.visits, rate |-> ev.signal.rate, amount |-> ev.amount]

(* Slip: the promise is not handed on. *)
StoppingInput_NoPromise(ctx) == [ctx EXCEPT !.amount = 0, !.ptpDate = NoDate]

(* What the engine is given of the context: every field but the amount. *)
StoppingInput(ctx) == [ctx EXCEPT !.amount = 0]

StateFor(decision, flow) ==
  CASE decision = "recover" -> "recovered"
    [] decision = "escalate" -> "escalated"
    [] decision = "suppress" -> "suppressed"
    [] decision = "abandon" -> "abandoned"
    [] decision = "hold" -> IF flow = "promise_to_pay" THEN "waiting_on_ptp" ELSE "retry_scheduled"
    [] decision = "contact" -> "contact_scheduled"
    [] decision = "retry" -> "retry_scheduled"
    [] OTHER -> "detected"

StepState(flow, ctx, t) ==
  LET d == DecideForFlow(flow, StoppingInput(ctx), t)
  IN  [rule |-> d.rule, decision |-> d.decision, state |-> StateFor(d.decision, flow)]

(* Whether carrying the decided action out can recover the money: the sandbox *)
(* draws the result at random, except where the odds are nil or the event     *)
(* itself says so.                                                            *)
ExecuteAction(ev) ==
  CASE ev.flow \in {"failed_subscription", "mandate_retry"} ->
         IF Classify(ev) \in Retryable THEN BOOLEAN ELSE {FALSE}
    [] ev.flow = "payment_degradation" -> {ev.signal.recovered}
    [] OTHER -> BOOLEAN
=============================================================================
