------------------------------ MODULE MCRunner ------------------------------
(* Instances of Runner for TLC. *)
EXTENDS Runner, TLC

CONSTANT c1

(* A daytime and a night-time clock: tick 4829 is 12:00, 4849 is 22:00 in India. *)
Noon == 100 * Day + 13
Night == 100 * Day + 33

Event(id, flow, customer, amount, signal) ==
  [id |-> id, flow |-> flow, customer |-> customer, amount |-> amount, signal |-> signal]

SmallTunables == [DefaultTunables EXCEPT !.maxRetry = 2, !.maxTouches = 2]
TwoTries == [DefaultTunables EXCEPT !.maxRetry = 2]

(* Two subscriptions of one customer. *)
SubA == Event("a", "failed_subscription", c1, 100, [NoSignal EXCEPT !.code = "insufficient_funds"])
SubB == Event("b", "failed_subscription", c1, 100, [NoSignal EXCEPT !.code = "card_expired"])

(* One event delivered over and over. *)
OneEvent == {SubA}
OneBatch == {<<SubA>>}

(* Two events that share a customer, in both orders. *)
TwoEvents == {SubA, SubB}
TwoBatches == {<<SubA>>, <<SubA, SubB>>, <<SubB, SubA>>}

(* A customer who does not answer, called until the loop guard or a recovery *)
(* ends it.                                                                  *)
CallV == Event("v", "hinglish_voice", c1, 100, NoSignal)

(* Events of three capped flows that share a customer. *)
CartC == Event("c", "checkout_abandonment", c1, 100,
               [NoSignal EXCEPT !.step = "payment", !.visits = 2])
DebtD == Event("d", "b2b_receivables", c1, 100, [NoSignal EXCEPT !.overdue = 45])
SharedEvents == {SubA, CartC, DebtD, CallV}
SharedBatches == {<<x, y, z>> : x, y, z \in SharedEvents}

(* Every input the policy tells apart, one event to a batch. *)
Retries(flow, dates, windows) ==
  LET says == {{}, {"limit"}, {"expired"}, {"mandate"}, {"mandate", "cancel"}, {"risk"}, {"auth"}}
      codes == {"insufficient_funds", "card_expired", "mandate_revoked", "fraud_flagged",
                "bank_declined_transient", "auth_3ds_abandoned", "issuer_down"}
      causes == {[NoSignal EXCEPT !.code = c] : c \in codes}
                  \cup {[NoSignal EXCEPT !.words = w] : w \in says}
  IN  {Event("e", flow, c1, 100, [s EXCEPT !.ptpDate = d, !.window = w]) :
         s \in causes, d \in dates, w \in windows}

Dates == {NoDate, Noon - 1, Noon, Noon + 1, Noon + Day, Noon + Day + 1}
Windows == {NoWindow} \cup {[start |-> Noon - b, end |-> Noon + a] :
                             b \in {0, Day, 2 * Day, 3 * Day}, a \in {-1, 0, Day}}

PolicyEvents ==
  Retries("failed_subscription", Dates, {NoWindow})
    \cup Retries("mandate_retry", {NoDate, Noon + 1}, Windows)
    \cup {Event("e", "checkout_abandonment", c1, 100,
            [NoSignal EXCEPT !.error = x, !.step = p, !.slow = l, !.visits = v, !.cart = k,
                             !.ptpDate = d]) :
            x, l \in BOOLEAN, p \in {"payment", "address", ""}, v \in 0..2,
            k \in {0, 50000}, d \in {NoDate, Noon + 1}}
    \cup {Event("e", "b2b_receivables", c1, 100,
            [NoSignal EXCEPT !.disputed = x, !.overdue = n, !.ptpDate = d]) :
            x \in BOOLEAN, n \in {0, 29, 30, 59, 60, 119, 120}, d \in {NoDate, Noon + 1}}
    \cup {Event("e", "payment_degradation", c1, 100,
            [NoSignal EXCEPT !.code = c, !.rate = n, !.issuerDown = x, !.recovered = y]) :
            c \in {"", "fraud_flagged", "mandate_revoked", "issuer_down", "success_rate_drop"},
            n \in {0, 84, 85}, x, y \in BOOLEAN}
    \cup {Event("e", "hinglish_voice", c1, 100,
            [NoSignal EXCEPT !.call = k, !.dnc = x, !.ptpDate = d]) :
            k \in {"", "missed", "call_back_requested"}, x \in BOOLEAN,
            d \in {NoDate, Noon + 1}}
    \cup {Event("e", "promise_to_pay", c1, n,
            [NoSignal EXCEPT !.ptp = p, !.ptpDate = d]) :
            n \in {100, 2000000}, p \in {"", "broken", "missed"}, d \in Dates}
PolicyBatches == {<<ev>> : ev \in PolicyEvents}
AllEvents == PolicyEvents \cup SharedEvents
AllBatches == PolicyBatches \cup SharedBatches
DayAndNight == {Noon, Night}

GoroutineSymmetry == Permutations(Goroutines)
DayClock == {Noon}
=============================================================================
