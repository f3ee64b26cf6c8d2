---------------------------- MODULE MCAdminDesk ----------------------------
(* Instances of AdminDesk for TLC. *)
EXTENDS AdminDesk, TLC

CONSTANT c1

(* A daytime and a night-time clock: 12:00 and 22:00 in India. *)
Noon == 100 * Day + 13
DayAndNight == {Noon, 100 * Day + 33}
NoonOnly == {Noon}

Event(id, flow, signal) ==
  [id |-> id, flow |-> flow, customer |-> c1, amount |-> 100, signal |-> signal]

(* A promise that is to be made, a fraud, a payment promised for tomorrow, a  *)
(* revoked mandate, a call, and a customer not to be called.                  *)
PromiseP == Event("p", "promise_to_pay", NoSignal)
FraudF == Event("f", "failed_subscription", [NoSignal EXCEPT !.code = "fraud_flagged"])
LaterL == Event("l", "promise_to_pay", [NoSignal EXCEPT !.ptpDate = Noon + 2 * Day])
MandateM == Event("m", "mandate_retry", [NoSignal EXCEPT !.code = "mandate_revoked"])
CallV == Event("v", "hinglish_voice", NoSignal)
SilentS == Event("s", "hinglish_voice", [NoSignal EXCEPT !.dnc = TRUE])

AllEvents == {PromiseP, FraudF, LaterL, MandateM, CallV, SilentS}
OneByOne == {<<ev>> : ev \in AllEvents}
FewEvents == {PromiseP, FraudF, CallV}
FewBatches == {<<PromiseP>>, <<FraudF>>, <<CallV>>}
(* The server does not know the others. *)
Known == {PromiseP, CallV, SilentS}
FewKnown == {PromiseP, CallV}

AdminSymmetry == Permutations(Admins)
=============================================================================
