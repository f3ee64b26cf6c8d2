--------------------------- MODULE PaymentLedger ---------------------------
(***************************************************************************)
(* What a checkout promises whoever pressed the button: it is answered at  *)
(* most once, and told "ok" only of a payment that was made and is on      *)
(* record as verified.  A negative answer promises nothing.                *)
(***************************************************************************)
CONSTANT Checkouts

VARIABLES
  paid,             (* checkouts whose payment was made                  *)
  verified,         (* those on record as verified                       *)
  answer            (* per checkout: "none", "ok" or "no"                *)

vars == <<paid, verified, answer>>

Init == paid = {} /\ verified = {} /\ answer = [c \in Checkouts |-> "none"]

Pay(c) ==
  /\ c \notin paid
  /\ paid' = paid \cup {c}
  /\ UNCHANGED <<verified, answer>>

Record(c) ==
  /\ c \in paid /\ c \notin verified
  /\ verified' = verified \cup {c}
  /\ UNCHANGED <<paid, answer>>

(* Several checkouts of one page end when it is reloaded. *)
Answer(C, a) ==
  /\ C # {} /\ \A c \in C : answer[c] = "none"
  /\ a = "ok" => C \subseteq verified
  /\ answer' = [c \in Checkouts |-> IF c \in C THEN a ELSE answer[c]]
  /\ UNCHANGED <<paid, verified>>

Next ==
  \/ \E c \in Checkouts : Pay(c) \/ Record(c)
  \/ \E C \in SUBSET Checkouts, a \in {"ok", "no"} : Answer(C, a)

Spec == Init /\ [][Next]_vars
=============================================================================
