---------------------------- MODULE MCAuditStream ----------------------------
(* An instance of AuditStream for TLC: two goroutines append, the tamper demo *)
(* runs once, and the UI reconnects over as many connections as there are.    *)
EXTENDS AuditStream, TLC
=============================================================================
