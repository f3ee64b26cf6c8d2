---------------------------- MODULE MCAuditStore ----------------------------
(* Instances of AuditStore for TLC. *)
EXTENDS AuditStore, TLC

CONSTANT p1

(* run-batch --stream: the batch and two HTTP handlers in one process. *)
OneProcess == [c \in Callers |-> p1]
=============================================================================
