------------------------------ MODULE AuditLog ------------------------------
(***************************************************************************)
(* What one process's audit store promises: a log that only grows at its   *)
(* end, until the process that is about to run a new batch wipes it.       *)
(* AuditStore implements it as long as one process writes the file.        *)
(***************************************************************************)
EXTENDS Sequences

CONSTANT Payloads
VARIABLE entries

Init == entries = <<>>

Add(p) == entries' = Append(entries, p)
Wipe == entries' = <<>>

Next == Wipe \/ \E p \in Payloads : Add(p)

Spec == Init /\ [][Next]_entries
=============================================================================
