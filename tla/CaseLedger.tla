----------------------------- MODULE CaseLedger -----------------------------
(***************************************************************************)
(* What the audit log and the claim gate together promise of each event: a *)
(* case is opened once, belongs to the one run that opened it, is acted on *)
(* with attempts 0, 1, 2, ... while it is open, and never after it closed. *)
(* Runner implements it.                                                   *)
(***************************************************************************)
EXTENDS Naturals, Sequences, FiniteSets

CONSTANTS EventIds, Runs

VARIABLES
  status,   (* per event: "new", "open" or "closed"             *)
  done      (* the actions carried out, in order                *)

vars == <<status, done>>

Of(e) == {i \in DOMAIN done : done[i].event = e}

Init == status = [e \in EventIds |-> "new"] /\ done = <<>>

Open(e) ==
  /\ status[e] = "new"
  /\ status' = [status EXCEPT ![e] = "open"]
  /\ UNCHANGED done

Act(e, r) ==
  /\ status[e] = "open"
  /\ \A i \in Of(e) : done[i].run = r
  /\ done' = Append(done, [event |-> e, attempt |-> Cardinality(Of(e)), run |-> r])
  /\ UNCHANGED status

(* Settling the first decision closes a case that was not opened for action. *)
Close(e) ==
  /\ status[e] # "closed"
  /\ status' = [status EXCEPT ![e] = "closed"]
  /\ UNCHANGED done

Next == \E e \in EventIds : Open(e) \/ Close(e) \/ \E r \in Runs : Act(e, r)

Spec == Init /\ [][Next]_vars
=============================================================================
