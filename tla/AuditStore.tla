----------------------------- MODULE AuditStore -----------------------------
(***************************************************************************)
(* AuditStore (store.go): one JSONL file, and in every process that opened *)
(* it a store with a mutex and a set of claimed event ids.  The goroutines *)
(* of RunBatch claim an event and then log it; the HTTP handlers of the    *)
(* stream server log notices without claiming them.                        *)
(*                                                                         *)
(* The mutex holds off the goroutines of its own process only, so an       *)
(* append is three steps under it: read the tail, open the file, write.    *)
(* A write may be cut short, and the process may die in the middle of it.  *)
(***************************************************************************)
EXTENDS HashChain, SequencesExt

CONSTANTS
  Processes,
  Callers,          (* goroutines                                      *)
  Owner,            (* the process a goroutine belongs to              *)
  EventIds,         (* events a batch claims before it logs them       *)
  Notices,          (* what handlers log without a claim               *)
  Nobody,           (* the holder of a free mutex                      *)
  Nothing,          (* the payload of a caller that has none           *)
  Cuts,             (* where a write may be cut: see Put               *)
  MaxCalls,         (* bound: calls of Claim and of a handler's Append *)
  MaxClears,        (* bound: calls of Clear                           *)
  MaxCrashes,       (* bound: crashes                                  *)
  MaxFaults         (* bound: writes that fail                         *)

ASSUME OwnerAssumption == Owner \in [Callers -> Processes]
ASSUME NobodyAssumption == Nobody \notin Callers
ASSUME NothingAssumption == Nothing \notin EventIds \cup Notices
ASSUME CutsAssumption == Cuts \subseteq {"partial", "unterminated"}
ASSUME BoundsAssumption ==
  MaxCalls \in Nat /\ MaxClears \in Nat /\ MaxCrashes \in Nat /\ MaxFaults \in Nat

Payloads == EventIds \cup Notices

VARIABLES
  file,             (* the lines of the file that parse                *)
  end,              (* how the file ends: see Put                      *)
  inode,            (* which file the name stands for: Clear unlinks   *)
  store,            (* per process: its mutex, its claims              *)
  call,             (* per goroutine: where it stands in its call      *)
  acked,            (* history: digests of lines Append vouched for    *)
  calls, clears, crashes, faults

bounds == <<calls, clears, crashes, faults>>
vars == <<file, end, inode, store, call, acked, calls, clears, crashes, faults>>

NewStore == [holder |-> Nobody, claimed |-> {}, hydrated |-> FALSE]
NoCall == [pc |-> "idle", payload |-> Nothing, granted |-> FALSE, tail |-> <<>>, inode |-> 0]

(* Slip: what does not parse is skipped. *)
Readable_Lenient == TRUE
Readable == end # "partial"
(* Slip: the mutex is not taken. *)
MutexFree_Unlocked(c) == TRUE
MutexFree(c) == store[Owner[c]].holder = Nobody
Logged == {file[i].payload : i \in DOMAIN file}
(* Slip: the claim set is not rebuilt from the log. *)
Known_NotHydrated(p) == store[p].claimed
Known(p) ==
  IF store[p].hydrated THEN store[p].claimed ELSE store[p].claimed \cup Logged

Init ==
  /\ file = <<>> /\ end = "clean" /\ inode = 0
  /\ store = [p \in Processes |-> NewStore]
  /\ call = [c \in Callers |-> NoCall]
  /\ acked = {}
  /\ calls = 0 /\ clears = 0 /\ crashes = 0 /\ faults = 0

(* Claim is one step: it reads the file at most once, under the mutex, and   *)
(* the claim set is the process's own.  RunBatch logs the event either way,  *)
(* as its work or as a duplicate.                                            *)
Claim(c, e) ==
  LET p == Owner[c]
  IN  /\ call[c].pc = "idle" /\ calls < MaxCalls
      /\ MutexFree(c)
      /\ store[p].hydrated \/ Readable
      /\ calls' = calls + 1
      /\ store' = [store EXCEPT ![p].hydrated = TRUE, ![p].claimed = Known(p) \cup {e}]
      /\ call' = [call EXCEPT ![c] = [NoCall EXCEPT !.pc = "append", !.payload = e,
                                                    !.granted = e \notin Known(p)]]
      /\ UNCHANGED <<file, end, inode, acked, clears, crashes, faults>>

(* handlePaymentEvent and handleAdminAction append straight away. *)
Notify(c, n) ==
  /\ call[c].pc = "idle" /\ calls < MaxCalls
  /\ calls' = calls + 1
  /\ call' = [call EXCEPT ![c] = [NoCall EXCEPT !.pc = "append", !.payload = n]]
  /\ UNCHANGED <<file, end, inode, store, acked, clears, crashes, faults>>

(* Slip: the process, not the goroutine, is put down as the holder. *)
ReadTail_WrongHolder(c) ==
  /\ call[c].pc = "append" /\ MutexFree(c) /\ Readable
  /\ store' = [store EXCEPT ![Owner[c]].holder = Owner[c]]
  /\ call' = [call EXCEPT ![c].pc = "open", ![c].tail = TailHash(file)]
  /\ UNCHANGED <<file, end, inode, acked, bounds>>

(* Append: the mutex, then readLastHash, which fails on a torn line. *)
ReadTail(c) ==
  /\ call[c].pc = "append" /\ MutexFree(c) /\ Readable
  /\ store' = [store EXCEPT ![Owner[c]].holder = c]
  /\ call' = [call EXCEPT ![c].pc = "open", ![c].tail = TailHash(file)]
  /\ UNCHANGED <<file, end, inode, acked, bounds>>

ReadFails(c) ==
  /\ call[c].pc = "append" /\ MutexFree(c) /\ ~Readable
  /\ call' = [call EXCEPT ![c] = NoCall]
  /\ UNCHANGED <<file, end, inode, store, acked, bounds>>

OpenFile(c) ==
  /\ call[c].pc = "open"
  /\ call' = [call EXCEPT ![c].pc = "write", ![c].inode = inode]
  /\ UNCHANGED <<file, end, inode, store, acked, bounds>>

(* Release the mutex and return. *)
Done(c) ==
  /\ store' = [store EXCEPT ![Owner[c]].holder = Nobody]
  /\ call' = [call EXCEPT ![c] = NoCall]

(* The bytes reach the open file, unless another process has unlinked it: the *)
(* whole line, the text without its newline ("unterminated", and it parses),  *)
(* or less ("partial", and it does not).  Behind a line without a newline     *)
(* they join it, and what comes of it does not parse.                         *)
Put(c, how) ==
  IF call[c].inode # inode THEN UNCHANGED <<file, end>>
  ELSE IF end = "clean" /\ how # "partial"
    THEN /\ file' = Append(file, Line(call[c].payload, call[c].tail))
         /\ end' = IF how = "whole" THEN "clean" ELSE how
  ELSE /\ file' = IF end = "unterminated" THEN Front(file) ELSE file
       /\ end' = "partial"

Write(c) ==
  /\ call[c].pc = "write"
  /\ Put(c, "whole")
  /\ acked' = acked \cup {ComputeHash(call[c].tail, call[c].payload)}
  /\ Done(c)
  /\ UNCHANGED <<inode, bounds>>

(* Slip: the error of the write is dropped. *)
WriteFails_Unheeded(c) ==
  /\ call[c].pc = "write" /\ faults < MaxFaults
  /\ faults' = faults + 1
  /\ UNCHANGED <<file, end>>
  /\ acked' = acked \cup {ComputeHash(call[c].tail, call[c].payload)}
  /\ Done(c)
  /\ UNCHANGED <<inode, calls, clears, crashes>>

WriteFails(c) ==
  /\ call[c].pc = "write" /\ faults < MaxFaults
  /\ faults' = faults + 1
  /\ UNCHANGED <<file, end>> \/ \E how \in Cuts : Put(c, how)
  /\ Done(c)
  /\ UNCHANGED <<inode, acked, calls, clears, crashes>>

(* run-batch clears the log before it starts anything else. *)
Clear(p) ==
  /\ clears < MaxClears
  /\ \A c \in Callers : Owner[c] = p => call[c].pc = "idle"
  /\ clears' = clears + 1
  /\ file' = <<>> /\ end' = "clean" /\ inode' = inode + 1 /\ acked' = {}
  /\ store' = [store EXCEPT ![p] = NewStore]
  /\ UNCHANGED <<call, calls, crashes, faults>>

(* The process dies, maybe in a write: of the line all, some or nothing is    *)
(* on disk.  Its next life opens a new store over the file.                   *)
Crash(p) ==
  /\ crashes < MaxCrashes
  /\ crashes' = crashes + 1
  /\ call' = [c \in Callers |-> IF Owner[c] = p THEN NoCall ELSE call[c]]
  /\ store' = [store EXCEPT ![p] = NewStore]
  /\ \/ UNCHANGED <<file, end>>
     \/ \E c \in Callers, how \in Cuts \cup {"whole"} :
          Owner[c] = p /\ call[c].pc = "write" /\ Put(c, how)
  /\ UNCHANGED <<inode, acked, calls, clears, faults>>

Quiescent ==
  /\ calls = MaxCalls /\ \A c \in Callers : call[c].pc = "idle"
  /\ UNCHANGED vars

Unreadable ==
  /\ ~Readable /\ \A c \in Callers : call[c].pc = "idle"
  /\ UNCHANGED vars

Next ==
  \/ \E c \in Callers :
       \/ \E e \in EventIds : Claim(c, e)
       \/ \E n \in Notices : Notify(c, n)
       \/ ReadTail(c) \/ ReadFails(c) \/ OpenFile(c) \/ Write(c) \/ WriteFails(c)
  \/ \E p \in Processes : Clear(p) \/ Crash(p)
  \/ Quiescent \/ Unreadable

Spec == Init /\ [][Next]_vars
-----------------------------------------------------------------------------
Digests == Seq(Payloads)
Lines == [payload : Payloads, prev : Digests, hash : Digests]

(* Every variable has its type. *)
TypeOK ==
  /\ file \in Seq(Lines) /\ end \in {"clean", "unterminated", "partial"} /\ inode \in Nat
  /\ store \in [Processes -> [holder : Callers \cup {Nobody},
                              claimed : SUBSET Payloads, hydrated : BOOLEAN]]
  /\ call \in [Callers -> [pc : {"idle", "append", "open", "write"},
                           payload : Payloads \cup {Nothing}, granted : BOOLEAN,
                           tail : Digests, inode : Nat]]
  /\ acked \subseteq Digests
  /\ calls \in Nat /\ clears \in Nat /\ crashes \in Nat /\ faults \in Nat

(* The log is a hash chain at every moment, in the middle of every append and *)
(* after every crash and failed write ("so the log is a hash chain").         *)
ChainValid == VerifyChain(file).valid

(* A line whose Append returned no error stays in the log, with everything    *)
(* that stood before it, until the log is cleared.                            *)
AckedStays == \A d \in acked : \E i \in DOMAIN file : file[i].hash = d

(* Claim never grants an event the log already has a row of, whichever life   *)
(* of the process wrote it: a restart refuses what was done before it.        *)
NoGrantOfLogged ==
  [][\A c \in Callers :
       (~call[c].granted /\ call'[c].granted) => call'[c].payload \notin Logged]_vars

(* A cut line is loud: as long as the log is not cleared, nothing is added or *)
(* vouched for behind it.                                                     *)
LoudAfterCut ==
  [][(end # "clean" /\ inode' = inode) => UNCHANGED <<file, acked>>]_vars

(* The digest at the tail is the whole log: it grows by one entry at a time   *)
(* or is wiped.                                                               *)
Log == INSTANCE AuditLog WITH entries <- TailHash(file)
KeepsAuditLog == Log!Spec
=============================================================================
