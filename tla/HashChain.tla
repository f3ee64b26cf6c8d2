------------------------------ MODULE HashChain ------------------------------
(***************************************************************************)
(* The hash chain over the audit log (chain.go).  A digest is the sequence *)
(* of all payloads it commits to: hashing is injective and nothing else,   *)
(* which is what the chain relies on.  A line of the log carries what was  *)
(* recorded, the digest before it and its own.                             *)
(***************************************************************************)
EXTENDS Integers, Sequences, FiniteSetsExt

GenesisHash == <<>>

ComputeHash(prev, payload) == Append(prev, payload)

(* readLastHash: the digest the next line has to build on. *)
TailHash(lines) == IF lines = <<>> THEN GenesisHash ELSE lines[Len(lines)].hash

Line(payload, prev) ==
  [payload |-> payload, prev |-> prev, hash |-> ComputeHash(prev, payload)]

AppendAuditEntry(lines, payload) == Append(lines, Line(payload, TailHash(lines)))

ExpectedPrev(lines, i) == IF i = 1 THEN GenesisHash ELSE lines[i - 1].hash

BrokenLines(lines) ==
  {i \in DOMAIN lines : \/ lines[i].prev # ExpectedPrev(lines, i)
                        \/ lines[i].hash # ComputeHash(lines[i].prev, lines[i].payload)}

(* The first broken line counts from 0, and is -1 when the chain verifies. *)
VerifyChain(lines) ==
  LET broken == BrokenLines(lines)
  IN  [valid |-> broken = {}, entries |-> Len(lines),
       brokenAt |-> IF broken = {} THEN -1 ELSE Min(broken) - 1]
=============================================================================
