-------------------------- MODULE AuditStoreProofs --------------------------
(***************************************************************************)
(* Theorems about AuditStore: as long as one process writes the file, the  *)
(* log is a hash chain and implements AuditLog, for any number of          *)
(* goroutines, events and notices, over crashes, failing writes and        *)
(* restarts.                                                               *)
(***************************************************************************)
EXTENDS AuditStore, SequenceTheorems, TLAPS

(* One process writes the file. *)
SingleProcess == \A p, q \in Processes : p = q
(* A cut write leaves what does not parse. *)
CutsDoNotParse == Cuts \subseteq {"partial"}
(* What handlers log is not what batches claim. *)
KindsDiffer == EventIds \cap Notices = {}

-----------------------------------------------------------------------------
CallType ==
  [pc : {"idle", "append", "open", "write"}, payload : Payloads \cup {Nothing},
   granted : BOOLEAN, tail : Digests, inode : Nat]
StoreType == [holder : Callers \cup {Nobody}, claimed : SUBSET Payloads, hydrated : BOOLEAN]

Parts ==
  /\ file \in Seq(Lines) /\ end \in {"clean", "unterminated", "partial"} /\ inode \in Nat
  /\ store \in [Processes -> StoreType] /\ call \in [Callers -> CallType]
  /\ acked \subseteq Digests
  /\ calls \in Nat /\ clears \in Nat /\ crashes \in Nat /\ faults \in Nat

LEMMA TypesAreParts == TypeOK <=> Parts
BY DEF TypeOK, Parts, CallType, StoreType

(* What a step does to the call of a goroutine and to a store. *)
Becomes(c, pc, payload, granted, tail, node) ==
  /\ call' \in [Callers -> CallType]
  /\ call'[c].pc = pc /\ call'[c].payload = payload /\ call'[c].granted = granted
  /\ call'[c].tail = tail /\ call'[c].inode = node
  /\ \A d \in Callers \ {c} : call'[d] = call[d]
Holds(p, holder) ==
  /\ store' \in [Processes -> StoreType]
  /\ store'[p].holder = holder /\ store'[p].claimed = store[p].claimed
  /\ store'[p].hydrated = store[p].hydrated
  /\ \A q \in Processes \ {p} : store'[q] = store[q]

LEMMA NoCallTyped == NoCall \in CallType
BY EmptySeq DEF NoCall, CallType, Digests

LEMMA Calls ==
  ASSUME call \in [Callers -> CallType], NEW c \in Callers, NEW k \in CallType,
         call' = [call EXCEPT ![c] = k]
  PROVE  Becomes(c, k.pc, k.payload, k.granted, k.tail, k.inode)
BY DEF Becomes

LEMMA Begins ==
  ASSUME call \in [Callers -> CallType], NEW c \in Callers,
         NEW payload \in Payloads, NEW granted \in BOOLEAN
  PROVE  /\ call' = [call EXCEPT ![c] = [NoCall EXCEPT !.pc = "append", !.payload = payload,
                                                       !.granted = granted]]
              => Becomes(c, "append", payload, granted, <<>>, 0)
         /\ call' = [call EXCEPT ![c] = [NoCall EXCEPT !.pc = "append", !.payload = payload]]
              => Becomes(c, "append", payload, FALSE, <<>>, 0)
<1> DEFINE A == [NoCall EXCEPT !.pc = "append"]
           B == [A EXCEPT !.payload = payload]
           G == [B EXCEPT !.granted = granted]
<1>1. /\ NoCall \in CallType /\ ~NoCall.granted /\ NoCall.tail = <<>> /\ NoCall.inode = 0
      /\ NoCall.granted = FALSE
  BY NoCallTyped DEF NoCall
<1>2. /\ A \in CallType /\ A.pc = "append" /\ A.granted = NoCall.granted
      /\ A.tail = NoCall.tail /\ A.inode = NoCall.inode
  BY <1>1 DEF CallType
<1>3. /\ B \in CallType /\ B.pc = "append" /\ B.payload = payload
      /\ B.granted = NoCall.granted /\ B.tail = NoCall.tail /\ B.inode = NoCall.inode
  BY <1>2 DEF CallType
<1>4. /\ G \in CallType /\ G.pc = "append" /\ G.payload = payload /\ G.granted = granted
      /\ G.tail = NoCall.tail /\ G.inode = NoCall.inode
  BY <1>3 DEF CallType
<1>5. /\ [NoCall EXCEPT !.pc = "append", !.payload = payload, !.granted = granted] = G
      /\ [NoCall EXCEPT !.pc = "append", !.payload = payload] = B
  OBVIOUS
<1> HIDE DEF A, B, G
<1>6. call' = [call EXCEPT ![c] = G] => Becomes(c, "append", payload, granted, <<>>, 0)
  BY <1>1, <1>4 DEF Becomes
<1>7. call' = [call EXCEPT ![c] = B] => Becomes(c, "append", payload, FALSE, <<>>, 0)
  BY <1>1, <1>3 DEF Becomes
<1> QED
  BY <1>5, <1>6, <1>7

LEMMA GoesOn ==
  ASSUME call \in [Callers -> CallType], NEW c \in Callers,
         NEW pc \in {"open", "write"}, NEW tail \in Digests, NEW node \in Nat
  PROVE  /\ call' = [call EXCEPT ![c].pc = pc, ![c].tail = tail]
              => Becomes(c, pc, call[c].payload, call[c].granted, tail, call[c].inode)
         /\ call' = [call EXCEPT ![c].pc = pc, ![c].inode = node]
              => Becomes(c, pc, call[c].payload, call[c].granted, call[c].tail, node)
<1> DEFINE A == [call[c] EXCEPT !.pc = pc]
           T == [A EXCEPT !.tail = tail]
           I == [A EXCEPT !.inode = node]
<1>1. call[c] \in CallType
  OBVIOUS
<1>2. /\ A \in CallType /\ A.pc = pc /\ A.payload = call[c].payload
      /\ A.granted = call[c].granted /\ A.tail = call[c].tail /\ A.inode = call[c].inode
  BY <1>1 DEF CallType
<1>3. /\ T \in CallType /\ T.pc = pc /\ T.payload = call[c].payload
      /\ T.granted = call[c].granted /\ T.tail = tail /\ T.inode = call[c].inode
      /\ I \in CallType /\ I.pc = pc /\ I.payload = call[c].payload
      /\ I.granted = call[c].granted /\ I.tail = call[c].tail /\ I.inode = node
  BY <1>2 DEF CallType
<1>4. /\ call' = [call EXCEPT ![c].pc = pc, ![c].tail = tail]
           => call' = [call EXCEPT ![c] = T]
      /\ call' = [call EXCEPT ![c].pc = pc, ![c].inode = node]
           => call' = [call EXCEPT ![c] = I]
  OBVIOUS
<1> HIDE DEF A, T, I
<1> QED
  BY <1>3, <1>4 DEF Becomes

LEMMA Handed ==
  ASSUME store \in [Processes -> StoreType], NEW p \in Processes,
         NEW h \in Callers \cup {Nobody}, store' = [store EXCEPT ![p].holder = h]
  PROVE  Holds(p, h)
<1> DEFINE S == [store[p] EXCEPT !.holder = h]
<1>1. /\ S \in StoreType /\ S.holder = h /\ S.claimed = store[p].claimed
      /\ S.hydrated = store[p].hydrated
  BY DEF StoreType
<1>2. store' = [store EXCEPT ![p] = S]
  OBVIOUS
<1> HIDE DEF S
<1> QED
  BY <1>1, <1>2 DEF Holds

LEMMA Hydrated ==
  ASSUME store \in [Processes -> StoreType], NEW p \in Processes,
         NEW claimed \in SUBSET Payloads,
         store' = [store EXCEPT ![p].hydrated = TRUE, ![p].claimed = claimed]
  PROVE  /\ store' \in [Processes -> StoreType]
         /\ store'[p].holder = store[p].holder /\ store'[p].claimed = claimed
         /\ store'[p].hydrated
         /\ \A q \in Processes \ {p} : store'[q] = store[q]
<1> DEFINE H == [store[p] EXCEPT !.hydrated = TRUE]
           S == [H EXCEPT !.claimed = claimed]
<1>1. /\ H \in StoreType /\ H.holder = store[p].holder /\ H.hydrated
  BY DEF StoreType
<1>2. /\ S \in StoreType /\ S.holder = store[p].holder /\ S.claimed = claimed /\ S.hydrated
  BY <1>1 DEF StoreType
<1>3. store' = [store EXCEPT ![p] = S]
  OBVIOUS
<1> HIDE DEF H, S
<1> QED
  BY <1>2, <1>3

-----------------------------------------------------------------------------
(* Types.  Whoever appends has something to append. *)
HasPayload == \A c \in Callers : call[c].pc # "idle" => call[c].payload \in Payloads

LEMMA TailTyped == ASSUME file \in Seq(Lines) PROVE TailHash(file) \in Digests
<1>1. CASE file = <<>>
  BY <1>1, EmptySeq DEF TailHash, GenesisHash, Digests
<1>2. CASE file # <<>>
  <2>1. Len(file) \in 1..Len(file) /\ file[Len(file)] \in Lines
    BY <1>2
  <2> QED
    BY <1>2, <2>1 DEF TailHash, Lines
<1> QED
  BY <1>1, <1>2

LEMMA LineTyped ==
  ASSUME NEW payload \in Payloads, NEW prev \in Digests
  PROVE  Line(payload, prev) \in Lines
BY AppendProperties DEF Line, Lines, ComputeHash, Digests

(* How the file may change: it stays, grows by a line, is cut or wiped. *)
LEMMA PutCases ==
  ASSUME NEW c \in Callers, NEW how \in {"whole", "partial", "unterminated"}, Put(c, how)
  PROVE  \/ UNCHANGED <<file, end>>
         \/ /\ end = "clean" /\ how # "partial" /\ call[c].inode = inode
            /\ file' = Append(file, Line(call[c].payload, call[c].tail))
            /\ end' = IF how = "whole" THEN "clean" ELSE how
         \/ file' = (IF end = "unterminated" THEN Front(file) ELSE file) /\ end' = "partial"
BY DEF Put

LEMMA FrontTyped == ASSUME file \in Seq(Lines) PROVE Front(file) \in Seq(Lines)
<1>1. CASE file = <<>>
  BY <1>1, SubSeqEmpty DEF Front
<1>2. CASE file # <<>>
  BY <1>2, SubSeqProperties DEF Front
<1> QED
  BY <1>1, <1>2

LEMMA PutTyped ==
  ASSUME Parts, HasPayload, NEW c \in Callers, call[c].pc = "write",
         NEW how \in {"whole", "partial", "unterminated"}, Put(c, how)
  PROVE  file' \in Seq(Lines) /\ end' \in {"clean", "unterminated", "partial"}
<1>1. Line(call[c].payload, call[c].tail) \in Lines
  BY LineTyped DEF Parts, CallType, HasPayload
<1>2. Append(file, Line(call[c].payload, call[c].tail)) \in Seq(Lines)
  BY <1>1 DEF Parts
<1> QED
  BY <1>2, PutCases, FrontTyped DEF Parts

(* What a goroutine's step does to its call and its store. *)
LEMMA Shapes ==
  ASSUME Parts, HasPayload, NEW c \in Callers
  PROVE  /\ \A e \in EventIds : Claim(c, e) =>
              /\ Becomes(c, "append", e, e \notin Known(Owner[c]), <<>>, 0)
              /\ store' \in [Processes -> StoreType]
              /\ store'[Owner[c]].holder = store[Owner[c]].holder
              /\ store'[Owner[c]].claimed = Known(Owner[c]) \cup {e}
              /\ store'[Owner[c]].hydrated
              /\ \A q \in Processes \ {Owner[c]} : store'[q] = store[q]
         /\ \A n \in Notices : Notify(c, n) => Becomes(c, "append", n, FALSE, <<>>, 0)
         /\ ReadTail(c) =>
              /\ Becomes(c, "open", call[c].payload, call[c].granted, TailHash(file), call[c].inode)
              /\ Holds(Owner[c], c)
         /\ ReadFails(c) => Becomes(c, "idle", Nothing, FALSE, <<>>, 0)
         /\ OpenFile(c) =>
              Becomes(c, "write", call[c].payload, call[c].granted, call[c].tail, inode)
         /\ Done(c) => Becomes(c, "idle", Nothing, FALSE, <<>>, 0) /\ Holds(Owner[c], Nobody)
<1>0. /\ Owner[c] \in Processes /\ call \in [Callers -> CallType]
      /\ store \in [Processes -> StoreType] /\ inode \in Nat /\ TailHash(file) \in Digests
  BY OwnerAssumption, TailTyped DEF Parts
<1>1. ASSUME NEW e \in EventIds, Claim(c, e)
      PROVE  /\ Becomes(c, "append", e, e \notin Known(Owner[c]), <<>>, 0)
             /\ store' \in [Processes -> StoreType]
             /\ store'[Owner[c]].holder = store[Owner[c]].holder
             /\ store'[Owner[c]].claimed = Known(Owner[c]) \cup {e}
             /\ store'[Owner[c]].hydrated
             /\ \A q \in Processes \ {Owner[c]} : store'[q] = store[q]
  <2>1. Logged \subseteq Payloads
    <3>1. \A i \in DOMAIN file : file[i] \in Lines
      BY ElementOfSeq DEF Parts
    <3> QED
      BY <3>1 DEF Logged, Lines
  <2>2. Known(Owner[c]) \cup {e} \in SUBSET Payloads /\ e \in Payloads
    BY <1>0, <2>1 DEF Known, StoreType, Payloads
  <2>3. Becomes(c, "append", e, e \notin Known(Owner[c]), <<>>, 0)
    <3> DEFINE g == e \notin Known(Owner[c])
    <3>1. call' = [call EXCEPT ![c] = [NoCall EXCEPT !.pc = "append", !.payload = e,
                                                     !.granted = g]]
      BY <1>1 DEF Claim
    <3>2. g \in BOOLEAN
      OBVIOUS
    <3> HIDE DEF g
    <3>3. Becomes(c, "append", e, g, <<>>, 0)
      BY <1>0, <2>2, <3>1, <3>2, Begins
    <3> QED
      BY <3>3 DEF g
  <2> QED
    <3>1. store' = [store EXCEPT ![Owner[c]].hydrated = TRUE,
                                 ![Owner[c]].claimed = Known(Owner[c]) \cup {e}]
      BY <1>1 DEF Claim
    <3> DEFINE o == Owner[c]
               known == Known(o) \cup {e}
    <3>2. /\ store \in [Processes -> StoreType] /\ o \in Processes /\ known \in SUBSET Payloads
          /\ store' = [store EXCEPT ![o].hydrated = TRUE, ![o].claimed = known]
      BY <1>0, <2>2, <3>1
    <3> HIDE DEF o, known
    <3>3. /\ store' \in [Processes -> StoreType]
          /\ store'[o].holder = store[o].holder
          /\ store'[o].claimed = known
          /\ store'[o].hydrated
          /\ \A q \in Processes \ {o} : store'[q] = store[q]
      BY <3>2, Hydrated
    <3> QED
      BY <2>3, <3>3 DEF o, known
<1>2. ASSUME NEW n \in Notices, Notify(c, n) PROVE Becomes(c, "append", n, FALSE, <<>>, 0)
  BY <1>0, <1>2, Begins DEF Notify, Payloads
<1>3. ASSUME ReadTail(c)
      PROVE  /\ Becomes(c, "open", call[c].payload, call[c].granted, TailHash(file), call[c].inode)
             /\ Holds(Owner[c], c)
  BY <1>0, <1>3, GoesOn, Handed DEF ReadTail
<1>4. /\ NoCall \in CallType /\ NoCall.pc = "idle" /\ NoCall.payload = Nothing
      /\ NoCall.granted = FALSE /\ NoCall.tail = <<>> /\ NoCall.inode = 0
  BY NoCallTyped DEF NoCall
<1>5. call' = [call EXCEPT ![c] = NoCall] => Becomes(c, "idle", Nothing, FALSE, <<>>, 0)
  BY <1>0, <1>4 DEF Becomes
<1>6. ASSUME OpenFile(c)
      PROVE  Becomes(c, "write", call[c].payload, call[c].granted, call[c].tail, inode)
  BY <1>0, <1>6, GoesOn DEF OpenFile
<1>7. Done(c) => Holds(Owner[c], Nobody)
  BY <1>0, Handed DEF Done
<1> QED
  BY <1>1, <1>2, <1>3, <1>5, <1>6, <1>7 DEF ReadFails, Done

LEMMA Dies ==
  ASSUME Parts, NEW p \in Processes
  PROVE  /\ NewStore \in StoreType
         /\ store' = [store EXCEPT ![p] = NewStore] =>
              /\ store' \in [Processes -> StoreType] /\ store'[p] = NewStore
              /\ \A q \in Processes \ {p} : store'[q] = store[q]
         /\ call' = [c \in Callers |-> IF Owner[c] = p THEN NoCall ELSE call[c]] =>
              /\ call' \in [Callers -> CallType]
              /\ \A c \in Callers : call'[c] = IF Owner[c] = p THEN NoCall ELSE call[c]
<1>1. NewStore \in StoreType
  BY DEF NewStore, StoreType
<1> QED
  BY <1>1, NoCallTyped DEF Parts

LEMMA InitTypes == Init => Parts /\ HasPayload
<1> SUFFICES ASSUME Init PROVE Parts /\ HasPayload
  OBVIOUS
<1>1. NewStore \in StoreType
  BY DEF NewStore, StoreType
<1>2. file \in Seq(Lines) /\ acked \subseteq Digests
  BY EmptySeq DEF Init
<1>3. store \in [Processes -> StoreType] /\ call \in [Callers -> CallType]
  BY <1>1, NoCallTyped DEF Init
<1> QED
  BY <1>2, <1>3 DEF Init, Parts, HasPayload, NoCall

LEMMA BecomesKeepsPayload ==
  ASSUME Parts, HasPayload, NEW c \in Callers, NEW pc, NEW payload, NEW granted, NEW tail, NEW node,
         Becomes(c, pc, payload, granted, tail, node), pc # "idle" => payload \in Payloads
  PROVE  call' \in [Callers -> CallType] /\ HasPayload'
BY DEF Becomes, HasPayload

LEMMA Types ==
  ASSUME Parts, HasPayload, [Next]_vars
  PROVE  Parts' /\ HasPayload'
<1>0. \A c \in Callers : Owner[c] \in Processes
  BY OwnerAssumption
<1> USE DEF bounds
<1>1. ASSUME NEW c \in Callers, NEW e \in EventIds, Claim(c, e) PROVE Parts' /\ HasPayload'
  <2>1. call' \in [Callers -> CallType] /\ HasPayload'
    <3>1. e \in Payloads
      BY DEF Payloads
    <3>2. Becomes(c, "append", e, e \notin Known(Owner[c]), <<>>, 0)
      BY <1>1, Shapes
    <3> QED
      BY <3>1, <3>2, BecomesKeepsPayload
  <2> QED
    <3>1. store' \in [Processes -> StoreType]
      BY <1>1, Shapes
    <3> QED
      BY <1>1, <2>1, <3>1 DEF Claim, Parts
<1>2. ASSUME NEW c \in Callers, NEW n \in Notices, Notify(c, n) PROVE Parts' /\ HasPayload'
  <2>1. call' \in [Callers -> CallType] /\ HasPayload'
    BY <1>2, Shapes, BecomesKeepsPayload DEF Payloads
  <2> QED
    BY <1>2, <2>1 DEF Notify, Parts
<1>3. ASSUME NEW c \in Callers, ReadTail(c) PROVE Parts' /\ HasPayload'
  <2>1. call' \in [Callers -> CallType] /\ HasPayload'
    <3>1. call[c].payload \in Payloads
      BY <1>3 DEF ReadTail, HasPayload
    <3>2. Becomes(c, "open", call[c].payload, call[c].granted, TailHash(file), call[c].inode)
      BY <1>3, Shapes
    <3> QED
      BY <3>1, <3>2, BecomesKeepsPayload
  <2> QED
    <3>1. Holds(Owner[c], c)
      BY <1>3, Shapes
    <3> QED
      BY <1>3, <2>1, <3>1 DEF ReadTail, Holds, Parts
<1>4. ASSUME NEW c \in Callers, ReadFails(c) PROVE Parts' /\ HasPayload'
  <2>1. call' \in [Callers -> CallType] /\ HasPayload'
    BY <1>4, Shapes, BecomesKeepsPayload
  <2> QED
    BY <1>4, <2>1 DEF ReadFails, Parts
<1>5. ASSUME NEW c \in Callers, OpenFile(c) PROVE Parts' /\ HasPayload'
  <2>1. call' \in [Callers -> CallType] /\ HasPayload'
    BY <1>5, Shapes, BecomesKeepsPayload DEF OpenFile, HasPayload
  <2> QED
    BY <1>5, <2>1 DEF OpenFile, Parts
<1>6. ASSUME NEW c \in Callers, Write(c) \/ WriteFails(c) PROVE Parts' /\ HasPayload'
  <2>1. Done(c) /\ call[c].pc = "write"
    BY <1>6 DEF Write, WriteFails
  <2>2. /\ call' \in [Callers -> CallType] /\ HasPayload'
        /\ store' \in [Processes -> StoreType]
    BY <2>1, Shapes, BecomesKeepsPayload DEF Holds
  <2>3. file' \in Seq(Lines) /\ end' \in {"clean", "unterminated", "partial"}
    BY <1>6, <2>1, PutTyped, CutsAssumption DEF Write, WriteFails, Parts
  <2>4. ComputeHash(call[c].tail, call[c].payload) \in Digests
    BY <2>1, AppendProperties DEF ComputeHash, Digests, Parts, CallType, HasPayload
  <2>5. acked' \subseteq Digests
    BY <1>6, <2>4 DEF Write, WriteFails, Parts
  <2> QED
    BY <1>6, <2>2, <2>3, <2>5 DEF Write, WriteFails, Parts
<1>7. ASSUME NEW p \in Processes, Clear(p) PROVE Parts' /\ HasPayload'
  <2>1. <<>> \in Seq(Lines) /\ {} \subseteq Digests
    BY EmptySeq
  <2> QED
    BY <1>7, <2>1, Dies DEF Clear, Parts, HasPayload
<1>8. ASSUME NEW p \in Processes, Crash(p) PROVE Parts' /\ HasPayload'
  <2>1. file' \in Seq(Lines) /\ end' \in {"clean", "unterminated", "partial"}
    BY <1>8, PutTyped, CutsAssumption DEF Crash, Parts
  <2>2. HasPayload'
    BY <1>8, Dies DEF Crash, HasPayload, NoCall
  <2> QED
    BY <1>8, <2>1, <2>2, Dies DEF Crash, Parts
<1>9. CASE UNCHANGED vars
  BY <1>9 DEF vars, Parts, HasPayload
<1> QED
  BY <1>1, <1>2, <1>3, <1>4, <1>5, <1>6, <1>7, <1>8, <1>9 DEF Next, Quiescent, Unreadable

(* Every variable has its type, with any number of processes. *)
THEOREM TypeCorrect == Spec => []TypeOK
<1>1. Parts /\ HasPayload /\ [Next]_vars => (Parts /\ HasPayload)'
  BY Types
<1> QED
  BY <1>1, InitTypes, TypesAreParts, PTL DEF Spec

-----------------------------------------------------------------------------
(* The chain, of lines that are added or taken from the end. *)
Chained ==
  \A i \in DOMAIN file :
    /\ file[i].prev = ExpectedPrev(file, i)
    /\ file[i].hash = ComputeHash(file[i].prev, file[i].payload)

LEMMA ChainedIsValid == ChainValid <=> Chained
BY DEF ChainValid, VerifyChain, BrokenLines, Chained

LEMMA AppendStaysChained ==
  ASSUME file \in Seq(Lines), Chained, NEW payload \in Payloads,
         file' = Append(file, Line(payload, TailHash(file)))
  PROVE  /\ Chained' /\ TailHash(file') = Append(TailHash(file), payload)
         /\ DOMAIN file' = 1..(Len(file) + 1) /\ DOMAIN file = 1..Len(file)
         /\ \A i \in DOMAIN file : file'[i] = file[i]
         /\ file'[Len(file) + 1] = Line(payload, TailHash(file))
<1> DEFINE line == Line(payload, TailHash(file))
<1>1. line \in Lines
  BY TailTyped, LineTyped
<1>2. /\ line.prev = TailHash(file) /\ line.payload = payload
      /\ line.hash = ComputeHash(line.prev, line.payload)
      /\ line.hash = Append(TailHash(file), payload)
  BY DEF Line, ComputeHash
<1>3. file' = Append(file, line)
  OBVIOUS
<1> HIDE DEF line
<1>4. /\ Len(file) \in Nat /\ DOMAIN file = 1..Len(file) /\ DOMAIN file' = 1..(Len(file) + 1)
      /\ Len(file') = Len(file) + 1 /\ file' # <<>>
      /\ \A i \in 1..Len(file) : file'[i] = file[i]
      /\ file'[Len(file) + 1] = line
  BY <1>1, <1>3, LenProperties, AppendProperties
<1>5. ASSUME NEW i \in 1..Len(file)
      PROVE  /\ file'[i].prev = ExpectedPrev(file', i)
             /\ file'[i].hash = ComputeHash(file'[i].prev, file'[i].payload)
  <2>1. ExpectedPrev(file', i) = ExpectedPrev(file, i)
    BY <1>4 DEF ExpectedPrev
  <2> QED
    BY <1>4, <2>1 DEF Chained
<1>6. ExpectedPrev(file', Len(file) + 1) = TailHash(file)
  <2>1. CASE file = <<>>
    BY <1>4, <2>1 DEF ExpectedPrev, TailHash
  <2>2. CASE file # <<>>
    <3>1. Len(file) \in 1..Len(file)
      BY <1>4, <2>2, EmptySeq
    <3> QED
      BY <1>4, <2>2, <3>1 DEF ExpectedPrev, TailHash
  <2> QED
    BY <2>1, <2>2
<1>7. Chained'
  <2>1. ASSUME NEW i \in DOMAIN file'
        PROVE  /\ file'[i].prev = ExpectedPrev(file', i)
               /\ file'[i].hash = ComputeHash(file'[i].prev, file'[i].payload)
    <3>1. CASE i \in 1..Len(file)
      BY <1>5, <3>1
    <3>2. CASE i = Len(file) + 1
      BY <1>2, <1>4, <1>6, <3>2
    <3> QED
      BY <1>4, <3>1, <3>2
  <2> QED
    BY <2>1 DEF Chained
<1>8. TailHash(file') = Append(TailHash(file), payload)
  BY <1>2, <1>4 DEF TailHash
<1> QED
  BY <1>4, <1>7, <1>8 DEF line

LEMMA FrontStaysChained ==
  ASSUME file \in Seq(Lines), Chained, file' = Front(file)
  PROVE  Chained'
<1>1. CASE file = <<>>
  <2>1. file' = <<>>
    BY <1>1, SubSeqEmpty DEF Front
  <2> QED
    BY <2>1 DEF Chained
<1>2. CASE file # <<>>
  <2>1. /\ Len(file) \in Nat \ {0} /\ DOMAIN file = 1..Len(file)
        /\ DOMAIN file' = 1..(Len(file) - 1)
        /\ \A i \in 1..(Len(file) - 1) : file'[i] = file[i]
    BY <1>2, SubSeqProperties, LenProperties, EmptySeq DEF Front
  <2>2. \A i \in DOMAIN file' : i \in DOMAIN file /\ ExpectedPrev(file', i) = ExpectedPrev(file, i)
    BY <2>1 DEF ExpectedPrev
  <2> QED
    BY <2>1, <2>2 DEF Chained
<1> QED
  BY <1>1, <1>2

-----------------------------------------------------------------------------
(* With one process the mutex keeps appends apart: whoever is past readTail   *)
(* holds it, and the tail, the end and the file it saw are still those.       *)
Appending(c) == call[c].pc \in {"open", "write"}
HolderAppends == \A c \in Callers : Appending(c) <=> store[Owner[c]].holder = c
InHand ==
  \A c \in Callers :
    /\ Appending(c) => call[c].tail = TailHash(file) /\ Readable
    /\ call[c].pc = "write" => call[c].inode = inode

ChainInv == HolderAppends /\ InHand /\ Chained

(* Whoever appends is alone. *)
LEMMA Alone ==
  ASSUME SingleProcess, HolderAppends, NEW c \in Callers, Appending(c)
  PROVE  \A d \in Callers \ {c} : ~Appending(d)
BY OwnerAssumption DEF SingleProcess, HolderAppends

(* A write: the line is chained to the last, or the file is cut. *)
LEMMA PutEffect ==
  ASSUME Parts, HasPayload, ChainInv, NEW c \in Callers, call[c].pc = "write",
         NEW how \in {"whole", "partial", "unterminated"}, Put(c, how)
  PROVE  /\ Chained'
         /\ \/ /\ end = "clean" /\ how # "partial" /\ call[c].payload \in Payloads
               /\ file' = Append(file, Line(call[c].payload, TailHash(file)))
               /\ end' = IF how = "whole" THEN "clean" ELSE how
            \/ end = "clean" /\ how = "partial" /\ file' = file /\ end' = "partial"
            \/ end = "unterminated" /\ file' = Front(file) /\ end' = "partial"
<1>1. call[c].inode = inode /\ call[c].tail = TailHash(file) /\ end \in {"clean", "unterminated"}
  BY DEF ChainInv, InHand, Appending, Readable, Parts
<1>2. /\ file \in Seq(Lines) /\ call[c].payload \in Payloads /\ Chained
  BY DEF Parts, HasPayload, ChainInv
<1>3. CASE end = "clean" /\ how # "partial"
  <2>1. /\ file' = Append(file, Line(call[c].payload, TailHash(file)))
        /\ end' = IF how = "whole" THEN "clean" ELSE how
    BY <1>1, <1>3 DEF Put
  <2> QED
    BY <1>2, <1>3, <2>1, AppendStaysChained
<1>4. CASE ~(end = "clean" /\ how # "partial")
  <2>1. file' = (IF end = "unterminated" THEN Front(file) ELSE file) /\ end' = "partial"
    BY <1>1, <1>4 DEF Put
  <2>2. CASE end = "unterminated"
    BY <1>2, <2>1, <2>2, FrontStaysChained
  <2>3. CASE end = "clean"
    <3>1. how = "partial" /\ file' = file
      BY <1>4, <2>1, <2>3
    <3> QED
      BY <1>2, <2>1, <2>3, <3>1 DEF Chained
  <2> QED
    BY <1>1, <2>2, <2>3
<1> QED
  BY <1>3, <1>4

LEMMA ChainKept ==
  ASSUME SingleProcess, Parts, HasPayload, ChainInv, [Next]_vars
  PROVE  ChainInv'
<1>0. /\ \A c \in Callers : Owner[c] \in Processes
      /\ \A c, d \in Callers : Owner[c] = Owner[d]
  BY OwnerAssumption DEF SingleProcess
<1> USE DEF ChainInv
<1>1. ASSUME NEW c \in Callers, NEW e \in EventIds, Claim(c, e) PROVE ChainInv'
  <2>1. /\ Becomes(c, "append", e, e \notin Known(Owner[c]), <<>>, 0)
        /\ store'[Owner[c]].holder = store[Owner[c]].holder
        /\ call[c].pc = "idle" /\ UNCHANGED <<file, end, inode>>
    BY <1>1, Shapes DEF Claim
  <2>2. HolderAppends' /\ InHand'
    BY <1>0, <2>1 DEF HolderAppends, InHand, Appending, Becomes, Readable
  <2> QED
    BY <2>1, <2>2 DEF Chained
<1>2. ASSUME NEW c \in Callers, NEW n \in Notices, Notify(c, n) PROVE ChainInv'
  <2>1. /\ Becomes(c, "append", n, FALSE, <<>>, 0)
        /\ call[c].pc = "idle" /\ UNCHANGED <<file, end, inode, store>>
    BY <1>2, Shapes DEF Notify
  <2>2. HolderAppends' /\ InHand'
    BY <1>0, <2>1 DEF HolderAppends, InHand, Appending, Becomes, Readable
  <2> QED
    BY <2>1, <2>2 DEF Chained
<1>3. ASSUME NEW c \in Callers, ReadTail(c) PROVE ChainInv'
  <2>1. /\ Becomes(c, "open", call[c].payload, call[c].granted, TailHash(file), call[c].inode)
        /\ Holds(Owner[c], c)
    BY <1>3, Shapes
  <2>2. /\ call[c].pc = "append" /\ store[Owner[c]].holder = Nobody /\ Readable
        /\ UNCHANGED <<file, end, inode>>
    BY <1>3 DEF ReadTail, MutexFree
  <2>3. \A d \in Callers : ~Appending(d)
    BY <1>0, <2>2, NobodyAssumption DEF HolderAppends
  <2>4. HolderAppends' /\ InHand'
    BY <1>0, <2>1, <2>2, <2>3
       DEF HolderAppends, InHand, Appending, Becomes, Holds, Readable
  <2> QED
    BY <2>2, <2>4 DEF Chained
<1>4. ASSUME NEW c \in Callers, ReadFails(c) PROVE ChainInv'
  <2>1. /\ Becomes(c, "idle", Nothing, FALSE, <<>>, 0)
        /\ call[c].pc = "append" /\ UNCHANGED <<file, end, inode, store>>
    BY <1>4, Shapes DEF ReadFails
  <2>2. HolderAppends' /\ InHand'
    BY <1>0, <2>1 DEF HolderAppends, InHand, Appending, Becomes, Readable
  <2> QED
    BY <2>1, <2>2 DEF Chained
<1>5. ASSUME NEW c \in Callers, OpenFile(c) PROVE ChainInv'
  <2>1. /\ Becomes(c, "write", call[c].payload, call[c].granted, call[c].tail, inode)
        /\ call[c].pc = "open" /\ UNCHANGED <<file, end, inode, store>>
    BY <1>5, Shapes DEF OpenFile
  <2>2. HolderAppends' /\ InHand'
    BY <1>0, <2>1 DEF HolderAppends, InHand, Appending, Becomes, Readable
  <2> QED
    BY <2>1, <2>2 DEF Chained
<1>6. ASSUME NEW c \in Callers, Write(c) \/ WriteFails(c) PROVE ChainInv'
  <2>1. Done(c) /\ call[c].pc = "write"
    BY <1>6 DEF Write, WriteFails
  <2>2. Becomes(c, "idle", Nothing, FALSE, <<>>, 0) /\ Holds(Owner[c], Nobody)
    BY <2>1, Shapes
  <2>3. \A d \in Callers : ~Appending(d)'
    BY <2>1, <2>2, Alone DEF Appending, Becomes
  <2>4. HolderAppends' /\ InHand'
    BY <1>0, <2>2, <2>3, NobodyAssumption DEF HolderAppends, InHand, Appending, Holds
  <2>5. Chained'
    BY <1>6, <2>1, PutEffect, CutsAssumption DEF Write, WriteFails, Chained
  <2> QED
    BY <2>4, <2>5
<1>7. ASSUME NEW p \in Processes, Clear(p) PROVE ChainInv'
  <2>1. \A c \in Callers : Owner[c] = p /\ call[c].pc = "idle"
    BY <1>0, <1>7 DEF Clear, SingleProcess
  <2>2. file' = <<>> /\ call' = call /\ store'[p] = NewStore
    BY <1>7, Dies DEF Clear
  <2>3. HolderAppends' /\ InHand' /\ Chained'
    BY <2>1, <2>2, NobodyAssumption
       DEF HolderAppends, InHand, Appending, NewStore, Chained
  <2> QED
    BY <2>3
<1>8. ASSUME NEW p \in Processes, Crash(p) PROVE ChainInv'
  <2>1. \A c \in Callers : Owner[c] = p
    BY <1>0 DEF SingleProcess
  <2>2. store'[p] = NewStore /\ \A c \in Callers : call'[c] = NoCall
    BY <1>8, <2>1, Dies DEF Crash
  <2>3. HolderAppends' /\ InHand'
    BY <2>1, <2>2, NobodyAssumption DEF HolderAppends, InHand, Appending, NewStore, NoCall
  <2>4. Chained'
    BY <1>8, PutEffect, CutsAssumption DEF Crash, Chained
  <2> QED
    BY <2>3, <2>4
<1>9. CASE UNCHANGED vars
  BY <1>9 DEF vars, HolderAppends, InHand, Appending, Readable, Chained
<1> QED
  BY <1>1, <1>2, <1>3, <1>4, <1>5, <1>6, <1>7, <1>8, <1>9 DEF Next, Quiescent, Unreadable

Core == Parts /\ HasPayload /\ ChainInv

LEMMA InitCore == Init => Core
<1> SUFFICES ASSUME Init PROVE ChainInv
  BY InitTypes DEF Core
<1>1. \A c \in Callers : ~Appending(c) /\ store[Owner[c]].holder = Nobody
  BY OwnerAssumption DEF Init, Appending, NoCall, NewStore
<1>2. HolderAppends /\ InHand
  BY <1>1, NobodyAssumption DEF HolderAppends, InHand, Appending
<1> QED
  BY <1>2 DEF Init, ChainInv, Chained

(* The log is a hash chain at every moment as long as one process writes it,  *)
(* however its goroutines overlap, and whatever crashes or is cut short.      *)
THEOREM LogIsChained == ASSUME SingleProcess PROVE Spec => []ChainValid
<1>1. Core /\ [Next]_vars => Core'
  BY Types, ChainKept DEF Core
<1>2. Core => ChainValid
  BY ChainedIsValid DEF Core, ChainInv
<1> QED
  BY <1>1, <1>2, InitCore, PTL DEF Spec

-----------------------------------------------------------------------------
(* When what is cut does not parse, a step adds one line, wipes the log or    *)
(* leaves its lines alone.                                                    *)
Adds(c) ==
  /\ end = "clean" /\ end' = "clean" /\ call[c].payload \in Payloads
  /\ file' = Append(file, Line(call[c].payload, TailHash(file)))
  /\ acked' \subseteq acked \cup {ComputeHash(TailHash(file), call[c].payload)}
Wipes == file' = <<>> /\ acked' = {} /\ inode' # inode /\ end' = "clean"
LeavesLines == UNCHANGED <<file, acked>> /\ end' \in {end, "partial"}

CutLoud == end # "unterminated"

LEMMA LogSteps ==
  ASSUME SingleProcess, CutsDoNotParse, Core, CutLoud, [Next]_vars
  PROVE  LeavesLines \/ Wipes \/ \E c \in Callers : Adds(c)
<1> USE DEF LeavesLines, Core
<1>1. ASSUME NEW c \in Callers, NEW how \in {"whole", "partial"}, call[c].pc = "write",
             Put(c, how)
      PROVE  \/ /\ how = "whole" /\ end = "clean" /\ end' = "clean"
                /\ call[c].payload \in Payloads /\ call[c].tail = TailHash(file)
                /\ file' = Append(file, Line(call[c].payload, TailHash(file)))
             \/ how = "partial" /\ file' = file /\ end' = "partial"
  <2>1. call[c].tail = TailHash(file)
    BY <1>1 DEF ChainInv, InHand, Appending
  <2> QED
    BY <1>1, <2>1, PutEffect DEF CutLoud
<1>2. ASSUME NEW c \in Callers, Write(c) PROVE Adds(c)
  <2>1. Put(c, "whole") /\ call[c].pc = "write"
        /\ acked' = acked \cup {ComputeHash(call[c].tail, call[c].payload)}
    BY <1>2 DEF Write
  <2> QED
    BY <1>1, <2>1 DEF Adds
<1>3. ASSUME NEW c \in Callers, WriteFails(c) PROVE LeavesLines
  BY <1>1, <1>3 DEF WriteFails, CutsDoNotParse
<1>4. ASSUME NEW p \in Processes, Crash(p)
      PROVE  LeavesLines \/ \E c \in Callers : Adds(c)
  BY <1>1, <1>4 DEF Crash, CutsDoNotParse, Adds
<1>5. ASSUME NEW p \in Processes, Clear(p) PROVE Wipes
  BY <1>5 DEF Clear, Wipes, Parts
<1>6. ASSUME NEW c \in Callers,
             \/ \E e \in EventIds : Claim(c, e)
             \/ \E n \in Notices : Notify(c, n)
             \/ ReadTail(c) \/ ReadFails(c) \/ OpenFile(c)
      PROVE  LeavesLines
  BY <1>6 DEF Claim, Notify, ReadTail, ReadFails, OpenFile
<1>7. CASE UNCHANGED vars
  BY <1>7 DEF vars
<1> QED
  BY <1>2, <1>3, <1>4, <1>5, <1>6, <1>7 DEF Next, Quiescent, Unreadable

LEMMA AddEffect ==
  ASSUME Core, NEW c \in Callers, Adds(c)
  PROVE  /\ TailHash(file') = Append(TailHash(file), call[c].payload)
         /\ \A i \in DOMAIN file : i \in DOMAIN file' /\ file'[i] = file[i]
         /\ \E i \in DOMAIN file' :
              file'[i].hash = ComputeHash(TailHash(file), call[c].payload)
<1>1. /\ TailHash(file') = Append(TailHash(file), call[c].payload)
      /\ DOMAIN file' = 1..(Len(file) + 1) /\ DOMAIN file = 1..Len(file)
      /\ \A i \in DOMAIN file : file'[i] = file[i]
      /\ file'[Len(file) + 1] = Line(call[c].payload, TailHash(file))
  BY AppendStaysChained DEF Core, Parts, ChainInv, Adds
<1>2. Len(file) \in Nat
  BY LenProperties DEF Core, Parts
<1>3. Line(call[c].payload, TailHash(file)).hash = ComputeHash(TailHash(file), call[c].payload)
  BY DEF Line
<1>4. /\ Len(file) + 1 \in DOMAIN file'
      /\ \A i \in DOMAIN file : i \in DOMAIN file'
  BY <1>1, <1>2
<1> QED
  BY <1>1, <1>3, <1>4

AckInv == Core /\ CutLoud /\ AckedStays

LEMMA AckInvKept == SingleProcess /\ CutsDoNotParse /\ AckInv /\ [Next]_vars => AckInv'
<1> SUFFICES ASSUME SingleProcess, CutsDoNotParse, AckInv, [Next]_vars PROVE AckInv'
  OBVIOUS
<1>1. Core' /\ Core
  BY Types, ChainKept DEF AckInv, Core
<1>2. CASE LeavesLines
  BY <1>1, <1>2 DEF AckInv, LeavesLines, CutLoud, AckedStays
<1>3. CASE Wipes
  BY <1>1, <1>3 DEF AckInv, Wipes, CutLoud, AckedStays
<1>4. ASSUME NEW c \in Callers, Adds(c) PROVE AckInv'
  <2>1. AckedStays'
    <3>1. SUFFICES ASSUME NEW d \in acked' PROVE \E i \in DOMAIN file' : file'[i].hash = d
      BY DEF AckedStays
    <3>2. CASE d \in acked
      <4>1. PICK i \in DOMAIN file : file[i].hash = d
        BY <3>2 DEF AckInv, AckedStays
      <4> QED
        BY <1>1, <1>4, <4>1, AddEffect
    <3>3. CASE d = ComputeHash(TailHash(file), call[c].payload)
      BY <1>1, <1>4, <3>3, AddEffect
    <3> QED
      BY <1>4, <3>2, <3>3 DEF Adds
  <2> QED
    BY <1>1, <1>4, <2>1 DEF AckInv, CutLoud, Adds
<1> QED
  BY <1>1, <1>2, <1>3, <1>4, LogSteps DEF AckInv

LEMMA InitAckInv == Init => AckInv
BY InitCore DEF Init, AckInv, CutLoud, AckedStays

(* A line whose Append returned no error stays until the log is cleared.      *)
THEOREM AckedLinesStay ==
  ASSUME SingleProcess, CutsDoNotParse PROVE Spec => []AckedStays
<1>1. AckInv /\ [Next]_vars => AckInv'
  BY AckInvKept
<1>2. AckInv => AckedStays
  BY DEF AckInv
<1> QED
  BY <1>1, <1>2, InitAckInv, PTL DEF Spec

(* Nothing is added or vouched for behind a cut line until the log is cleared. *)
THEOREM CutsAreLoud ==
  ASSUME SingleProcess, CutsDoNotParse PROVE Spec => LoudAfterCut
<1>1. AckInv /\ [Next]_vars => AckInv'
  BY AckInvKept
<1>2. AckInv /\ [Next]_vars
        => [(end # "clean" /\ inode' = inode) => UNCHANGED <<file, acked>>]_vars
  BY LogSteps DEF AckInv, Adds, Wipes, LeavesLines
<1> QED
  BY <1>1, <1>2, InitAckInv, PTL DEF Spec, LoudAfterCut

(* The store of one process implements AuditLog: a log that grows at its end  *)
(* or is wiped.                                                               *)
THEOREM ImplementsAuditLog ==
  ASSUME SingleProcess, CutsDoNotParse PROVE Spec => KeepsAuditLog
<1>1. AckInv /\ [Next]_vars => AckInv'
  BY AckInvKept
<1>2. Init => Log!Init
  BY DEF Init, Log!Init, TailHash, GenesisHash
<1>3. AckInv /\ [Next]_vars => [Log!Next]_(TailHash(file))
  <2> SUFFICES ASSUME AckInv, [Next]_vars PROVE [Log!Next]_(TailHash(file))
    OBVIOUS
  <2>1. CASE LeavesLines
    BY <2>1 DEF LeavesLines, TailHash
  <2>2. CASE Wipes
    BY <2>2 DEF Wipes, TailHash, GenesisHash, Log!Next, Log!Wipe
  <2>3. ASSUME NEW c \in Callers, Adds(c) PROVE Log!Next
    BY <2>3, AddEffect DEF AckInv, Adds, Log!Next, Log!Add
  <2> QED
    BY <2>1, <2>2, <2>3, LogSteps DEF AckInv
<1> QED
  BY <1>1, <1>2, <1>3, InitAckInv, PTL DEF Spec, KeepsAuditLog, Log!Spec

-----------------------------------------------------------------------------
(* Claims: what is about to be logged was claimed, and a store that has read  *)
(* the log knows every event in it.                                           *)
ClaimsFirst ==
  \A c \in Callers : call[c].pc # "idle" /\ call[c].payload \in EventIds =>
    store[Owner[c]].hydrated /\ call[c].payload \in store[Owner[c]].claimed
KnowsTheLog ==
  \A c \in Callers : store[Owner[c]].hydrated =>
    \A e \in EventIds \cap Logged : e \in store[Owner[c]].claimed

ClaimInv == ClaimsFirst /\ KnowsTheLog

LEMMA LoggedGrows ==
  ASSUME Core, NEW c \in Callers, call[c].pc = "write",
         NEW how \in {"whole", "partial", "unterminated"}, Put(c, how)
  PROVE  Logged' \subseteq Logged \cup {call[c].payload}
<1>1. file \in Seq(Lines)
  BY DEF Core, Parts
<1>2. CASE file' = Append(file, Line(call[c].payload, TailHash(file)))
           /\ call[c].payload \in Payloads
  <2>1. /\ DOMAIN file' = 1..(Len(file) + 1) /\ DOMAIN file = 1..Len(file)
        /\ \A i \in DOMAIN file : file'[i] = file[i]
        /\ file'[Len(file) + 1] = Line(call[c].payload, TailHash(file))
    BY <1>1, <1>2, AppendStaysChained DEF Core, ChainInv
  <2>2. Len(file) \in Nat /\ Line(call[c].payload, TailHash(file)).payload = call[c].payload
    BY <1>1, LenProperties DEF Line
  <2>3. \A i \in DOMAIN file' : i \in DOMAIN file \/ i = Len(file) + 1
    BY <2>1, <2>2
  <2> QED
    BY <2>1, <2>2, <2>3 DEF Logged
<1>3. CASE file' = file
  BY <1>3 DEF Logged
<1>4. CASE file' = Front(file)
  <2>1. CASE file = <<>>
    <3>1. file' = <<>>
      BY <1>4, <2>1, SubSeqEmpty DEF Front
    <3> QED
      BY <3>1 DEF Logged
  <2>2. CASE file # <<>>
    <3>1. /\ Len(file) \in Nat \ {0} /\ DOMAIN file = 1..Len(file)
          /\ DOMAIN file' = 1..(Len(file) - 1)
          /\ \A i \in 1..(Len(file) - 1) : file'[i] = file[i]
      BY <1>1, <1>4, <2>2, SubSeqProperties, LenProperties, EmptySeq DEF Front
    <3> QED
      BY <3>1 DEF Logged
  <2> QED
    BY <2>1, <2>2
<1> QED
  BY <1>2, <1>3, <1>4, PutEffect DEF Core

LEMMA ClaimsKept ==
  ASSUME SingleProcess, KindsDiffer, Core, ClaimInv, [Next]_vars
  PROVE  ClaimInv'
<1>0. /\ \A c \in Callers : Owner[c] \in Processes
      /\ \A c, d \in Callers : Owner[c] = Owner[d]
  BY OwnerAssumption DEF SingleProcess
<1> USE DEF ClaimInv, Core
<1>1. ASSUME NEW c \in Callers, NEW e \in EventIds, Claim(c, e) PROVE ClaimInv'
  <2>1. /\ Becomes(c, "append", e, e \notin Known(Owner[c]), <<>>, 0)
        /\ store'[Owner[c]].claimed = Known(Owner[c]) \cup {e} /\ store'[Owner[c]].hydrated
        /\ file' = file
    BY <1>1, Shapes DEF Claim
  <2>2. Logged' = Logged
    BY <2>1 DEF Logged
  <2>3. store[Owner[c]].claimed \subseteq store'[Owner[c]].claimed
    BY <2>1 DEF Known
  <2>4. ClaimsFirst'
    BY <1>0, <2>1, <2>3 DEF ClaimsFirst, Becomes
  <2>5. KnowsTheLog'
    BY <1>0, <2>1, <2>2 DEF KnowsTheLog, Known
  <2> QED
    BY <2>4, <2>5
<1>2. ASSUME NEW c \in Callers, NEW n \in Notices, Notify(c, n) PROVE ClaimInv'
  <2>1. Becomes(c, "append", n, FALSE, <<>>, 0) /\ UNCHANGED <<file, store>>
    BY <1>2, Shapes DEF Notify
  <2> QED
    BY <2>1 DEF KindsDiffer, ClaimsFirst, KnowsTheLog, Logged, Becomes
<1>3. ASSUME NEW c \in Callers, ReadTail(c) PROVE ClaimInv'
  <2>1. /\ Becomes(c, "open", call[c].payload, call[c].granted, TailHash(file), call[c].inode)
        /\ Holds(Owner[c], c) /\ file' = file /\ call[c].pc # "idle"
    BY <1>3, Shapes DEF ReadTail
  <2>2. \A d \in Callers : /\ store'[Owner[d]].claimed = store[Owner[d]].claimed
                          /\ store'[Owner[d]].hydrated = store[Owner[d]].hydrated
    BY <1>0, <2>1 DEF Holds
  <2> QED
    BY <2>1, <2>2 DEF ClaimsFirst, KnowsTheLog, Logged, Becomes
<1>4. ASSUME NEW c \in Callers, ReadFails(c) \/ OpenFile(c) PROVE ClaimInv'
  <2>1. /\ \/ Becomes(c, "idle", Nothing, FALSE, <<>>, 0)
           \/ /\ Becomes(c, "write", call[c].payload, call[c].granted, call[c].tail, inode)
              /\ call[c].pc # "idle"
        /\ UNCHANGED <<file, store>>
    BY <1>4, Shapes DEF ReadFails, OpenFile
  <2> QED
    BY <2>1 DEF ClaimsFirst, KnowsTheLog, Logged, Becomes
<1>5. ASSUME NEW c \in Callers, Write(c) \/ WriteFails(c) PROVE ClaimInv'
  <2>1. Done(c) /\ call[c].pc = "write"
    BY <1>5 DEF Write, WriteFails
  <2>2. Becomes(c, "idle", Nothing, FALSE, <<>>, 0) /\ Holds(Owner[c], Nobody)
    BY <2>1, Shapes
  <2>3. \A d \in Callers : /\ store'[Owner[d]].claimed = store[Owner[d]].claimed
                          /\ store'[Owner[d]].hydrated = store[Owner[d]].hydrated
    BY <1>0, <2>2 DEF Holds
  <2>4. Logged' \subseteq Logged \cup {call[c].payload}
    <3>1. CASE file' = file
      BY <3>1 DEF Logged
    <3>2. CASE \E how \in Cuts \cup {"whole"} : Put(c, how)
      BY <2>1, <3>2, LoggedGrows, CutsAssumption
    <3> QED
      BY <1>5, <3>1, <3>2 DEF Write, WriteFails
  <2>5. KnowsTheLog'
    BY <1>0, <2>1, <2>3, <2>4 DEF KnowsTheLog, ClaimsFirst
  <2> QED
    BY <2>2, <2>3, <2>5 DEF ClaimsFirst, Becomes
<1>6. ASSUME NEW p \in Processes, Clear(p) \/ Crash(p) PROVE ClaimInv'
  <2>1. \A c \in Callers : Owner[c] = p
    BY <1>0 DEF SingleProcess
  <2>2. store'[p] = NewStore /\ \A c \in Callers : call'[c].pc = "idle"
    BY <1>6, <2>1, Dies DEF Crash, Clear, NoCall
  <2> QED
    BY <2>1, <2>2 DEF ClaimsFirst, KnowsTheLog, NewStore
<1>7. CASE UNCHANGED vars
  BY <1>7 DEF vars, ClaimsFirst, KnowsTheLog, Logged
<1> QED
  BY <1>1, <1>2, <1>3, <1>4, <1>5, <1>6, <1>7 DEF Next, Quiescent, Unreadable

(* Who is granted an event by this step has claimed what is not in the log.   *)
LEMMA GrantsAreNew ==
  ASSUME SingleProcess, Core, ClaimInv, [Next]_vars,
         NEW c \in Callers, ~call[c].granted, call'[c].granted
  PROVE  call'[c].payload \notin Logged
<1> USE DEF Core
<1>1. ASSUME NEW d \in Callers, NEW e \in EventIds, Claim(d, e)
      PROVE  call'[c].payload \notin Logged
  <2>1. Becomes(d, "append", e, e \notin Known(Owner[d]), <<>>, 0)
    BY <1>1, Shapes
  <2>2. d = c /\ call'[c].payload = e /\ e \notin Known(Owner[c])
    BY <2>1 DEF Becomes
  <2> QED
    BY <2>2 DEF Known, ClaimInv, KnowsTheLog
<1>2. ASSUME NEW d \in Callers,
             \/ \E n \in Notices : Notify(d, n)
             \/ ReadTail(d) \/ ReadFails(d) \/ OpenFile(d) \/ Done(d)
      PROVE  FALSE
  <2>1. \E pc, payload, tail, node :
          \/ Becomes(d, pc, payload, FALSE, tail, node)
          \/ Becomes(d, pc, payload, call[d].granted, tail, node)
    BY <1>2, Shapes
  <2> QED
    BY <2>1 DEF Becomes
<1>3. ASSUME NEW p \in Processes, Clear(p) \/ Crash(p) PROVE FALSE
  BY <1>3, Dies DEF Clear, Crash, NoCall
<1>4. CASE UNCHANGED vars
  BY <1>4 DEF vars
<1> QED
  BY <1>1, <1>2, <1>3, <1>4 DEF Next, Write, WriteFails, Quiescent, Unreadable

(* Claim never grants an event the log has a row of, whichever life of the    *)
(* process wrote it.                                                          *)
THEOREM LoggedIsNotGranted ==
  ASSUME SingleProcess, KindsDiffer PROVE Spec => NoGrantOfLogged
<1>1. Init => Core /\ ClaimInv
  BY InitCore, OwnerAssumption
     DEF Init, ClaimInv, ClaimsFirst, KnowsTheLog, NoCall, NewStore
<1>2. Core /\ ClaimInv /\ [Next]_vars => (Core /\ ClaimInv)'
  BY Types, ChainKept, ClaimsKept DEF Core
<1>3. Core /\ ClaimInv /\ [Next]_vars
        => [\A c \in Callers :
              (~call[c].granted /\ call'[c].granted) => call'[c].payload \notin Logged]_vars
  BY GrantsAreNew
<1> QED
  BY <1>1, <1>2, <1>3, PTL DEF Spec, NoGrantOfLogged
=============================================================================
