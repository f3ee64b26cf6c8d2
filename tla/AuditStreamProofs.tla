------------------------- MODULE AuditStreamProofs -------------------------
(***************************************************************************)
(* Theorems about AuditStream: for any writers, connections, capacity and  *)
(* bounds, the hub never sends on a closed channel, no row is lost between *)
(* the replay of the log and the live rows, and none overtakes another.    *)
(***************************************************************************)
EXTENDS AuditStream, TLAPS

-----------------------------------------------------------------------------
(* What a sequence holds after it grew by one or lost its head. *)
LEMMA RangeAppend ==
  ASSUME NEW S, NEW q \in Seq(S), NEW e \in S
  PROVE  Range(Append(q, e)) = Range(q) \cup {e}
<1>1. DOMAIN Append(q, e) = 1..Len(q) + 1
  OBVIOUS
<1>2. Append(q, e)[Len(q) + 1] = e
  OBVIOUS
<1>3. \A i \in 1..Len(q) : Append(q, e)[i] = q[i]
  OBVIOUS
<1>4. DOMAIN q = 1..Len(q) /\ Len(q) \in Nat
  OBVIOUS
<1> QED
  BY <1>1, <1>2, <1>3, <1>4, SMTT(30) DEF Range

LEMMA RangeTail ==
  ASSUME NEW S, NEW q \in Seq(S), q # <<>>
  PROVE  Range(q) \subseteq Range(Tail(q)) \cup {Head(q)}
<1>1. Len(q) \in Nat \ {0} /\ DOMAIN q = 1..Len(q)
  OBVIOUS
<1>2. DOMAIN Tail(q) = 1..Len(q) - 1
  OBVIOUS
<1>3. \A i \in 1..Len(q) - 1 : Tail(q)[i] = q[i + 1]
  OBVIOUS
<1>4. SUFFICES ASSUME NEW i \in 1..Len(q)
               PROVE  q[i] \in Range(Tail(q)) \cup {Head(q)}
  BY <1>1 DEF Range
<1>5. CASE i = 1
  BY <1>5
<1>6. CASE i # 1
  <2>1. i - 1 \in 1..Len(q) - 1 /\ Tail(q)[i - 1] = q[i]
    BY <1>1, <1>3, <1>6
  <2> QED
    BY <2>1, <1>2 DEF Range
<1> QED
  BY <1>5, <1>6
-----------------------------------------------------------------------------
(* Why nothing is sent on a closed channel: only clients are sent to, a       *)
(* channel is closed when it is no client's any more, and that waits for the  *)
(* broadcasts that may still send to it.                                      *)
OnlyClientsAreSentTo ==
  \A s \in Senders : cast[s].left \subseteq clients /\ (cast[s].left # {} => cast[s].pc = "send")

ClosedForGood ==
  \A k \in closed : k \notin clients /\ handler[k].pc = "gone"

(* A handler that replays or forwards has subscribed; the replay starts at    *)
(* the first row.                                                             *)
HandlersSubscribe ==
  \A k \in Connections :
    /\ handler[k].pc \in {"subscribed", "replay", "blind"} => k \in clients
    /\ handler[k].pc \in {"unused", "accepted", "subscribed"} => handler[k].next = 1

IInv ==
  /\ TypeOK /\ OnlyClientsAreSentTo /\ ClosedForGood /\ HandlersSubscribe
  /\ NoPanic /\ NoGap
USE DEF Senders
-----------------------------------------------------------------------------
LEMMA InitIInv == Init => IInv
<1> SUFFICES ASSUME Init PROVE IInv
  OBVIOUS
<1>1. cast \in [Senders -> [pc : {"idle", "start", "send"}, frame : Frames,
                            left : SUBSET Connections]]
  BY DEF Init, NoCast, Frames, Status
<1>2. handler \in [Connections ->
        [pc : {"unused", "accepted", "subscribed", "replay", "blind", "gone"},
         next : 1..MaxRows + 1, upto : 0..MaxRows]]
  BY BoundsAssumption DEF Init, NoHandler
<1>3. channel \in [Connections -> Seq(Frames)] /\ got \in [Connections -> Seq(Frames)]
  BY DEF Init
<1>4. \A k \in Connections : Len(channel[k]) <= Capacity
  BY CapacityAssumption DEF Init
<1>5. TypeOK
  BY <1>1, <1>2, <1>3, <1>4, BoundsAssumption DEF Init, TypeOK
<1> QED
  BY <1>5 DEF Init, IInv, OnlyClientsAreSentTo, ClosedForGood, HandlersSubscribe, NoPanic,
              NoGap, NoCast, NoHandler

(* A new row is underway in the broadcast its append is about to start. *)
LEMMA WriteKeeps ==
  ASSUME IInv, NEW w \in Writers, Write(w)
  PROVE  IInv'
<1>1. TypeOK'
  BY BoundsAssumption DEF Write, IInv, TypeOK, Casting, Frames, Rows, ui, bounds
<1>2. OnlyClientsAreSentTo' /\ ClosedForGood' /\ HandlersSubscribe' /\ NoPanic'
  BY DEF Write, IInv, TypeOK, OnlyClientsAreSentTo, ClosedForGood, HandlersSubscribe,
         NoPanic, Casting, ui, bounds
<1>3. NoGap'
  <2> SUFFICES ASSUME NEW k \in Connections, (now = k /\ handler[k].pc = "replay")',
                      NEW r \in 1..log'
               PROVE  (r \in Range(got[k]) \/ Underway(k, r) \/ r \in dropped[k])'
    BY DEF NoGap
  <2>1. CASE r = log + 1
    BY <2>1 DEF Write, IInv, TypeOK, Underway, Casting
  <2>2. CASE r # log + 1
    <3>1. r \in 1..log
      BY <2>2 DEF Write, IInv, TypeOK
    <3>2. r \in Range(got[k]) \/ Underway(k, r) \/ r \in dropped[k]
      BY <3>1 DEF Write, IInv, NoGap, ui
    <3>3. cast[w].pc # "start" /\ k \notin cast[w].left
      BY DEF Write, IInv, OnlyClientsAreSentTo
    <3> QED
      BY <3>2, <3>3 DEF Write, IInv, TypeOK, Underway, ui
  <2> QED
    BY <2>1, <2>2
<1> QED
  BY <1>1, <1>2, <1>3 DEF IInv

(* The broadcast takes with it every client there is, so also those that are  *)
(* still replaying.                                                           *)
LEMMA StartCastKeeps ==
  ASSUME IInv, NEW s \in Senders, StartCast(s)
  PROVE  IInv'
<1>1. TypeOK'
  BY DEF StartCast, IInv, TypeOK, ui, bounds
<1>2. OnlyClientsAreSentTo' /\ ClosedForGood' /\ HandlersSubscribe' /\ NoPanic'
  BY DEF StartCast, IInv, TypeOK, OnlyClientsAreSentTo, ClosedForGood, HandlersSubscribe,
         NoPanic, ui, bounds
<1>3. NoGap'
  <2> SUFFICES ASSUME NEW k \in Connections, (now = k /\ handler[k].pc = "replay")',
                      NEW r \in 1..log'
               PROVE  (r \in Range(got[k]) \/ Underway(k, r) \/ r \in dropped[k])'
    BY DEF NoGap
  <2>1. k \in clients
    BY DEF StartCast, IInv, HandlersSubscribe, ui
  <2>2. r \in Range(got[k]) \/ Underway(k, r) \/ r \in dropped[k]
    BY DEF StartCast, IInv, NoGap, ui
  <2>3. Underway(k, r) => Underway(k, r)'
    <3>1. SUFFICES ASSUME NEW t \in Senders, cast[t].frame = r,
                          cast[t].pc = "start" \/ k \in cast[t].left
                   PROVE  cast'[t].frame = r /\ (cast'[t].pc = "start" \/ k \in cast'[t].left)
      BY DEF Underway, StartCast
    <3> QED
      BY <2>1, <3>1 DEF StartCast, IInv, TypeOK
  <2> QED
    BY <2>2, <2>3 DEF StartCast, ui
<1> QED
  BY <1>1, <1>2, <1>3 DEF IInv

(* The frame reaches the channel, or is dropped. *)
LEMMA SendKeeps ==
  ASSUME IInv, NEW s \in Senders, NEW j \in Connections, Send(s, j)
  PROVE  IInv'
<1> DEFINE f == cast[s].frame
<1>0. /\ channel \in [Connections -> Seq(Frames)] /\ dropped \in [Connections -> SUBSET Frames]
      /\ \A k \in Connections : Len(channel[k]) <= Capacity
  BY DEF IInv, TypeOK
<1>1. f \in Frames /\ channel[j] \in Seq(Frames) /\ Len(channel[j]) \in Nat
  BY DEF IInv, TypeOK
<1>2. cast' \in [Senders -> [pc : {"idle", "start", "send"}, frame : Frames,
                             left : SUBSET Connections]]
  <2>1. cast' = [cast EXCEPT ![s].left = @ \ {j}]
    BY DEF Send
  <2>2. cast \in [Senders -> [pc : {"idle", "start", "send"}, frame : Frames,
                             left : SUBSET Connections]]
    BY DEF IInv, TypeOK
  <2>3. cast[s].left \ {j} \in SUBSET Connections
    BY <2>2
  <2> QED
    BY <2>1, <2>2, <2>3
<1>3. ASSUME HasRoom(j)
      PROVE  /\ channel' = [channel EXCEPT ![j] = Append(channel[j], f)] /\ dropped' = dropped
             /\ Append(channel[j], f) \in Seq(Frames)
             /\ Len(Append(channel[j], f)) <= Capacity
             /\ Range(channel'[j]) = Range(channel[j]) \cup {f}
  <2>1. channel' = [channel EXCEPT ![j] = Append(channel[j], f)] /\ dropped' = dropped
    BY <1>3 DEF Send
  <2>2. Append(channel[j], f) \in Seq(Frames) /\ Len(Append(channel[j], f)) = Len(channel[j]) + 1
    BY <1>1
  <2>3. channel'[j] = Append(channel[j], f)
    BY <2>1 DEF IInv, TypeOK
  <2>4. Range(Append(channel[j], f)) = Range(channel[j]) \cup {f}
    BY <1>1, RangeAppend
  <2> QED
    BY <1>1, <1>3, <2>1, <2>2, <2>3, <2>4, CapacityAssumption DEF HasRoom
<1>4. ASSUME ~HasRoom(j)
      PROVE  channel' = channel /\ dropped' = [dropped EXCEPT ![j] = dropped[j] \cup {f}]
  BY <1>4 DEF Send
<1> HIDE DEF f
<1>5. /\ channel' \in [Connections -> Seq(Frames)]
      /\ dropped' \in [Connections -> SUBSET Frames]
      /\ \A k \in Connections : Len(channel'[k]) <= Capacity
  BY <1>0, <1>1, <1>3, <1>4
<1>6. panics' = {}
  BY DEF Send, IInv, OnlyClientsAreSentTo, ClosedForGood, NoPanic
<1>7. TypeOK'
  BY <1>2, <1>5, <1>6 DEF Send, IInv, TypeOK, ui, bounds
<1>8. OnlyClientsAreSentTo' /\ ClosedForGood' /\ HandlersSubscribe' /\ NoPanic'
  BY <1>6 DEF Send, IInv, TypeOK, OnlyClientsAreSentTo, ClosedForGood, HandlersSubscribe,
              NoPanic, ui, bounds
<1>9. NoGap'
  <2> SUFFICES ASSUME NEW k \in Connections, (now = k /\ handler[k].pc = "replay")',
                      NEW r \in 1..log'
               PROVE  (r \in Range(got[k]) \/ Underway(k, r) \/ r \in dropped[k])'
    BY DEF NoGap
  <2>1. r \in Range(got[k]) \/ Underway(k, r) \/ r \in dropped[k]
    BY DEF Send, IInv, NoGap, ui
  <2>2. Range(channel[k]) \subseteq Range(channel'[k]) /\ dropped[k] \subseteq dropped'[k]
    <3>1. CASE HasRoom(j) /\ k = j
      BY <1>3, <3>1
    <3>2. CASE HasRoom(j) /\ k # j
      BY <1>0, <1>3, <3>2
    <3>3. CASE ~HasRoom(j)
      BY <1>0, <1>4, <3>3
    <3> QED
      BY <3>1, <3>2, <3>3
  <2>3. k = j => f \in Range(channel'[k]) \cup dropped'[k]
    <3>1. CASE HasRoom(j)
      BY <1>0, <1>3, <3>1
    <3>2. CASE ~HasRoom(j)
      BY <1>0, <1>4, <3>2
    <3> QED
      BY <3>1, <3>2
  <2>4. ASSUME NEW t \in Senders, cast[t].frame = r, cast[t].pc = "start" \/ k \in cast[t].left
        PROVE  \/ r \in Range(channel'[k]) \cup dropped'[k]
               \/ cast'[t].frame = r /\ (cast'[t].pc = "start" \/ k \in cast'[t].left)
    <3>1. CASE t = s /\ k = j
      BY <2>3, <2>4, <3>1 DEF f
    <3>2. CASE t # s \/ k # j
      BY <2>4, <3>2 DEF Send, IInv, TypeOK
    <3> QED
      BY <3>1, <3>2
  <2>5. got' = got /\ handler' = handler
    BY DEF Send, ui
  <2> QED
    BY <2>1, <2>2, <2>4, <2>5 DEF Underway
<1> QED
  BY <1>7, <1>8, <1>9 DEF IInv

LEMMA TamperKeeps ==
  ASSUME IInv, Tamper
  PROVE  IInv'
<1>1. TypeOK'
  BY DEF Tamper, IInv, TypeOK, Casting, Frames, Status, ui
<1>2. OnlyClientsAreSentTo' /\ ClosedForGood' /\ HandlersSubscribe' /\ NoPanic'
  BY DEF Tamper, IInv, TypeOK, OnlyClientsAreSentTo, ClosedForGood, HandlersSubscribe,
         NoPanic, Casting, ui
<1>3. NoGap'
  <2> SUFFICES ASSUME NEW k \in Connections, (now = k /\ handler[k].pc = "replay")',
                      NEW r \in 1..log'
               PROVE  (r \in Range(got[k]) \/ Underway(k, r) \/ r \in dropped[k])'
    BY DEF NoGap
  <2>1. r \in Range(got[k]) \/ Underway(k, r) \/ r \in dropped[k]
    BY DEF Tamper, IInv, NoGap, ui
  <2>2. cast[Demo].pc # "start" /\ k \notin cast[Demo].left
    BY DEF Tamper, IInv, OnlyClientsAreSentTo
  <2> QED
    BY <2>1, <2>2 DEF Tamper, IInv, TypeOK, Underway, ui
<1> QED
  BY <1>1, <1>2, <1>3 DEF IInv

(* A broadcast that has no channel left carries nothing. *)
LEMMA EndCastKeeps ==
  ASSUME IInv, NEW s \in Senders, EndCast(s)
  PROVE  IInv'
<1>1. TypeOK'
  BY DEF EndCast, IInv, TypeOK, NoCast, Frames, Status, ui, bounds
<1>2. OnlyClientsAreSentTo' /\ ClosedForGood' /\ HandlersSubscribe' /\ NoPanic'
  BY DEF EndCast, IInv, TypeOK, OnlyClientsAreSentTo, ClosedForGood, HandlersSubscribe,
         NoPanic, NoCast, ui, bounds
<1>3. NoGap'
  <2> SUFFICES ASSUME NEW k \in Connections, (now = k /\ handler[k].pc = "replay")',
                      NEW r \in 1..log'
               PROVE  (r \in Range(got[k]) \/ Underway(k, r) \/ r \in dropped[k])'
    BY DEF NoGap
  <2>1. r \in Range(got[k]) \/ Underway(k, r) \/ r \in dropped[k]
    BY DEF EndCast, IInv, NoGap, ui
  <2>2. cast[s].pc # "start" /\ k \notin cast[s].left
    BY DEF EndCast
  <2> QED
    BY <2>1, <2>2 DEF EndCast, IInv, TypeOK, Underway, ui
<1> QED
  BY <1>1, <1>2, <1>3 DEF IInv
-----------------------------------------------------------------------------
(* A handler moves between two parts of its work: what is underway to the     *)
(* other connections is not touched.                                          *)
LEMMA SubscribeKeeps ==
  ASSUME IInv, NEW j \in Connections, Subscribe(j)
  PROVE  IInv'
<1>1. TypeOK'
  BY DEF Subscribe, IInv, TypeOK, ui, bounds
<1>2. OnlyClientsAreSentTo' /\ ClosedForGood' /\ HandlersSubscribe' /\ NoPanic'
  <2>1. OnlyClientsAreSentTo' /\ NoPanic'
    BY DEF Subscribe, IInv, OnlyClientsAreSentTo, NoPanic
  <2>2. ClosedForGood'
    BY DEF Subscribe, IInv, TypeOK, ClosedForGood
  <2>3. HandlersSubscribe'
    BY DEF Subscribe, IInv, TypeOK, HandlersSubscribe
  <2> QED
    BY <2>1, <2>2, <2>3
<1>3. NoGap'
  BY DEF Subscribe, IInv, TypeOK, NoGap, Underway, ui
<1> QED
  BY <1>1, <1>2, <1>3 DEF IInv

(* The replay is to bring everything that is in the log when it is read. *)
LEMMA SnapshotKeeps ==
  ASSUME IInv, NEW j \in Connections, Snapshot(j)
  PROVE  IInv'
<1>1. TypeOK'
  BY BoundsAssumption DEF Snapshot, IInv, TypeOK, ui, bounds
<1>2. OnlyClientsAreSentTo' /\ ClosedForGood' /\ HandlersSubscribe' /\ NoPanic'
  BY DEF Snapshot, IInv, TypeOK, OnlyClientsAreSentTo, ClosedForGood, HandlersSubscribe,
         NoPanic, ui, bounds
<1>3. NoGap'
  <2> SUFFICES ASSUME NEW k \in Connections, (now = k /\ handler[k].pc = "replay")',
                      NEW r \in 1..log'
               PROVE  (r \in Range(got[k]) \/ Underway(k, r) \/ r \in dropped[k])'
    BY DEF NoGap
  <2>1. CASE k = j
    BY <2>1 DEF Snapshot, IInv, TypeOK, Underway
  <2>2. CASE k # j
    BY <2>2 DEF Snapshot, IInv, TypeOK, NoGap, Underway, ui
  <2> QED
    BY <2>1, <2>2
<1> QED
  BY <1>1, <1>2, <1>3 DEF IInv

(* What the UI has received stays received, and the frame is with it when the *)
(* connection holds.                                                          *)
LEMMA EmitKeeps ==
  ASSUME TypeOK, NEW j \in Connections, NEW f \in Frames, Emit(j, f)
  PROVE  /\ got' \in [Connections -> Seq(Frames)]
         /\ \A k \in Connections : Range(got[k]) \subseteq Range(got'[k])
         /\ now = j => f \in Range(got'[j])
<1>1. got \in [Connections -> Seq(Frames)] /\ got[j] \in Seq(Frames)
  BY DEF TypeOK
<1>2. Append(got[j], f) \in Seq(Frames) /\ Range(Append(got[j], f)) = Range(got[j]) \cup {f}
  BY <1>1, RangeAppend
<1>3. CASE now = j
  BY <1>1, <1>2, <1>3 DEF Emit
<1>4. CASE now # j
  BY <1>1, <1>4 DEF Emit
<1> QED
  BY <1>3, <1>4

LEMMA SnapshotFailsKeeps ==
  ASSUME IInv, NEW j \in Connections, SnapshotFails(j)
  PROVE  IInv'
<1>1. /\ got' \in [Connections -> Seq(Frames)] /\ now' = now
      /\ \A k \in Connections : Range(got[k]) \subseteq Range(got'[k])
  BY EmitKeeps DEF SnapshotFails, IInv, Emit, Frames
<1>2. TypeOK'
  <2>1. handler' \in [Connections ->
          [pc : {"unused", "accepted", "subscribed", "replay", "blind", "gone"},
           next : 1..MaxRows + 1, upto : 0..MaxRows]]
    BY DEF SnapshotFails, IInv, TypeOK
  <2>2. now' \in Connections \cup {Nobody} /\ faults' \in Nat
    BY <1>1 DEF SnapshotFails, IInv, TypeOK
  <2> QED
    BY <1>1, <2>1, <2>2 DEF SnapshotFails, IInv, TypeOK
<1>3. OnlyClientsAreSentTo' /\ ClosedForGood' /\ HandlersSubscribe' /\ NoPanic'
  BY DEF SnapshotFails, IInv, TypeOK, OnlyClientsAreSentTo, ClosedForGood, HandlersSubscribe,
         NoPanic
<1>4. NoGap'
  <2> SUFFICES ASSUME NEW k \in Connections, (now = k /\ handler[k].pc = "replay")',
                      NEW r \in 1..log'
               PROVE  (r \in Range(got[k]) \/ Underway(k, r) \/ r \in dropped[k])'
    BY DEF NoGap
  <2>1. k # j /\ handler'[k] = handler[k]
    BY DEF SnapshotFails, IInv, TypeOK
  <2>2. r \in Range(got[k]) \/ Underway(k, r) \/ r \in dropped[k]
    BY <1>1, <2>1 DEF SnapshotFails, IInv, NoGap
  <2>3. Underway(k, r) => Underway(k, r)'
    BY <2>1 DEF SnapshotFails, Underway
  <2> QED
    BY <1>1, <2>2, <2>3 DEF SnapshotFails
<1> QED
  BY <1>2, <1>3, <1>4 DEF IInv

(* The replay hands over the row it stands at and goes on to the next. *)
LEMMA ReplayKeeps ==
  ASSUME IInv, NEW j \in Connections, Replay(j)
  PROVE  IInv'
<1>1. handler[j].next \in Frames
  BY BoundsAssumption DEF Replay, IInv, TypeOK, Frames, Rows
<1>2. /\ got' \in [Connections -> Seq(Frames)] /\ now' = now
      /\ \A k \in Connections : Range(got[k]) \subseteq Range(got'[k])
      /\ now = j => handler[j].next \in Range(got'[j])
  BY <1>1, EmitKeeps DEF Replay, IInv, Emit
<1>3. TypeOK'
  <2>1. handler[j].next + 1 \in 1..MaxRows + 1
    BY BoundsAssumption DEF Replay, IInv, TypeOK
  <2>2. handler' \in [Connections ->
          [pc : {"unused", "accepted", "subscribed", "replay", "blind", "gone"},
           next : 1..MaxRows + 1, upto : 0..MaxRows]]
    BY <2>1 DEF Replay, IInv, TypeOK
  <2> QED
    BY <1>2, <2>2 DEF Replay, IInv, TypeOK, bounds
<1>4. OnlyClientsAreSentTo' /\ ClosedForGood' /\ HandlersSubscribe' /\ NoPanic'
  BY DEF Replay, IInv, TypeOK, OnlyClientsAreSentTo, ClosedForGood, HandlersSubscribe,
         NoPanic, bounds
<1>5. NoGap'
  <2> SUFFICES ASSUME NEW k \in Connections, (now = k /\ handler[k].pc = "replay")',
                      NEW r \in 1..log'
               PROVE  (r \in Range(got[k]) \/ Underway(k, r) \/ r \in dropped[k])'
    BY DEF NoGap
  <2>1. r \in Range(got[k]) \/ Underway(k, r) \/ r \in dropped[k]
    BY <1>2 DEF Replay, IInv, TypeOK, NoGap
  <2>2. r \in handler[k].next..handler[k].upto =>
          r \in handler'[k].next..handler'[k].upto \/ r \in Range(got'[k])
    BY <1>2 DEF Replay, IInv, TypeOK
  <2> QED
    BY <1>2, <2>1, <2>2 DEF Replay, Underway
<1> QED
  BY <1>3, <1>4, <1>5 DEF IInv

(* What leaves the channel reaches the UI. *)
LEMMA ForwardKeeps ==
  ASSUME IInv, NEW j \in Connections, Forward(j)
  PROVE  IInv'
<1>1. channel[j] \in Seq(Frames) /\ channel[j] # <<>>
  BY DEF Forward, IInv, TypeOK
<1>2. /\ Head(channel[j]) \in Frames /\ Tail(channel[j]) \in Seq(Frames)
      /\ Len(Tail(channel[j])) = Len(channel[j]) - 1 /\ Len(channel[j]) \in Nat
  BY <1>1
<1>3. Range(channel[j]) \subseteq Range(Tail(channel[j])) \cup {Head(channel[j])}
  BY <1>1, RangeTail
<1>4. /\ got' \in [Connections -> Seq(Frames)] /\ now' = now
      /\ \A k \in Connections : Range(got[k]) \subseteq Range(got'[k])
      /\ now = j => Head(channel[j]) \in Range(got'[j])
  BY <1>2, EmitKeeps DEF Forward, IInv, Emit
<1>5. channel' = [channel EXCEPT ![j] = Tail(channel[j])]
  BY DEF Forward
<1>6. /\ channel' \in [Connections -> Seq(Frames)]
      /\ \A k \in Connections : Len(channel'[k]) <= Capacity
  BY <1>2, <1>5, CapacityAssumption DEF IInv, TypeOK
<1>7. TypeOK'
  BY <1>4, <1>6 DEF Forward, IInv, TypeOK, bounds
<1>8. OnlyClientsAreSentTo' /\ ClosedForGood' /\ HandlersSubscribe' /\ NoPanic'
  BY DEF Forward, IInv, TypeOK, OnlyClientsAreSentTo, ClosedForGood, HandlersSubscribe,
         NoPanic, bounds
<1>9. NoGap'
  <2> SUFFICES ASSUME NEW k \in Connections, (now = k /\ handler[k].pc = "replay")',
                      NEW r \in 1..log'
               PROVE  (r \in Range(got[k]) \/ Underway(k, r) \/ r \in dropped[k])'
    BY DEF NoGap
  <2>1. r \in Range(got[k]) \/ Underway(k, r) \/ r \in dropped[k]
    BY <1>4 DEF Forward, IInv, TypeOK, NoGap
  <2>2. r \in Range(channel[k]) => r \in Range(channel'[k]) \/ r \in Range(got'[k])
    BY <1>3, <1>4, <1>5 DEF IInv, TypeOK
  <2> QED
    BY <1>4, <2>1, <2>2 DEF Forward, Underway
<1> QED
  BY <1>7, <1>8, <1>9 DEF IInv

(* A channel is closed only when no broadcast holds the hub's lock. *)
LEMMA UnsubscribeKeeps ==
  ASSUME IInv, NEW j \in Connections, Unsubscribe(j)
  PROVE  IInv'
<1>1. TypeOK'
  BY DEF Unsubscribe, IInv, TypeOK, ui, bounds
<1>2. OnlyClientsAreSentTo' /\ ClosedForGood' /\ HandlersSubscribe' /\ NoPanic'
  BY DEF Unsubscribe, Unread, IInv, TypeOK, OnlyClientsAreSentTo, ClosedForGood, HandlersSubscribe,
         NoPanic, ui, bounds
<1>3. NoGap'
  BY DEF Unsubscribe, IInv, TypeOK, NoGap, Underway, ui
<1> QED
  BY <1>1, <1>2, <1>3 DEF IInv
-----------------------------------------------------------------------------
LEMMA ConnectKeeps ==
  ASSUME IInv, NEW j \in Connections, Connect(j)
  PROVE  IInv'
<1>1. TypeOK'
  BY DEF Connect, IInv, TypeOK, bounds
<1>2. OnlyClientsAreSentTo' /\ ClosedForGood' /\ HandlersSubscribe' /\ NoPanic'
  BY DEF Connect, IInv, TypeOK, OnlyClientsAreSentTo, ClosedForGood, HandlersSubscribe,
         NoPanic, bounds
<1>3. NoGap'
  BY DEF Connect, IInv, TypeOK, NoGap
<1> QED
  BY <1>1, <1>2, <1>3 DEF IInv

(* Nothing is promised of a connection that is broken. *)
LEMMA BreakKeeps ==
  ASSUME IInv, Cut \/ Restart
  PROVE  IInv'
<1>1. now' = Nobody /\ Nobody \notin Connections
  BY NamesAssumption DEF Cut, Restart
<1>2. NoGap'
  BY <1>1 DEF NoGap
<1>3. CASE Cut
  <2>1. TypeOK'
    BY <1>3 DEF Cut, IInv, TypeOK, server
  <2>2. OnlyClientsAreSentTo' /\ ClosedForGood' /\ HandlersSubscribe' /\ NoPanic'
    BY <1>3 DEF Cut, IInv, TypeOK, OnlyClientsAreSentTo, ClosedForGood, HandlersSubscribe,
         NoPanic, server
  <2> QED
    BY <1>2, <2>1, <2>2 DEF IInv
<1>4. CASE Restart
  <2>1. cast' \in [Senders -> [pc : {"idle", "start", "send"}, frame : Frames,
                               left : SUBSET Connections]]
    BY <1>4 DEF Restart, NoCast, Frames
  <2>2. handler' \in [Connections ->
          [pc : {"unused", "accepted", "subscribed", "replay", "blind", "gone"},
           next : 1..MaxRows + 1, upto : 0..MaxRows]]
    <3>1. ASSUME NEW k \in Connections
          PROVE  [handler[k] EXCEPT !.pc = "gone"] \in
                   [pc : {"unused", "accepted", "subscribed", "replay", "blind", "gone"},
                    next : 1..MaxRows + 1, upto : 0..MaxRows]
      <4>1. handler[k] \in
              [pc : {"unused", "accepted", "subscribed", "replay", "blind", "gone"},
               next : 1..MaxRows + 1, upto : 0..MaxRows]
        BY DEF IInv, TypeOK
      <4> QED
        BY <4>1
    <3>2. NoHandler \in [pc : {"unused", "accepted", "subscribed", "replay", "blind", "gone"},
                         next : 1..MaxRows + 1, upto : 0..MaxRows]
      BY BoundsAssumption DEF NoHandler
    <3> QED
      BY <1>4, <3>1, <3>2 DEF Restart
  <2>3. /\ log' = log /\ mutex' = Nobody /\ clients' = {} /\ breaks' = breaks + 1
        /\ UNCHANGED <<closed, channel, dropped, panics, got, statuses, faults>>
    BY <1>4 DEF Restart
  <2>4. TypeOK'
    BY <1>1, <2>1, <2>2, <2>3 DEF IInv, TypeOK
  <2>5. OnlyClientsAreSentTo' /\ ClosedForGood' /\ HandlersSubscribe' /\ NoPanic'
    BY <1>4 DEF Restart, IInv, TypeOK, OnlyClientsAreSentTo, ClosedForGood, HandlersSubscribe,
         NoPanic, NoCast, NoHandler
  <2> QED
    BY <1>2, <2>4, <2>5 DEF IInv
<1> QED
  BY <1>3, <1>4
-----------------------------------------------------------------------------
LEMMA NextIInv == IInv /\ [Next]_vars => IInv'
<1> SUFFICES ASSUME IInv, [Next]_vars PROVE IInv'
  OBVIOUS
<1>1. CASE UNCHANGED vars
  BY <1>1 DEF vars, server, ui, bounds, IInv, TypeOK, OnlyClientsAreSentTo, ClosedForGood, HandlersSubscribe,
         NoPanic, NoGap, Underway
<1>2. CASE Next
  <2>1. ASSUME NEW w \in Writers, Write(w) PROVE IInv'
    BY <2>1, WriteKeeps
  <2>2. CASE Tamper
    BY <2>2, TamperKeeps
  <2>3. ASSUME NEW s \in Senders, Sending(s) PROVE IInv'
    BY <2>3, StartCastKeeps, EndCastKeeps, SendKeeps DEF Sending
  <2>4. ASSUME NEW k \in Connections, Serving(k) PROVE IInv'
    BY <2>4, SubscribeKeeps, SnapshotKeeps, SnapshotFailsKeeps, ReplayKeeps, ForwardKeeps,
       UnsubscribeKeeps DEF Serving
  <2>5. CASE Reconnecting
    BY <2>5, ConnectKeeps DEF Reconnecting
  <2>6. CASE Cut \/ Restart
    BY <2>6, BreakKeeps
  <2> QED
    BY <1>2, <2>1, <2>2, <2>3, <2>4, <2>5, <2>6 DEF Next
<1> QED
  BY <1>1, <1>2

(* The inductive invariant holds in every reachable state. *)
THEOREM Invariance == Spec => []IInv
<1> QED
  BY InitIInv, NextIInv, PTL DEF Spec

(* The hub, the handlers and the UI's connection keep their types, and no     *)
(* channel is filled beyond its capacity.                                     *)
THEOREM TypeCorrect == Spec => []TypeOK
<1>1. IInv => TypeOK
  BY DEF IInv
<1> QED
  BY <1>1, Invariance, PTL

(* The locks of the hub keep Unsubscribe from closing a channel that a        *)
(* broadcast still sends to, for any number of both.                          *)
THEOREM SendsOnOpenChannels == Spec => []NoPanic
<1>1. IInv => NoPanic
  BY DEF IInv
<1> QED
  BY <1>1, Invariance, PTL

(* Subscribing before the log is read leaves no gap between the replay and    *)
(* the live rows, wherever appends and their broadcasts stand.                *)
THEOREM ReplayLeavesNoGap == Spec => []NoGap
<1>1. IInv => NoGap
  BY DEF IInv
<1> QED
  BY <1>1, Invariance, PTL
-----------------------------------------------------------------------------
(* The order of what a client receives.  The invariant: a writer in a        *)
(* broadcast holds the mutex and carries the last row of the log; what a     *)
(* client received live, and then what its channel holds, are rows in order, *)
(* all below the row that a broadcast is still to send to it.                *)
MutexFits ==
  /\ \A w \in Writers : cast[w].pc # "idle" =>
       mutex = w /\ cast[w].frame = log /\ log > 0
  /\ cast[Demo].frame = Status

Pending(k) ==
  \E w \in Writers : cast[w].pc = "start" \/ (cast[w].pc = "send" /\ k \in cast[w].left)
Top(k) == IF Pending(k) THEN log ELSE log + 1

InOrder(s, q, n, top) ==
  /\ n \in 0..Len(s) /\ Replayed(s, n) /\ Rising(s, n) /\ Rising(q, 0)
  /\ \A i \in n + 1..Len(s), j \in 1..Len(q) :
       s[i] # Status /\ q[j] # Status => s[i] < q[j]
  /\ \A i \in n + 1..Len(s) : s[i] < top
  /\ \A j \in 1..Len(q) : q[j] < top

Replaying(k) == now = k /\ handler[k].pc = "replay" /\ handler[k].next <= handler[k].upto

Waiting(k) == handler[k].pc \in {"unused", "accepted", "subscribed"}

KeepsOrder(k, n) ==
  /\ InOrder(got[k], channel[k], n, Top(k))
  /\ Replaying(k) => n = Len(got[k]) /\ handler[k].next = n + 1

OrderFits ==
  \A k \in Connections :
    /\ Waiting(k) => got[k] = <<>>
    /\ \E n \in Nat : KeepsOrder(k, n)

SInv == MutexFits /\ OrderFits

(* What is in order stays so when a frame is passed on, replayed or offered. *)
LEMMA FrameValues == Status \in Frames /\ Frames \subseteq Nat /\ Status = 0
BY BoundsAssumption DEF Frames, Rows, Status

LEMMA FramesAreNumbers ==
  ASSUME NEW s \in Seq(Frames)
  PROVE  Len(s) \in Nat /\ \A i \in 1..Len(s) : s[i] \in Nat
<1>1. Len(s) \in Nat /\ \A i \in 1..Len(s) : s[i] \in Frames
  OBVIOUS
<1> QED
  BY <1>1, FrameValues

LEMMA OrderLifts ==
  ASSUME NEW s \in Seq(Frames), NEW q \in Seq(Frames), NEW n,
         NEW top \in Nat, NEW more \in Nat, top <= more, InOrder(s, q, n, top)
  PROVE  InOrder(s, q, n, more)
<1>1. \A i \in 1..Len(s) : s[i] \in Nat
  BY FramesAreNumbers
<1>2. \A i \in 1..Len(q) : q[i] \in Nat
  BY FramesAreNumbers
<1>3. n \in 0..Len(s) /\ Len(s) \in Nat
  BY DEF InOrder
<1>4. \A i \in n + 1..Len(s) : i \in 1..Len(s)
  BY <1>3
<1> QED
  BY <1>1, <1>2, <1>4 DEF InOrder

LEMMA AppendFacts ==
  ASSUME NEW s \in Seq(Frames), NEW f \in Frames
  PROVE  /\ Append(s, f) \in Seq(Frames) /\ Len(s) \in Nat
         /\ Len(Append(s, f)) = Len(s) + 1
         /\ Append(s, f)[Len(s) + 1] = f
         /\ \A i \in 1..Len(s) : Append(s, f)[i] = s[i]
OBVIOUS

LEMMA TailFacts ==
  ASSUME NEW q \in Seq(Frames), q # <<>>
  PROVE  /\ Head(q) \in Frames /\ Tail(q) \in Seq(Frames)
         /\ Len(q) \in Nat \ {0} /\ Len(Tail(q)) = Len(q) - 1
         /\ Head(q) = q[1]
         /\ \A i \in 1..Len(q) - 1 : Tail(q)[i] = q[i + 1]
OBVIOUS

LEMMA OrderSkips ==
  ASSUME NEW s \in Seq(Frames), NEW q \in Seq(Frames), q # <<>>, NEW n, NEW top \in Nat,
         InOrder(s, q, n, top)
  PROVE  InOrder(s, Tail(q), n, top)
<1> DEFINE t == Tail(q)
<1>1. /\ Len(q) \in Nat \ {0} /\ Len(t) = Len(q) - 1
      /\ \A i \in 1..Len(t) : i + 1 \in 1..Len(q) /\ t[i] = q[i + 1]
  BY TailFacts
<1> HIDE DEF t
<1>2. Rising(t, 0)
  BY <1>1 DEF InOrder, Rising
<1>3. InOrder(s, t, n, top)
  BY <1>1, <1>2 DEF InOrder
<1> QED
  BY <1>3 DEF t

LEMMA OrderPasses ==
  ASSUME NEW s \in Seq(Frames), NEW q \in Seq(Frames), q # <<>>, NEW n, NEW top \in Nat,
         InOrder(s, q, n, top)
  PROVE  InOrder(Append(s, Head(q)), Tail(q), n, top)
<1> DEFINE t == Tail(q)
           u == Append(s, Head(q))
<1>1. /\ Len(q) \in Nat \ {0} /\ Len(t) = Len(q) - 1
      /\ \A i \in 1..Len(t) : i + 1 \in 1..Len(q) /\ i + 1 > 1 /\ t[i] = q[i + 1]
      /\ Head(q) = q[1] /\ Head(q) \in Frames
  BY TailFacts
<1>2. /\ Len(s) \in Nat /\ Len(u) = Len(s) + 1 /\ u[Len(s) + 1] = q[1]
      /\ \A i \in 1..Len(s) : u[i] = s[i]
  BY <1>1, AppendFacts
<1>3. InOrder(s, t, n, top)
  BY OrderSkips
<1>4. n \in 0..Len(s)
  BY DEF InOrder
<1> HIDE DEF t, u
<1>5. \A i \in n + 1..Len(u) :
        \/ i \in 1..Len(s) /\ i \in n + 1..Len(s) /\ u[i] = s[i]
        \/ i = Len(s) + 1 /\ u[i] = q[1]
  <2> SUFFICES ASSUME NEW i \in n + 1..Len(u), i # Len(s) + 1
               PROVE  i \in 1..Len(s) /\ i \in n + 1..Len(s)
    BY <1>2
  <2> QED
    BY <1>2, <1>4
<1>6. Replayed(u, n)
  BY <1>2, <1>4 DEF InOrder, Replayed
<1>7. 1 \in 1..Len(q)
  BY <1>1
<1>8. Rising(u, n)
  <2> SUFFICES ASSUME NEW i \in n + 1..Len(u), NEW j \in n + 1..Len(u), i < j,
                      u[i] # Status, u[j] # Status
               PROVE  u[i] < u[j]
    BY DEF Rising
  <2>1. i \in n + 1..Len(s) /\ u[i] = s[i]
    BY <1>2, <1>4, <1>5
  <2>2. CASE j \in n + 1..Len(s) /\ u[j] = s[j]
    BY <2>1, <2>2 DEF InOrder, Rising
  <2>3. CASE u[j] = q[1]
    BY <1>7, <2>1, <2>3 DEF InOrder
  <2> QED
    BY <1>5, <2>2, <2>3
<1>9. \A i \in n + 1..Len(u), j \in 1..Len(t) :
        u[i] # Status /\ t[j] # Status => u[i] < t[j]
  <2> SUFFICES ASSUME NEW i \in n + 1..Len(u), NEW j \in 1..Len(t),
                      u[i] # Status, t[j] # Status
               PROVE  u[i] < t[j]
    OBVIOUS
  <2>1. CASE i \in n + 1..Len(s) /\ u[i] = s[i]
    BY <1>3, <2>1 DEF InOrder
  <2>2. CASE u[i] = q[1]
    <3>1. j + 1 \in 1..Len(q) /\ 1 < j + 1 /\ t[j] = q[j + 1]
      BY <1>1
    <3>2. 0 + 1 = 1
      OBVIOUS
    <3> QED
      BY <1>7, <2>2, <3>1, <3>2 DEF InOrder, Rising
  <2> QED
    BY <1>5, <2>1, <2>2
<1>10. \A i \in n + 1..Len(u) : u[i] < top
  BY <1>5, <1>7 DEF InOrder
<1>11. InOrder(u, t, n, top)
  <2>1. n \in 0..Len(u)
    BY <1>2, <1>4
  <2> QED
    BY <1>3, <1>6, <1>8, <1>9, <1>10, <2>1 DEF InOrder
<1> QED
  BY <1>11 DEF t, u

LEMMA OrderReplays ==
  ASSUME NEW s \in Seq(Frames), NEW q \in Seq(Frames), NEW top \in Nat,
         InOrder(s, q, Len(s), top), Len(s) + 1 \in Frames
  PROVE  InOrder(Append(s, Len(s) + 1), q, Len(s) + 1, top)
<1> DEFINE u == Append(s, Len(s) + 1)
<1>1. /\ Len(s) \in Nat /\ Len(u) = Len(s) + 1 /\ u[Len(s) + 1] = Len(s) + 1
      /\ \A i \in 1..Len(s) : u[i] = s[i]
  BY AppendFacts
<1> HIDE DEF u
<1>2. Replayed(u, Len(s) + 1)
  BY <1>1 DEF InOrder, Replayed
<1>3. (Len(s) + 1) + 1..Len(u) = {}
  BY <1>1
<1>4. Rising(u, Len(s) + 1)
  BY <1>3 DEF Rising
<1>5. Len(s) + 1 \in 0..Len(u)
  BY <1>1
<1>6. InOrder(u, q, Len(s) + 1, top)
  BY <1>2, <1>3, <1>4, <1>5 DEF InOrder
<1> QED
  BY <1>6 DEF u

(* A row that is offered is the one nothing before has reached. *)
LEMMA OrderGrows ==
  ASSUME NEW s \in Seq(Frames), NEW q \in Seq(Frames), NEW n, NEW top \in Nat,
         NEW more \in Nat, NEW f \in Frames, top <= more, f < more, f = Status \/ f >= top,
         InOrder(s, q, n, top)
  PROVE  InOrder(s, Append(q, f), n, more)
<1> DEFINE u == Append(q, f)
<1>1. /\ Len(q) \in Nat /\ Len(u) = Len(q) + 1 /\ u[Len(q) + 1] = f
      /\ \A i \in 1..Len(q) : u[i] = q[i]
  BY AppendFacts
<1> HIDE DEF u
<1>2. \A i \in 1..Len(u) :
        \/ i \in 1..Len(q) /\ u[i] = q[i]
        \/ i = Len(q) + 1 /\ u[i] = f
  <2> SUFFICES ASSUME NEW i \in 1..Len(u), i # Len(q) + 1
               PROVE  i \in 1..Len(q)
    BY <1>1
  <2> QED
    BY <1>1
<1>3. /\ \A i \in 1..Len(s) : s[i] \in Nat
      /\ \A i \in 1..Len(q) : q[i] \in Nat
      /\ f \in Nat
  <2>1. f \in Nat
    BY FrameValues
  <2> QED
    BY <2>1, FramesAreNumbers
<1>4. n \in 0..Len(s) /\ Len(s) \in Nat
  BY DEF InOrder
<1>5. /\ \A i \in n + 1..Len(s) : s[i] < more
      /\ \A i \in 1..Len(q) : q[i] < more
  BY <1>3, <1>4 DEF InOrder
<1>6. Rising(u, 0)
  <2> SUFFICES ASSUME NEW i \in 1..Len(u), NEW j \in 1..Len(u), i < j,
                      u[i] # Status, u[j] # Status
               PROVE  u[i] < u[j]
    BY DEF Rising
  <2>1. i \in 1..Len(q) /\ u[i] = q[i]
    BY <1>1, <1>2
  <2>2. CASE j \in 1..Len(q) /\ u[j] = q[j]
    <3>1. 0 + 1 = 1
      OBVIOUS
    <3> QED
      BY <2>1, <2>2, <3>1 DEF InOrder, Rising
  <2>3. CASE u[j] = f
    BY <1>3, <2>1, <2>3 DEF InOrder
  <2> QED
    BY <1>2, <2>2, <2>3
<1>7. \A i \in n + 1..Len(s), j \in 1..Len(u) :
        s[i] # Status /\ u[j] # Status => s[i] < u[j]
  <2> SUFFICES ASSUME NEW i \in n + 1..Len(s), NEW j \in 1..Len(u),
                      s[i] # Status, u[j] # Status
               PROVE  s[i] < u[j]
    OBVIOUS
  <2>1. CASE j \in 1..Len(q) /\ u[j] = q[j]
    BY <2>1 DEF InOrder
  <2>2. CASE u[j] = f
    <3>1. s[i] < top /\ i \in 1..Len(s)
      BY <1>4 DEF InOrder
    <3> QED
      BY <1>3, <2>2, <3>1
  <2> QED
    BY <1>2, <2>1, <2>2
<1>8. \A j \in 1..Len(u) : u[j] < more
  BY <1>2, <1>5
<1>9. InOrder(s, u, n, more)
  BY <1>5, <1>6, <1>7, <1>8 DEF InOrder
<1> QED
  BY <1>9 DEF u

LEMMA OrderStarts ==
  ASSUME NEW q \in Seq(Frames), NEW n, NEW top \in Nat \ {0}, InOrder(<<>>, q, n, top)
  PROVE  InOrder(<<Status>>, q, 0, top)
<1> DEFINE u == <<Status>>
<1>1. Len(u) = 1 /\ u[1] = 0
  BY DEF Status
<1> HIDE DEF u
<1>2. \A i \in 0 + 1..Len(u) : u[i] = Status /\ u[i] < top /\ i = 1
  BY <1>1 DEF Status
<1>3. 0 \in 0..Len(u) /\ Replayed(u, 0) /\ Rising(u, 0)
  BY <1>1, <1>2 DEF Replayed, Rising
<1>4. InOrder(u, q, 0, top)
  BY <1>2, <1>3 DEF InOrder
<1> QED
  BY <1>4 DEF u
-----------------------------------------------------------------------------
LEMMA TopIsNumber ==
  ASSUME log \in Nat, log' \in Nat, NEW k
  PROVE  Top(k) \in Nat /\ Top(k)' \in Nat
<1>1. \A n \in Nat : n + 1 \in Nat
  OBVIOUS
<1>2. log + 1 \in Nat /\ log' + 1 \in Nat
  BY <1>1, Zenon
<1> QED
  BY <1>2, Zenon DEF Top

LEMMA TopIsPositive ==
  ASSUME IInv, SInv, NEW k
  PROVE  Top(k) \in Nat \ {0}
<1>1. log \in Nat
  BY BoundsAssumption DEF IInv, TypeOK
<1>2. CASE Pending(k)
  BY <1>1, <1>2 DEF Top, Pending, SInv, MutexFits
<1>3. CASE ~Pending(k)
  BY <1>1, <1>3 DEF Top
<1> QED
  BY <1>2, <1>3

(* Where a client receives nothing and its channel is left alone, the row     *)
(* that is to come may only move on.                                          *)
LEMMA StaysInOrder ==
  ASSUME IInv, IInv', OrderFits, NEW k \in Connections,
         got'[k] = got[k], channel'[k] = channel[k], Top(k) <= Top(k)',
         Waiting(k)' => Waiting(k),
         Replaying(k)' => Replaying(k) /\ handler'[k].next = handler[k].next
  PROVE  (Waiting(k) => got[k] = <<>>)' /\ \E n \in Nat : KeepsOrder(k, n)'
<1>1. PICK n \in Nat : KeepsOrder(k, n)
  BY DEF OrderFits
<1>2. Top(k) \in Nat /\ Top(k)' \in Nat
  BY BoundsAssumption, TopIsNumber DEF IInv, TypeOK
<1>3. got[k] \in Seq(Frames) /\ channel[k] \in Seq(Frames)
  BY DEF IInv, TypeOK
<1>4. InOrder(got[k], channel[k], n, Top(k)')
  BY <1>1, <1>2, <1>3, OrderLifts DEF KeepsOrder
<1>5. KeepsOrder(k, n)'
  BY <1>1, <1>4 DEF KeepsOrder
<1> QED
  BY <1>5 DEF OrderFits

(* Only a sender's own writes and the end of its broadcast move the row that  *)
(* is to come; it never moves back.                                           *)
LEMMA TopWaits ==
  ASSUME UNCHANGED <<log, cast>>, NEW k \in Connections
  PROVE  Top(k)' = Top(k)
BY DEF Top, Pending

(* Actions that leave what the clients have, and the channels, alone.         *)
LEMMA QuietKeeps ==
  ASSUME IInv, IInv', SInv, MutexFits', UNCHANGED <<got, channel>>,
         \A k \in Connections :
           /\ Top(k) <= Top(k)' /\ (Waiting(k)' => Waiting(k))
           /\ Replaying(k)' => Replaying(k) /\ handler'[k].next = handler[k].next
  PROVE  SInv'
<1>1. \A k \in Connections : (Waiting(k) => got[k] = <<>>)' /\ \E n \in Nat : KeepsOrder(k, n)'
  BY StaysInOrder DEF SInv
<1> QED
  BY <1>1 DEF SInv, OrderFits

LEMMA WriteInOrder ==
  ASSUME IInv, IInv', SInv, NEW w \in Writers, Write(w)
  PROVE  SInv'
<1>1. MutexFits'
  BY NamesAssumption, BoundsAssumption
  DEF Write, SInv, MutexFits, IInv, TypeOK, Casting, ui, bounds
<1>2. \A v \in Writers : cast[v].pc = "idle"
  BY NamesAssumption DEF Write, SInv, MutexFits
<1>3. ASSUME NEW k \in Connections PROVE Top(k) <= Top(k)'
  <2>1. ~Pending(k)
    BY <1>2 DEF Pending
  <2>2. log' = log + 1 /\ log \in Nat
    BY BoundsAssumption DEF Write, IInv, TypeOK
  <2> QED
    BY <2>1, <2>2 DEF Top
<1> QED
  BY <1>1, <1>3, QuietKeeps DEF Write, ui, Waiting, Replaying

LEMMA TamperInOrder ==
  ASSUME IInv, IInv', SInv, Tamper
  PROVE  SInv'
<1>1. MutexFits'
  BY NamesAssumption DEF Tamper, SInv, MutexFits, IInv, TypeOK, Casting, ui, bounds
<1>2. \A k \in Connections : Top(k)' = Top(k)
  BY NamesAssumption DEF Tamper, Top, Pending, IInv, TypeOK, Casting
<1>3. log \in Nat /\ log' \in Nat
  BY BoundsAssumption DEF IInv, TypeOK
<1>4. \A k \in Connections : Top(k) <= Top(k)'
  BY <1>2, <1>3, TopIsNumber
<1> QED
  BY <1>1, <1>4, QuietKeeps DEF Tamper, ui, Waiting, Replaying

LEMMA StartCastInOrder ==
  ASSUME IInv, IInv', SInv, NEW s \in Senders, StartCast(s)
  PROVE  SInv'
<1>1. MutexFits'
  BY NamesAssumption DEF StartCast, SInv, MutexFits, IInv, TypeOK, ui, bounds
<1>2. log' = log /\ log \in Nat
  BY BoundsAssumption DEF StartCast, IInv, TypeOK
<1>3. ASSUME NEW k \in Connections PROVE Top(k) <= Top(k)'
  <2>1. Pending(k)' => Pending(k)
    BY DEF StartCast, Pending, IInv, TypeOK
  <2>2. CASE Pending(k)
    BY <1>2, <2>2 DEF Top
  <2>3. CASE ~Pending(k)
    BY <1>2, <2>1, <2>3 DEF Top
  <2> QED
    BY <2>2, <2>3
<1> QED
  BY <1>1, <1>3, QuietKeeps DEF StartCast, ui, Waiting, Replaying

LEMMA EndCastInOrder ==
  ASSUME IInv, IInv', SInv, NEW s \in Senders, EndCast(s)
  PROVE  SInv'
<1>1. MutexFits'
  BY NamesAssumption DEF EndCast, SInv, MutexFits, IInv, TypeOK, NoCast, ui, bounds
<1>2. log' = log /\ log \in Nat
  BY BoundsAssumption DEF EndCast, IInv, TypeOK
<1>3. ASSUME NEW k \in Connections PROVE Top(k) <= Top(k)'
  <2>1. Pending(k)' => Pending(k)
    BY DEF EndCast, Pending, IInv, TypeOK, NoCast
  <2>2. CASE Pending(k)
    BY <1>2, <2>2 DEF Top
  <2>3. CASE ~Pending(k)
    BY <1>2, <2>1, <2>3 DEF Top
  <2> QED
    BY <2>2, <2>3
<1> QED
  BY <1>1, <1>3, QuietKeeps DEF EndCast, ui, Waiting, Replaying

LEMMA BreakInOrder ==
  ASSUME IInv, IInv', SInv, Cut \/ Restart
  PROVE  SInv'
<1>1. MutexFits'
  BY NamesAssumption DEF Cut, Restart, SInv, MutexFits, IInv, TypeOK, NoCast, server
<1>2. log' = log /\ log \in Nat
  BY BoundsAssumption DEF Cut, Restart, IInv, TypeOK, server
<1>3. ASSUME NEW k \in Connections PROVE Top(k) <= Top(k)'
  <2>1. Pending(k)' => Pending(k)
    BY DEF Cut, Restart, Pending, NoCast, server
  <2>2. CASE Pending(k)
    BY <1>2, <2>2 DEF Top
  <2>3. CASE ~Pending(k)
    BY <1>2, <2>1, <2>3 DEF Top
  <2> QED
    BY <2>2, <2>3
<1>4. now' = Nobody /\ \A k \in Connections : Waiting(k)' => Waiting(k)
  <2>1. CASE Cut
    BY <2>1 DEF Cut, server, Waiting
  <2>2. CASE Restart
    <3> SUFFICES ASSUME NEW k \in Connections, ~Waiting(k)
                 PROVE  handler'[k].pc = "gone"
      BY <2>2 DEF Restart, Waiting
    <3>1. handler'[k] = [handler[k] EXCEPT !.pc = "gone"]
      BY <2>2 DEF Restart, Waiting
    <3> QED
      BY <3>1 DEF IInv, TypeOK
  <2> QED
    BY <2>1, <2>2
<1>5. \A k \in Connections : ~Replaying(k)'
  BY <1>4, NamesAssumption DEF Replaying
<1> QED
  BY <1>1, <1>3, <1>4, <1>5, QuietKeeps DEF Cut, Restart, server

(* What the handler of one connection does concerns no other.                 *)
LEMMA HandlerKeeps ==
  ASSUME IInv, IInv', SInv, UNCHANGED <<log, mutex, cast>>, NEW k \in Connections,
         \A j \in Connections \ {k} :
           /\ got'[j] = got[j] /\ channel'[j] = channel[j] /\ handler'[j] = handler[j]
           /\ now' = j => now = j,
         (Waiting(k) => got[k] = <<>>)', \E n \in Nat : KeepsOrder(k, n)'
  PROVE  SInv'
<1>1. MutexFits'
  BY DEF SInv, MutexFits
<1>2. ASSUME NEW j \in Connections \ {k}
      PROVE  (Waiting(j) => got[j] = <<>>)' /\ \E n \in Nat : KeepsOrder(j, n)'
  <2>1. Top(j)' = Top(j)
    BY TopWaits
  <2>2. log \in Nat /\ log' \in Nat
    BY BoundsAssumption DEF IInv, TypeOK
  <2>3. Top(j) <= Top(j)'
    BY <2>1, <2>2, TopIsNumber
  <2>4. /\ Waiting(j)' => Waiting(j)
        /\ Replaying(j)' => Replaying(j) /\ handler'[j].next = handler[j].next
    BY <1>2 DEF Waiting, Replaying
  <2> QED
    BY <1>2, <2>3, <2>4, StaysInOrder DEF SInv
<1>3. OrderFits'
  BY <1>2 DEF OrderFits
<1> QED
  BY <1>1, <1>3 DEF SInv

LEMMA ServesOthers ==
  ASSUME IInv, SInv, NEW k \in Connections, Serving(k)
  PROVE  /\ UNCHANGED <<log, mutex, cast, now>>
         /\ \A j \in Connections \ {k} :
              got'[j] = got[j] /\ channel'[j] = channel[j] /\ handler'[j] = handler[j]
BY DEF Serving, Subscribe, Snapshot, SnapshotFails, Replay, Forward, Unsubscribe, Emit,
       ui, IInv, TypeOK

LEMMA SubscribeInOrder ==
  ASSUME IInv, IInv', SInv, NEW k \in Connections, Subscribe(k) \/ Unsubscribe(k)
  PROVE  SInv'
<1>1. log \in Nat /\ UNCHANGED <<log, mutex, cast>>
  BY BoundsAssumption DEF Subscribe, Unsubscribe, IInv, TypeOK
<1>2. \A j \in Connections : Top(j) <= Top(j)'
  BY <1>1, TopWaits, TopIsNumber
<1>3. ASSUME NEW j \in Connections
      PROVE  /\ Waiting(j)' => Waiting(j)
             /\ Replaying(j)' => Replaying(j) /\ handler'[j].next = handler[j].next
  <2>1. UNCHANGED <<now, got>>
    BY DEF Subscribe, Unsubscribe, ui
  <2>2. \/ handler'[j] = handler[j]
        \/ handler[j].pc = "accepted" /\ handler'[j].pc = "subscribed"
        \/ handler'[j].pc = "gone"
    <3>1. CASE Subscribe(k)
      BY <3>1 DEF Subscribe, IInv, TypeOK
    <3>2. CASE Unsubscribe(k)
      BY <3>2 DEF Unsubscribe, IInv, TypeOK
    <3> QED
      BY <3>1, <3>2
  <2> QED
    BY <2>1, <2>2 DEF Waiting, Replaying
<1>4. MutexFits'
  BY <1>1 DEF SInv, MutexFits
<1> QED
  BY <1>2, <1>3, <1>4, QuietKeeps DEF Subscribe, Unsubscribe, ui

LEMMA SnapshotInOrder ==
  ASSUME IInv, IInv', SInv, NEW k \in Connections, Snapshot(k)
  PROVE  SInv'
<1>1. UNCHANGED <<log, mutex, cast, got, channel, now>>
  BY DEF Snapshot, ui
<1>2. got[k] = <<>>
  BY DEF Snapshot, SInv, OrderFits, Waiting
<1>3. PICK n \in Nat : KeepsOrder(k, n)
  BY DEF SInv, OrderFits
<1>4. Len(got[k]) = 0
  BY <1>2
<1>5. n = 0
  BY <1>3, <1>4 DEF KeepsOrder, InOrder
<1>6. Top(k)' = Top(k)
  BY <1>1, TopWaits
<1>7. handler'[k].next = 1
  BY DEF Snapshot, IInv, TypeOK
<1>8. 0 + 1 = 1
  OBVIOUS
<1>9. KeepsOrder(k, n)'
  BY <1>1, <1>3, <1>4, <1>5, <1>6, <1>7, <1>8 DEF KeepsOrder
<1> QED
  BY <1>1, <1>2, <1>9, HandlerKeeps, ServesOthers DEF Serving

LEMMA SnapshotFailsInOrder ==
  ASSUME IInv, IInv', SInv, NEW k \in Connections, SnapshotFails(k)
  PROVE  SInv'
<1>1. UNCHANGED <<log, mutex, cast, channel, now>> /\ handler'[k].pc = "blind"
  BY DEF SnapshotFails, IInv, TypeOK, Emit
<1>2. got[k] = <<>>
  BY DEF SnapshotFails, SInv, OrderFits, Waiting
<1>3. PICK n \in Nat : KeepsOrder(k, n)
  BY DEF SInv, OrderFits
<1>4. Top(k)' = Top(k)
  BY <1>1, TopWaits
<1>5. InOrder(<<>>, channel[k], n, Top(k))
  BY <1>2, <1>3 DEF KeepsOrder
<1>6. ~Waiting(k)' /\ ~Replaying(k)'
  BY <1>1 DEF Waiting, Replaying
<1>7. got'[k] = <<>> \/ got'[k] = <<Status>>
  <2>1. got'[k] = got[k] \/ got'[k] = Append(got[k], Status)
    BY DEF SnapshotFails, Emit, IInv, TypeOK
  <2> QED
    BY <1>2, <2>1
<1>8. CASE got'[k] = <<>>
  <2>1. KeepsOrder(k, n)'
    BY <1>1, <1>4, <1>5, <1>6, <1>8 DEF KeepsOrder
  <2> QED
    BY <1>1, <1>6, <2>1, HandlerKeeps, ServesOthers DEF Serving
<1>9. CASE got'[k] = <<Status>>
  <2>1. Top(k) \in Nat \ {0} /\ channel[k] \in Seq(Frames)
    BY TopIsPositive DEF IInv, TypeOK
  <2>2. InOrder(<<Status>>, channel[k], 0, Top(k))
    BY <1>5, <2>1, OrderStarts
  <2>3. KeepsOrder(k, 0)' /\ 0 \in Nat
    BY <1>1, <1>4, <1>6, <1>9, <2>2 DEF KeepsOrder
  <2> QED
    BY <1>1, <1>6, <2>3, HandlerKeeps, ServesOthers DEF Serving
<1> QED
  BY <1>7, <1>8, <1>9

LEMMA ReplayInOrder ==
  ASSUME IInv, IInv', SInv, NEW k \in Connections, Replay(k)
  PROVE  SInv'
<1>1. UNCHANGED <<log, mutex, cast, channel, now>>
  BY DEF Replay, Emit
<1>2. /\ handler[k].pc = "replay" /\ handler[k].next <= handler[k].upto
      /\ handler'[k].pc = "replay" /\ handler'[k].next = handler[k].next + 1
  BY DEF Replay, IInv, TypeOK
<1>3. PICK n \in Nat : KeepsOrder(k, n)
  BY DEF SInv, OrderFits
<1>4. Top(k)' = Top(k) /\ ~Waiting(k)'
  BY <1>1, <1>2, TopWaits DEF Waiting
<1>5. CASE now # k
  <2>1. got'[k] = got[k] /\ ~Replaying(k)'
    BY <1>1, <1>5 DEF Replay, Emit, Replaying
  <2>2. KeepsOrder(k, n)'
    BY <1>1, <1>3, <1>4, <2>1 DEF KeepsOrder
  <2> QED
    BY <1>1, <1>4, <2>2, HandlerKeeps, ServesOthers DEF Serving
<1>6. CASE now = k
  <2>1. Replaying(k)
    BY <1>2, <1>6 DEF Replaying
  <2>2. /\ InOrder(got[k], channel[k], n, Top(k))
        /\ n = Len(got[k]) /\ handler[k].next = n + 1
    BY <1>3, <2>1 DEF KeepsOrder
  <2>3. got'[k] = Append(got[k], n + 1)
    BY <1>6, <2>2 DEF Replay, Emit, IInv, TypeOK
  <2>4. /\ got[k] \in Seq(Frames) /\ channel[k] \in Seq(Frames)
        /\ n + 1 \in Frames /\ Top(k) \in Nat
    <3>1. handler[k].next \in 1..MaxRows
      BY <1>2, BoundsAssumption DEF IInv, TypeOK
    <3>2. log \in Nat /\ log' \in Nat
      BY BoundsAssumption DEF IInv, TypeOK
    <3> QED
      BY <2>2, <3>1, <3>2, TopIsNumber DEF IInv, TypeOK, Frames, Rows
  <2>5. InOrder(got'[k], channel[k], n + 1, Top(k))
    BY <2>2, <2>3, <2>4, OrderReplays
  <2>6. Len(got'[k]) = n + 1 /\ n + 1 \in Nat
    BY <2>2, <2>3, <2>4, AppendFacts
  <2>7. handler'[k].next = (n + 1) + 1
    BY <1>2, <2>2
  <2>8. KeepsOrder(k, n + 1)'
    BY <1>1, <1>4, <2>5, <2>6, <2>7 DEF KeepsOrder
  <2> QED
    BY <1>1, <1>4, <2>6, <2>8, HandlerKeeps, ServesOthers DEF Serving
<1> QED
  BY <1>5, <1>6

LEMMA ForwardInOrder ==
  ASSUME IInv, IInv', SInv, NEW k \in Connections, Forward(k)
  PROVE  SInv'
<1>1. UNCHANGED <<log, mutex, cast, handler, now>> /\ channel'[k] = Tail(channel[k])
  BY DEF Forward, Emit, IInv, TypeOK
<1>2. ~Waiting(k)' /\ ~Replaying(k)'
  BY <1>1 DEF Forward, Live, Waiting, Replaying, IInv, TypeOK
<1>3. PICK n \in Nat : KeepsOrder(k, n)
  BY DEF SInv, OrderFits
<1>4. Top(k)' = Top(k)
  BY <1>1, TopWaits
<1>5. /\ got[k] \in Seq(Frames) /\ channel[k] \in Seq(Frames) /\ channel[k] # <<>>
      /\ Top(k) \in Nat /\ InOrder(got[k], channel[k], n, Top(k))
  BY <1>3, TopIsPositive DEF Forward, IInv, TypeOK, KeepsOrder
<1>6. InOrder(got'[k], channel'[k], n, Top(k))
  <2>1. CASE now = k
    <3>1. got'[k] = Append(got[k], Head(channel[k]))
      BY <2>1 DEF Forward, Emit, IInv, TypeOK
    <3> QED
      BY <1>1, <1>5, <3>1, OrderPasses
  <2>2. CASE now # k
    <3>1. got'[k] = got[k]
      BY <2>2 DEF Forward, Emit
    <3> QED
      BY <1>1, <1>5, <3>1, OrderSkips
  <2> QED
    BY <2>1, <2>2
<1>7. KeepsOrder(k, n)'
  BY <1>2, <1>4, <1>6 DEF KeepsOrder
<1> QED
  BY <1>1, <1>2, <1>7, HandlerKeeps, ServesOthers DEF Serving

LEMMA ConnectInOrder ==
  ASSUME IInv, IInv', SInv, NEW k \in Connections, Connect(k)
  PROVE  SInv'
<1>1. log \in Nat /\ UNCHANGED <<log, mutex, cast, got, channel>>
  BY BoundsAssumption DEF Connect, IInv, TypeOK
<1>2. \A j \in Connections : Top(j) <= Top(j)'
  BY <1>1, TopWaits, TopIsNumber
<1>3. ASSUME NEW j \in Connections
      PROVE  (Waiting(j)' => Waiting(j)) /\ ~Replaying(j)'
  <2>1. CASE j = k
    BY <2>1 DEF Connect, Waiting, Replaying, IInv, TypeOK
  <2>2. CASE j # k
    BY <2>2 DEF Connect, Waiting, Replaying, IInv, TypeOK
  <2> QED
    BY <2>1, <2>2
<1>4. MutexFits'
  BY <1>1 DEF SInv, MutexFits
<1> QED
  BY <1>1, <1>2, <1>3, <1>4, QuietKeeps

(* A writer offers the row it holds the mutex for; once the client has been   *)
(* offered it, the next row is to come.                                       *)
LEMMA SendInOrder ==
  ASSUME IInv, IInv', SInv, NEW s \in Senders, NEW k \in Connections, Send(s, k)
  PROVE  SInv'
<1>1. /\ UNCHANGED <<log, mutex, handler, now, got>> /\ log \in Nat
      /\ \A j \in Connections \ {k} : channel'[j] = channel[j]
      /\ cast'[s].pc = cast[s].pc /\ cast'[s].frame = cast[s].frame
      /\ cast'[s].left = cast[s].left \ {k}
      /\ \A t \in Senders \ {s} : cast'[t] = cast[t]
  <2>1. UNCHANGED <<log, mutex, handler, now, got>> /\ log \in Nat
    BY BoundsAssumption DEF Send, IInv, TypeOK, ui
  <2>2. \A j \in Connections \ {k} : channel'[j] = channel[j]
    <3>1. \/ channel' = channel
          \/ channel' = [channel EXCEPT ![k] = Append(@, cast[s].frame)]
      BY Zenon DEF Send
    <3>2. channel \in [Connections -> Seq(Frames)]
      BY DEF IInv, TypeOK
    <3> QED
      BY <3>1, <3>2
  <2>3. /\ cast' = [cast EXCEPT ![s].left = @ \ {k}]
        /\ cast \in [Senders -> [pc : {"idle", "start", "send"}, frame : Frames,
                                left : SUBSET Connections]]
    BY DEF Send, IInv, TypeOK
  <2>4. /\ cast'[s].pc = cast[s].pc /\ cast'[s].frame = cast[s].frame
        /\ cast'[s].left = cast[s].left \ {k}
        /\ \A t \in Senders \ {s} : cast'[t] = cast[t]
    BY <2>3
  <2> QED
    BY <2>1, <2>2, <2>4
<1>2. MutexFits'
  BY <1>1 DEF SInv, MutexFits
<1>3. \A j \in Connections : Pending(j)' => Pending(j)
  BY <1>1 DEF Pending
<1>4. ASSUME NEW j \in Connections PROVE Top(j) <= Top(j)'
  <2>1. CASE Pending(j)
    BY <1>1, <2>1 DEF Top
  <2>2. CASE ~Pending(j)
    BY <1>1, <1>3, <2>2 DEF Top
  <2> QED
    BY <2>1, <2>2
<1>5. ASSUME NEW j \in Connections, channel'[j] = channel[j]
      PROVE  (Waiting(j) => got[j] = <<>>)' /\ \E n \in Nat : KeepsOrder(j, n)'
  BY <1>1, <1>4, <1>5, StaysInOrder DEF SInv, Waiting, Replaying
<1>6. CASE channel'[k] = channel[k]
  BY <1>1, <1>2, <1>5, <1>6 DEF SInv, OrderFits
<1>7. CASE channel'[k] = Append(channel[k], cast[s].frame)
  <2>1. PICK n \in Nat : KeepsOrder(k, n)
    BY DEF SInv, OrderFits
  <2>2. Top(k) \in Nat /\ Top(k)' \in Nat
    BY <1>1, TopIsNumber
  <2>3. /\ got[k] \in Seq(Frames) /\ channel[k] \in Seq(Frames)
        /\ cast[s].frame \in Frames
    BY DEF IInv, TypeOK
  <2>4. /\ cast[s].frame < Top(k)'
        /\ cast[s].frame = Status \/ cast[s].frame >= Top(k)
    <3>1. CASE s = Demo
      <4>1. cast[s].frame = Status
        BY <3>1 DEF SInv, MutexFits
      <4>2. Top(k)' > 0
        BY <1>1, <1>2 DEF Top, Pending, MutexFits
      <4> QED
        BY <4>1, <4>2 DEF Status
    <3>2. CASE s \in Writers
      <4>1. Pending(k) /\ cast[s].frame = log
        BY <3>2 DEF Send, Pending, SInv, MutexFits
      <4>2. ~Pending(k)'
        <5>1. \A w \in Writers \ {s} : cast[w].pc = "idle"
          BY <3>2 DEF Send, SInv, MutexFits
        <5> QED
          BY <1>1, <5>1 DEF Pending, Send
      <4> QED
        BY <1>1, <4>1, <4>2 DEF Top
    <3> QED
      BY <3>1, <3>2
  <2>5. InOrder(got[k], channel'[k], n, Top(k)')
    BY <1>4, <1>7, <2>1, <2>2, <2>3, <2>4, OrderGrows DEF KeepsOrder
  <2>6. KeepsOrder(k, n)'
    BY <1>1, <2>1, <2>5 DEF KeepsOrder, Replaying
  <2>7. (Waiting(k) => got[k] = <<>>)'
    BY <1>1 DEF SInv, OrderFits, Waiting
  <2> QED
    BY <1>1, <1>2, <1>5, <2>6, <2>7 DEF SInv, OrderFits
<1> QED
  BY <1>6, <1>7 DEF Send, IInv, TypeOK

LEMMA InitSInv == Init => SInv
<1> SUFFICES ASSUME Init PROVE SInv
  OBVIOUS
<1>1. MutexFits
  BY DEF Init, MutexFits, NoCast
<1>2. ASSUME NEW k \in Connections
      PROVE  got[k] = <<>> /\ KeepsOrder(k, 0)
  <2>1. got[k] = <<>> /\ channel[k] = <<>> /\ ~Replaying(k)
    BY DEF Init, Replaying, NoHandler
  <2>2. InOrder(<<>>, <<>>, 0, Top(k))
    <3> DEFINE e == <<>>
    <3>1. Len(e) = 0
      OBVIOUS
    <3> HIDE DEF e
    <3>2. InOrder(e, e, 0, Top(k))
      BY <3>1 DEF InOrder, Replayed, Rising
    <3> QED
      BY <3>2 DEF e
  <2> QED
    BY <2>1, <2>2 DEF KeepsOrder
<1> QED
  BY <1>1, <1>2 DEF SInv, OrderFits

LEMMA NextSInv == IInv /\ IInv' /\ SInv /\ [Next]_vars => SInv'
<1> SUFFICES ASSUME IInv, IInv', SInv, [Next]_vars PROVE SInv'
  OBVIOUS
<1>1. CASE UNCHANGED vars
  <2>1. UNCHANGED <<log, mutex, cast, got, channel, handler, now>> /\ log \in Nat
    BY <1>1, BoundsAssumption DEF vars, server, ui, IInv, TypeOK
  <2>2. MutexFits'
    BY <2>1 DEF SInv, MutexFits
  <2>3. \A j \in Connections : Top(j) <= Top(j)'
    BY <2>1, TopWaits, TopIsNumber
  <2> QED
    BY <2>1, <2>2, <2>3, QuietKeeps DEF Waiting, Replaying
<1>2. CASE Next
  <2>1. ASSUME NEW w \in Writers, Write(w) PROVE SInv'
    BY <2>1, WriteInOrder
  <2>2. CASE Tamper
    BY <2>2, TamperInOrder
  <2>3. ASSUME NEW s \in Senders, Sending(s) PROVE SInv'
    BY <2>3, StartCastInOrder, EndCastInOrder, SendInOrder DEF Sending
  <2>4. ASSUME NEW k \in Connections, Serving(k) PROVE SInv'
    BY <2>4, SubscribeInOrder, SnapshotInOrder, SnapshotFailsInOrder, ReplayInOrder,
       ForwardInOrder DEF Serving
  <2>5. CASE Reconnecting
    BY <2>5, ConnectInOrder DEF Reconnecting
  <2>6. CASE Cut \/ Restart
    BY <2>6, BreakInOrder
  <2> QED
    BY <1>2, <2>1, <2>2, <2>3, <2>4, <2>5, <2>6 DEF Next
<1> QED
  BY <1>1, <1>2

(* What a client receives on a connection is the log from its first row to    *)
(* one, in order and without a gap, and from there on rows in the order of    *)
(* the log: rows are written and offered under one mutex, so a channel never  *)
(* holds a row behind a later one, for any number of writers and clients.     *)
THEOREM ReplaysThenLive == Spec => []ReplayThenLive
<1>1. SInv => ReplayThenLive
  BY DEF SInv, OrderFits, KeepsOrder, InOrder, ReplayThenLive
<1> QED
  BY <1>1, InitSInv, NextSInv, Invariance, PTL DEF Spec
=============================================================================
