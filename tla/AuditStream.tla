---------------------------- MODULE AuditStream ----------------------------
(***************************************************************************)
(* The live audit stream: the hub that fans rows out (stream.go), the      *)
(* /events and /demo/tamper handlers (streamserver.go), and the connection *)
(* the UI keeps to them (AuditStreamService.cs).                           *)
(*                                                                         *)
(* A row is its number in the log.  Append writes it and broadcasts it     *)
(* under the store's mutex; a broadcast sends to one channel after the     *)
(* other under the hub's read lock, and skips a full channel.  A handler   *)
(* subscribes, replays the log and then forwards what its channel holds.   *)
(***************************************************************************)
EXTENDS Integers, Sequences, Functions

CONSTANTS
  Writers,          (* goroutines that append to the store             *)
  Demo,             (* the goroutine of /demo/tamper                   *)
  Connections,      (* requests of /events, each made once             *)
  Nobody,           (* no writer, no connection                        *)
  Capacity,         (* of a channel: 100 in the code                   *)
  MaxRows,          (* bound: rows                                     *)
  MaxStatuses,      (* bound: tamper demos                             *)
  MaxBreaks,        (* bound: connections that break, server restarts  *)
  MaxFaults         (* bound: replays that cannot read the log         *)

Senders == Writers \cup {Demo}
Rows == 1..MaxRows
Status == 0         (* the frame of a chain_status event *)
Frames == Rows \cup {Status}

ASSUME NamesAssumption ==
  Demo \notin Writers /\ Nobody \notin Writers /\ Nobody \notin Connections
ASSUME CapacityAssumption == Capacity \in Nat \ {0}
ASSUME BoundsAssumption ==
  /\ MaxRows \in Nat /\ MaxStatuses \in Nat /\ MaxBreaks \in Nat /\ MaxFaults \in Nat

VARIABLES
  log,              (* rows in the file                                *)
  mutex,            (* holder of the store's mutex                     *)
  cast,             (* per sender: the broadcast it is in              *)
  clients, closed,  (* channels the hub has, channels it has closed    *)
  channel,          (* per connection: frames in its channel           *)
  handler,          (* per connection: where its handler stands        *)
  now,              (* the connection the UI reads                     *)
  got, dropped,     (* history, per connection: received, not sent     *)
  panics,           (* history: closed channels something was sent to  *)
  statuses, breaks, faults

server == <<log, mutex, cast, clients, closed, channel, handler, dropped, panics>>
ui == <<now, got>>
bounds == <<statuses, breaks, faults>>
vars == <<server, ui, bounds>>

NoCast == [pc |-> "idle", frame |-> Status, left |-> {}]
Casting(f) == [pc |-> "start", frame |-> f, left |-> {}]
NoHandler == [pc |-> "unused", next |-> 1, upto |-> 0]

Init ==
  /\ log = 0 /\ mutex = Nobody /\ cast = [s \in Senders |-> NoCast]
  /\ clients = {} /\ closed = {} /\ channel = [k \in Connections |-> <<>>]
  /\ handler = [k \in Connections |-> NoHandler]
  /\ now = Nobody /\ got = [k \in Connections |-> <<>>] /\ dropped = [k \in Connections |-> {}]
  /\ panics = {}
  /\ statuses = 0 /\ breaks = 0 /\ faults = 0
-----------------------------------------------------------------------------
(* Slip: the lock is not taken. *)
Unread_Unlocked == TRUE
(* The lock of the hub: a broadcast holds it for reading, Subscribe and       *)
(* Unsubscribe take it for writing.                                           *)
Unread == \A s \in Senders : cast[s].pc # "send"

(* Slip: the mutex is let go of before the broadcast. *)
Write_Early(w) ==
  /\ cast[w].pc = "idle" /\ mutex = Nobody /\ log < MaxRows
  /\ log' = log + 1
  /\ cast' = [cast EXCEPT ![w] = Casting(log + 1)]
  /\ UNCHANGED <<mutex, clients, closed, channel, handler, dropped, panics, ui, bounds>>

(* Append: the line is written, the mutex stays taken. *)
Write(w) ==
  /\ cast[w].pc = "idle" /\ mutex = Nobody /\ log < MaxRows
  /\ log' = log + 1 /\ mutex' = w
  /\ cast' = [cast EXCEPT ![w] = Casting(log + 1)]
  /\ UNCHANGED <<clients, closed, channel, handler, dropped, panics, ui, bounds>>

(* handleTamper: reads the log, and broadcasts what VerifyChain says of a copy. *)
Tamper ==
  /\ cast[Demo].pc = "idle" /\ mutex = Nobody /\ statuses < MaxStatuses
  /\ statuses' = statuses + 1
  /\ cast' = [cast EXCEPT ![Demo] = Casting(Status)]
  /\ UNCHANGED <<log, mutex, clients, closed, channel, handler, dropped, panics, ui,
                 breaks, faults>>

(* Slip: clients that are still replaying are left out. *)
StartCast_LiveOnly(s) ==
  /\ cast[s].pc = "start"
  /\ cast' = [cast EXCEPT ![s].pc = "send",
                          ![s].left = {k \in clients : handler[k].next > handler[k].upto}]
  /\ UNCHANGED <<log, mutex, clients, closed, channel, handler, dropped, panics, ui, bounds>>

StartCast(s) ==
  /\ cast[s].pc = "start"
  /\ cast' = [cast EXCEPT ![s] = [pc |-> "send", frame |-> @.frame, left |-> clients]]
  /\ UNCHANGED <<log, mutex, clients, closed, channel, handler, dropped, panics, ui, bounds>>

(* Slip: one frame too many fits. *)
HasRoom_OffByOne(k) == Len(channel[k]) <= Capacity
HasRoom(k) == Len(channel[k]) < Capacity

(* Slip: the send waits for room. *)
Send_Blocking(s, k) ==
  /\ cast[s].pc = "send" /\ k \in cast[s].left /\ HasRoom(k)
  /\ cast' = [cast EXCEPT ![s].left = @ \ {k}]
  /\ panics' = panics \cup ({k} \cap closed)
  /\ channel' = [channel EXCEPT ![k] = Append(@, cast[s].frame)]
  /\ UNCHANGED <<log, mutex, clients, closed, handler, dropped, ui, bounds>>

(* select with a default: a full channel is skipped. *)
Send(s, k) ==
  /\ cast[s].pc = "send" /\ k \in cast[s].left
  /\ cast' = [cast EXCEPT ![s].left = @ \ {k}]
  /\ panics' = panics \cup ({k} \cap closed)
  /\ IF HasRoom(k)
       THEN channel' = [channel EXCEPT ![k] = Append(@, cast[s].frame)] /\ UNCHANGED dropped
       ELSE dropped' = [dropped EXCEPT ![k] = @ \cup {cast[s].frame}] /\ UNCHANGED channel
  /\ UNCHANGED <<log, mutex, clients, closed, handler, ui, bounds>>

(* The broadcast returns, and with it the append. *)
EndCast(s) ==
  /\ cast[s].pc = "send" /\ cast[s].left = {}
  /\ cast' = [cast EXCEPT ![s] = NoCast]
  /\ mutex' = IF mutex = s THEN Nobody ELSE mutex
  /\ UNCHANGED <<log, clients, closed, channel, handler, dropped, panics, ui, bounds>>
-----------------------------------------------------------------------------
(* A frame written to a connection reaches the UI unless it is broken; the    *)
(* handler does not look at the error.                                        *)
Emit(k, frame) ==
  /\ got' = IF now = k THEN [got EXCEPT ![k] = Append(@, frame)] ELSE got
  /\ UNCHANGED now

Subscribe(k) ==
  /\ handler[k].pc = "accepted" /\ Unread
  /\ clients' = clients \cup {k}
  /\ handler' = [handler EXCEPT ![k].pc = "subscribed"]
  /\ UNCHANGED <<log, mutex, cast, closed, channel, dropped, panics, ui, bounds>>

Snapshot(k) ==
  /\ handler[k].pc = "subscribed" /\ mutex = Nobody
  /\ handler' = [handler EXCEPT ![k] = [pc |-> "replay", next |-> 1, upto |-> log]]
  /\ UNCHANGED <<log, mutex, cast, clients, closed, channel, dropped, panics, ui, bounds>>

(* All() fails: the client is told that the chain is broken. *)
SnapshotFails(k) ==
  /\ handler[k].pc = "subscribed" /\ mutex = Nobody /\ faults < MaxFaults
  /\ faults' = faults + 1
  /\ handler' = [handler EXCEPT ![k].pc = "blind"]
  /\ Emit(k, Status)
  /\ UNCHANGED <<log, mutex, cast, clients, closed, channel, dropped, panics,
                 statuses, breaks>>

Replay(k) ==
  /\ handler[k].pc = "replay" /\ handler[k].next <= handler[k].upto
  /\ handler' = [handler EXCEPT ![k].next = @ + 1]
  /\ Emit(k, handler[k].next)
  /\ UNCHANGED <<log, mutex, cast, clients, closed, channel, dropped, panics, bounds>>

Live(k) ==
  \/ handler[k].pc = "blind"
  \/ handler[k].pc = "replay" /\ handler[k].next > handler[k].upto

Forward(k) ==
  /\ Live(k) /\ channel[k] # <<>>
  /\ channel' = [channel EXCEPT ![k] = Tail(@)]
  /\ Emit(k, Head(channel[k]))
  /\ UNCHANGED <<log, mutex, cast, clients, closed, handler, dropped, panics, bounds>>

(* The request's context is done; only the live loop looks at it. *)
Unsubscribe(k) ==
  /\ Live(k) /\ now # k /\ Unread
  /\ clients' = clients \ {k} /\ closed' = closed \cup {k}
  /\ handler' = [handler EXCEPT ![k].pc = "gone"]
  /\ UNCHANGED <<log, mutex, cast, channel, dropped, panics, ui, bounds>>
-----------------------------------------------------------------------------
(* Slip: the client gives up when its stream ends. *)
Connect_Once(k) ==
  /\ now = Nobody /\ handler[k].pc = "unused"
  /\ \A j \in Connections : handler[j].pc = "unused"
  /\ now' = k
  /\ handler' = [handler EXCEPT ![k].pc = "accepted"]
  /\ UNCHANGED <<log, mutex, cast, clients, closed, channel, dropped, panics,
                 got, bounds>>

(* RunLoopAsync: connect, read until the stream breaks, connect again. *)
Connect(k) ==
  /\ now = Nobody /\ handler[k].pc = "unused"
  /\ now' = k
  /\ handler' = [handler EXCEPT ![k].pc = "accepted"]
  /\ UNCHANGED <<log, mutex, cast, clients, closed, channel, dropped, panics,
                 got, bounds>>

Cut ==
  /\ now # Nobody /\ breaks < MaxBreaks
  /\ breaks' = breaks + 1 /\ now' = Nobody
  /\ UNCHANGED <<server, got, statuses, faults>>

(* The server dies and comes up: the log is on disk, the hub is new. *)
Restart ==
  /\ breaks < MaxBreaks
  /\ breaks' = breaks + 1
  /\ mutex' = Nobody /\ cast' = [s \in Senders |-> NoCast]
  /\ clients' = {} /\ now' = Nobody
  /\ handler' = [k \in Connections |->
                   IF handler[k].pc = "unused" THEN NoHandler ELSE [handler[k] EXCEPT !.pc = "gone"]]
  /\ UNCHANGED <<log, closed, channel, dropped, panics, got, statuses, faults>>

Sending(s) == StartCast(s) \/ EndCast(s) \/ \E k \in Connections : Send(s, k)

Serving(k) ==
  Subscribe(k) \/ Snapshot(k) \/ SnapshotFails(k) \/ Replay(k) \/ Forward(k) \/ Unsubscribe(k)

Reconnecting == \E k \in Connections : Connect(k)

Next ==
  \/ \E w \in Writers : Write(w)
  \/ Tamper
  \/ \E s \in Senders : Sending(s)
  \/ \E k \in Connections : Serving(k)
  \/ Reconnecting \/ Cut \/ Restart

Spec == Init /\ [][Next]_vars

(* A goroutine in a broadcast is scheduled; of clients nothing is assumed. *)
FairSpec == Spec /\ \A s \in Senders : WF_vars(Sending(s))
-----------------------------------------------------------------------------
(* Every variable has its type, and no channel holds more than its capacity. *)
TypeOK ==
  /\ log \in 0..MaxRows /\ mutex \in Writers \cup {Nobody}
  /\ cast \in [Senders -> [pc : {"idle", "start", "send"}, frame : Frames,
                           left : SUBSET Connections]]
  /\ clients \subseteq Connections /\ closed \subseteq Connections
  /\ channel \in [Connections -> Seq(Frames)]
  /\ \A k \in Connections : Len(channel[k]) <= Capacity
  /\ handler \in [Connections ->
       [pc : {"unused", "accepted", "subscribed", "replay", "blind", "gone"},
        next : 1..MaxRows + 1, upto : 0..MaxRows]]
  /\ now \in Connections \cup {Nobody}
  /\ got \in [Connections -> Seq(Frames)]
  /\ dropped \in [Connections -> SUBSET Frames]
  /\ panics \subseteq Connections
  /\ statuses \in Nat /\ breaks \in Nat /\ faults \in Nat

(* "A concurrent Unsubscribe cannot close a channel while we are mid-send":   *)
(* no broadcast sends on a closed channel, which would end the process.       *)
NoPanic == panics = {}

(* Where a row still is that the UI has not received on this connection. *)
Underway(k, r) ==
  \/ r \in handler[k].next..handler[k].upto
  \/ r \in Range(channel[k])
  \/ \E s \in Senders :
       cast[s].frame = r /\ (cast[s].pc = "start" \/ k \in cast[s].left)

(* Between the replay and the live rows none is lost, at whatever moment of   *)
(* an append the client subscribed and the log was read for it: it received   *)
(* every row, or it is underway, or its channel was full.                     *)
NoGap ==
  \A k \in Connections : (now = k /\ handler[k].pc = "replay") =>
    \A r \in 1..log : r \in Range(got[k]) \/ Underway(k, r) \/ r \in dropped[k]

(* What the UI receives on a connection is the log up to a row, and then rows *)
(* in the order of the log.  A row comes twice at most, once in each part.    *)
Replayed(s, n) == \A i \in 1..n : s[i] = i
Rising(s, n) ==
  \A i, j \in n + 1..Len(s) : i < j /\ s[i] # Status /\ s[j] # Status => s[i] < s[j]
ReplayThenLive ==
  \A k \in Connections :
    \E n \in 0..Len(got[k]) : Replayed(got[k], n) /\ Rising(got[k], n)

(* The hub never blocks on a slow consumer: an append and its broadcast end   *)
(* even if no client ever reads a frame.                                      *)
AppendsReturn == \A s \in Senders : cast[s].pc # "idle" ~> cast[s].pc = "idle"

(* If handlers are scheduled and the UI reads and reconnects, it receives     *)
(* every row of the log, over broken connections and restarts, but for those  *)
(* that found its channel full and those before a replay that failed.         *)
ClientFairness == WF_vars(Reconnecting) /\ \A k \in Connections : WF_vars(Serving(k))
Arrived(r) ==
  \E k \in Connections :
    \/ r \in Range(got[k])
    \/ now = k /\ (r \in dropped[k] \/ handler[k].pc = "blind")
RowsArrive == ClientFairness => \A r \in Rows : (log >= r) ~> Arrived(r)
=============================================================================
