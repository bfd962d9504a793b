-------------------------------- MODULE Hub --------------------------------
(***************************************************************************)
(* internal/realtime/hub.go: the room of one Meeting, the goroutines that  *)
(* commit its events and publish them (Service.append), and the WebSocket  *)
(* connections that Serve registers.                                       *)
(*                                                                         *)
(* An event is its sequence number.  A publisher commits a batch, reads it *)
(* back from the database and hands it to the Hub one event at a time; the *)
(* Hub mutex is held for one event only.  Serve holds it over its database *)
(* read.  A runner_delta has no sequence: it is the message Delta.  Frames *)
(* in the socket are not kept apart from those the peer has read, because  *)
(* a frame lost with the socket is one that stayed in the queue.           *)
(***************************************************************************)
EXTENDS Naturals, Sequences, FiniteSets

CONSTANTS Publishers,   \* goroutines inside Service.append
          Conns,        \* WebSocket connections, a slot is used again
          None,         \* the Hub mutex is free
          QueueSize,    \* queueSize
          MaxEvents,    \* bound: events ever committed
          Cancels,      \* the context of an append may be cancelled
          Afters        \* the after_sequence values peers ask for

ASSUME HubAssumption ==
    /\ None \notin Conns
    /\ QueueSize \in Nat \ {0}
    /\ MaxEvents \in Nat
    /\ Cancels \in BOOLEAN
    /\ Afters \subseteq Nat

VARIABLES
    log,        \* events committed so far are 1..log
    stage,      \* where each publisher is in Service.append
    next,       \* the first event of its batch it has not published
    last,       \* the last event of its batch
    unsent,    \* committed events whose append was cancelled before it read them
    hub,        \* the connection whose Serve holds Hub.mu, or None
    room,       \* Hub.rooms of the Meeting
    phase,      \* where Serve and readPump of each connection are
    after,      \* after_sequence
    queue,      \* client.send
    capacity,   \* cap(client.send)
    seen,       \* events the peer has read
    open,       \* the socket works
    pumping,    \* writePump runs
    closes      \* times client.send was closed

writers == <<log, stage, next, last, unsent>>
conns   == <<phase, after, queue, capacity, seen, open, pumping,
             closes>>
vars    == <<writers, hub, room, conns>>

Delta  == 0
Events == 1..log

Items(s) == {s[i] : i \in DOMAIN s}

Init ==
    /\ log \in 0..MaxEvents
    /\ stage = [p \in Publishers |-> "idle"]
    /\ next = [p \in Publishers |-> 1]
    /\ last = [p \in Publishers |-> 0]
    /\ unsent = {}
    /\ hub = None
    /\ room = {}
    /\ phase = [k \in Conns |-> "idle"]
    /\ after = [k \in Conns |-> 0]
    /\ queue = [k \in Conns |-> <<>>]
    /\ capacity = [k \in Conns |-> 0]
    /\ seen = [k \in Conns |-> {}]
    /\ open = [k \in Conns |-> FALSE]
    /\ pumping = [k \in Conns |-> FALSE]
    /\ closes = [k \in Conns |-> 0]

-----------------------------------------------------------------------------
(* Service.append by the publisher p.                                      *)

\* The transaction of Store.Append: n events at the next sequences.
Commit(p) ==
    /\ stage[p] = "idle"
    /\ \E n \in 1..2 :
         /\ log + n <= MaxEvents
         /\ log' = log + n
         /\ next' = [next EXCEPT ![p] = log + 1]
         /\ last' = [last EXCEPT ![p] = log + n]
    /\ stage' = [stage EXCEPT ![p] = "committed"]
    /\ UNCHANGED <<unsent, hub, room, conns>>

\* MeetingEventsAfter(expected), cut at the last event of the batch.
ReadBatch(p) ==
    /\ stage[p] = "committed"
    /\ stage' = [stage EXCEPT ![p] = "publishing"]
    /\ UNCHANGED <<log, next, last, unsent, hub, room, conns>>

\* The context was cancelled after the commit: append returns the error,
\* and nobody publishes the batch any more.
ReadBatchFails(p) ==
    /\ Cancels
    /\ stage[p] = "committed"
    /\ stage' = [stage EXCEPT ![p] = "idle"]
    /\ unsent' = unsent \cup (next[p]..last[p])
    /\ UNCHANGED <<log, next, last, hub, room, conns>>

-----------------------------------------------------------------------------
(* The Hub, every operator below under Hub.mu.                             *)

\* Mutant: the channel is closed without looking the client up.
DropTwice(gone) ==
    /\ room' = room \ gone
    /\ closes' = [k \in Conns |-> closes[k] + IF k \in gone THEN 1 ELSE 0]
    /\ open' = [k \in Conns |-> open[k] /\ k \notin gone]

\* dropLocked: only a client that is still in the room is closed.
DropLocked(gone) ==
    /\ room' = room \ gone
    /\ closes' = [k \in Conns |->
                    closes[k] + IF k \in gone \cap room THEN 1 ELSE 0]
    /\ open' = [k \in Conns |-> open[k] /\ k \notin gone \cap room]

Full == {k \in room : Len(queue[k]) >= capacity[k]}

\* Mutant: publish waits for room in every queue.
BroadcastWaits(message) ==
    /\ hub = None
    /\ Full = {}
    /\ queue' = [k \in Conns |-> IF k \in room
                                 THEN Append(queue[k], message)
                                 ELSE queue[k]]
    /\ UNCHANGED <<hub, room, phase, after, capacity, seen, open, pumping,
                   closes>>

\* Mutant: publish does not take the mutex.
BroadcastUnlocked(message) ==
    /\ queue' = [k \in Conns |-> IF k \in room \ Full
                                 THEN Append(queue[k], message)
                                 ELSE queue[k]]
    /\ DropLocked(Full)
    /\ UNCHANGED <<hub, phase, after, capacity, seen, pumping>>

\* publish: a client whose queue is full is dropped, the others receive.
Broadcast(message) ==
    /\ hub = None
    /\ queue' = [k \in Conns |-> IF k \in room \ Full
                                 THEN Append(queue[k], message)
                                 ELSE queue[k]]
    /\ DropLocked(Full)
    /\ UNCHANGED <<hub, phase, after, capacity, seen, pumping>>

\* PublishEvent of the next event of the batch.
PublishEvent(p) ==
    /\ stage[p] = "publishing"
    /\ Broadcast(next[p])
    /\ next' = [next EXCEPT ![p] = @ + 1]
    /\ stage' = [stage EXCEPT ![p] = IF next[p] = last[p]
                                     THEN "idle" ELSE "publishing"]
    /\ UNCHANGED <<log, last, unsent>>

\* PublishDelta, from the Run of a Provider.
PublishDelta ==
    /\ room # {}
    /\ Broadcast(Delta)
    /\ UNCHANGED writers

-----------------------------------------------------------------------------
(* Serve, and the two pumps of the connection k.                           *)

\* Mutant: the backlog starts one event too early.
UpgradeEarly(k, a) ==
    /\ phase[k] = "idle"
    /\ phase' = [phase EXCEPT ![k] = "upgraded"]
    /\ after' = [after EXCEPT ![k] = a - 1]
    /\ open' = [open EXCEPT ![k] = TRUE]
    /\ closes' = [closes EXCEPT ![k] = 0]
    /\ UNCHANGED <<writers, hub, room, queue, capacity, seen, pumping>>

\* The upgrade of a request with after_sequence = a.
Upgrade(k, a) ==
    /\ phase[k] = "idle"
    /\ phase' = [phase EXCEPT ![k] = "upgraded"]
    /\ after' = [after EXCEPT ![k] = a]
    /\ open' = [open EXCEPT ![k] = TRUE]
    /\ closes' = [closes EXCEPT ![k] = 0]
    /\ UNCHANGED <<writers, hub, room, queue, capacity, seen, pumping>>

\* EventsAfter(after_sequence)
Backlog(k) ==
    [i \in 1..(IF log > after[k] THEN log - after[k] ELSE 0) |-> after[k] + i]

\* make(chan []byte, len(backlog)+queueSize)
ChannelSize(backlog) == Len(backlog) + QueueSize

\* The mutex is taken, the backlog read and sent to a channel nobody drains.
ServeReads(k) ==
    /\ phase[k] = "upgraded"
    /\ hub = None
    /\ hub' = k
    /\ capacity' = [capacity EXCEPT ![k] = ChannelSize(Backlog(k))]
    /\ queue' = [queue EXCEPT ![k] = Backlog(k)]
    /\ phase' = [phase EXCEPT ![k] = "reading"]
    /\ UNCHANGED <<writers, room, after, seen, open, pumping, closes>>

\* The read failed: the mutex is given back, the connection closed.
ServeFails(k) ==
    /\ phase[k] = "upgraded"
    /\ hub = None
    /\ phase' = [phase EXCEPT ![k] = "idle"]
    /\ open' = [open EXCEPT ![k] = FALSE]
    /\ UNCHANGED <<writers, hub, room, after, queue, capacity, seen,
                   pumping, closes>>

\* The sends of the backlog fit the channel; the client enters the room.
ServeRegisters(k) ==
    /\ phase[k] = "reading"
    /\ Len(queue[k]) <= capacity[k]
    /\ hub' = None
    /\ room' = room \cup {k}
    /\ phase' = [phase EXCEPT ![k] = "served"]
    /\ pumping' = [pumping EXCEPT ![k] = TRUE]
    /\ UNCHANGED <<writers, after, queue, capacity, seen, open, closes>>

\* writePump hands the peer the oldest message.
WritePump(k) ==
    /\ pumping[k] /\ open[k]
    /\ queue[k] # <<>>
    /\ queue' = [queue EXCEPT ![k] = Tail(@)]
    /\ seen' = [seen EXCEPT ![k] = @ \cup ({Head(queue[k])} \ {Delta})]
    /\ UNCHANGED <<writers, hub, room, phase, after, capacity, open, pumping,
                   closes>>

\* A write fails, on a dead socket or after writeWait: the message is lost
\* and writePump ends, pings included.  The client stays in its room.
WritePumpEnds(k) ==
    /\ pumping[k]
    /\ queue[k] # <<>>
    /\ queue' = [queue EXCEPT ![k] = Tail(@)]
    /\ pumping' = [pumping EXCEPT ![k] = FALSE]
    /\ UNCHANGED <<writers, hub, room, phase, after, capacity, seen, open,
                   closes>>

\* The network or the peer closes the socket, or no pong arrives in time.
Break(k) ==
    /\ phase[k] # "idle"
    /\ open[k]
    /\ open' = [open EXCEPT ![k] = FALSE]
    /\ UNCHANGED <<writers, hub, room, phase, after, queue, capacity, seen,
                   pumping, closes>>

\* readPump fails, on the closed socket or because no ping is answered any
\* more, and drops the client; nothing of the connection is kept.
ReadPumpEnds(k) ==
    /\ phase[k] = "served"
    /\ ~open[k] \/ ~pumping[k]
    /\ hub = None
    /\ DropLocked({k})
    /\ phase' = [phase EXCEPT ![k] = "idle"]
    /\ queue' = [queue EXCEPT ![k] = <<>>]
    /\ capacity' = [capacity EXCEPT ![k] = 0]
    /\ seen' = [seen EXCEPT ![k] = {}]
    /\ pumping' = [pumping EXCEPT ![k] = FALSE]
    /\ UNCHANGED <<writers, hub, after>>

-----------------------------------------------------------------------------
Write == \E p \in Publishers :
    Commit(p) \/ ReadBatch(p) \/ ReadBatchFails(p) \/ PublishEvent(p)

Serve(k) == ServeReads(k) \/ ServeFails(k) \/ ServeRegisters(k)

Next ==
    \/ Write
    \/ PublishDelta
    \/ \E k \in Conns :
         \/ \E a \in Afters : Upgrade(k, a)
         \/ Serve(k) \/ WritePump(k) \/ WritePumpEnds(k)
         \/ Break(k) \/ ReadPumpEnds(k)

(* A goroutine that can go on does, and sync.Mutex hands the lock to a     *)
(* goroutine that waits too long.  No peer has to read, commit or connect. *)
Fairness ==
    /\ \A p \in Publishers :
         /\ WF_vars(ReadBatch(p))
         /\ SF_vars(PublishEvent(p))
    /\ \A k \in Conns :
         /\ SF_vars(ServeReads(k))
         /\ WF_vars(ServeRegisters(k))
         /\ SF_vars(ReadPumpEnds(k))

SafeSpec == Init /\ [][Next]_vars
Spec == SafeSpec /\ Fairness

-----------------------------------------------------------------------------
TypeOK ==
    /\ log \in Nat
    /\ stage \in [Publishers -> {"idle", "committed", "publishing"}]
    /\ next \in [Publishers -> Nat]
    /\ last \in [Publishers -> Nat]
    /\ unsent \subseteq Nat
    /\ hub \in Conns \cup {None}
    /\ room \subseteq Conns
    /\ phase \in [Conns -> {"idle", "upgraded", "reading", "served"}]
    /\ after \in [Conns -> Nat]
    /\ queue \in [Conns -> Seq(Nat)]
    /\ capacity \in [Conns -> Nat]
    /\ seen \in [Conns -> SUBSET Nat]
    /\ open \in [Conns -> BOOLEAN]
    /\ pumping \in [Conns -> BOOLEAN]
    /\ closes \in [Conns -> Nat]

(* The events a publisher has committed and not published yet.             *)
Unpublished == UNION {next[p]..last[p] :
                        p \in {q \in Publishers : stage[q] # "idle"}}

(* hub.go:101-103: "a commit can appear either in the backlog or live      *)
(* queue, never in the gap between them."  Every event later than its      *)
(* after_sequence has reached the peer of a registered client, waits in    *)
(* its channel, or is still to be published, until writePump gives it up.  *)
(* The one way out is an append cancelled after its commit (service.go:    *)
(* 1656): only the events of that batch are missed, and no other.          *)
NeverInTheGap ==
    \A k \in room : pumping[k] =>
        \A e \in Events \ unsent :
            e > after[k] => e \in seen[k] \cup Items(queue[k]) \cup Unpublished


(* No message is sent on a closed channel and no channel is closed twice:  *)
(* either would panic in the goroutine of whoever publishes.               *)
ChannelClosedOnce ==
    /\ \A k \in room : closes[k] = 0
    /\ \A k \in Conns : closes[k] <= 1

(* What a peer holds is complete up to the last event it has read, so that *)
(* it can come back with that sequence as its after_sequence.              *)
(* docs/design/milestone-1a-meeting-backend.md:197 promises it: "WebSocket *)
(* sequence 可补发" (events can be sent again from a sequence).             *)
ResumableSequence ==
    \A k \in Conns : \A e \in seen[k] :
        \A d \in Events : after[k] < d /\ d < e => d \in seen[k]

(* A slow peer never blocks a write: whoever has committed returns, and a  *)
(* connection being served does not keep the mutex.                        *)
NobodyWaits ==
    /\ \A p \in Publishers : stage[p] # "idle" ~> stage[p] = "idle"
    /\ \A k \in Conns : phase[k] = "upgraded" ~> phase[k] \in {"served", "idle"}
=============================================================================
