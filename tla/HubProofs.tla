----------------------------- MODULE HubProofs -----------------------------
(***************************************************************************)
(* Proofs about Hub.tla for any number of publishers and connections, any  *)
(* queue size and any number of events: type correctness, channels closed  *)
(* at most once and never used afterwards, and no event lost between the   *)
(* backlog and the live queue but those of an append that was cancelled    *)
(* after its commit.                                                       *)
(***************************************************************************)
EXTENDS Hub, TLAPS

-----------------------------------------------------------------------------
(* Facts about the send channel.                                           *)

(* receiver.send <- data                                                   *)
LEMMA SendFacts ==
    ASSUME NEW s \in Seq(Nat), NEW x \in Nat
    PROVE  /\ Append(s, x) \in Seq(Nat)
           /\ Items(Append(s, x)) = Items(s) \cup {x}
<1>1. Append(s, x) \in Seq(Nat)
  OBVIOUS
<1>2. DOMAIN s = 1..Len(s) /\ Len(s) \in Nat
  OBVIOUS
<1>3. DOMAIN Append(s, x) = 1..(Len(s) + 1)
  OBVIOUS
<1>4. \A i \in 1..Len(s) : Append(s, x)[i] = s[i]
  OBVIOUS
<1>5. Append(s, x)[Len(s) + 1] = x
  OBVIOUS
<1>6. Items(Append(s, x)) \subseteq Items(s) \cup {x}
  BY <1>2, <1>3, <1>4, <1>5 DEF Items
<1>7. \A i \in 1..Len(s) : i \in 1..(Len(s) + 1)
  BY <1>2
<1>8. Items(s) \subseteq Items(Append(s, x))
  BY <1>2, <1>3, <1>4, <1>7 DEF Items
<1>9. Len(s) + 1 \in 1..(Len(s) + 1)
  BY <1>2
<1>10. x \in Items(Append(s, x))
  BY <1>3, <1>5, <1>9 DEF Items
<1> QED
  BY <1>1, <1>6, <1>8, <1>10

(* data := <-receiver.send                                                 *)
LEMMA ReceiveFacts ==
    ASSUME NEW s \in Seq(Nat), s # <<>>
    PROVE  /\ Tail(s) \in Seq(Nat)
           /\ Head(s) \in Nat
           /\ Items(s) \subseteq {Head(s)} \cup Items(Tail(s))
<1>1. Tail(s) \in Seq(Nat) /\ Head(s) \in Nat
  OBVIOUS
<1>2. DOMAIN s = 1..Len(s) /\ Len(s) \in Nat /\ DOMAIN Tail(s) = 1..(Len(s) - 1)
  OBVIOUS
<1>3. s[1] = Head(s)
  OBVIOUS
<1>4. \A i \in 1..(Len(s) - 1) : Tail(s)[i] = s[i + 1]
  OBVIOUS
<1>5. SUFFICES ASSUME NEW i \in 1..Len(s), i # 1
               PROVE  s[i] \in Items(Tail(s))
  BY <1>1, <1>2, <1>3 DEF Items
<1>6. i - 1 \in 1..(Len(s) - 1) /\ (i - 1) + 1 = i
  BY <1>2, <1>5
<1>7. Tail(s)[i - 1] = s[i]
  BY <1>4, <1>6
<1> QED
  BY <1>2, <1>6, <1>7 DEF Items

(* EventsAfter returns every event later than after_sequence.              *)
LEMMA BacklogFacts ==
    ASSUME NEW k \in Conns, log \in Nat, after[k] \in Nat
    PROVE  /\ Backlog(k) \in Seq(Nat)
           /\ \A e \in Events : e > after[k] => e \in Items(Backlog(k))
<1> DEFINE n == IF log > after[k] THEN log - after[k] ELSE 0
<1>1. n \in Nat
  OBVIOUS
<1>2. Backlog(k) = [i \in 1..n |-> after[k] + i]
  BY DEF Backlog
<1>3. \A i \in 1..n : after[k] + i \in Nat
  BY <1>1
<1>4. Backlog(k) \in Seq(Nat)
  BY <1>1, <1>2, <1>3
<1>5. ASSUME NEW e \in Events, e > after[k]
      PROVE  e \in Items(Backlog(k))
  <2>1. e - after[k] \in 1..n /\ after[k] + (e - after[k]) = e
    BY <1>5 DEF Events
  <2>2. DOMAIN Backlog(k) = 1..n /\ Backlog(k)[e - after[k]] = e
    BY <1>2, <2>1
  <2> QED
    BY <2>1, <2>2 DEF Items
<1> QED
  BY <1>4, <1>5

-----------------------------------------------------------------------------
(* Who holds the mutex and which channels are open.                        *)

Mutex == \A k \in Conns : phase[k] = "reading" <=> hub = k

Registered ==
    /\ \A k \in room : phase[k] = "served" /\ closes[k] = 0
    /\ \A k \in Conns :
         /\ phase[k] \in {"upgraded", "reading"} => closes[k] = 0
         /\ closes[k] <= 1
         /\ pumping[k] => phase[k] = "served"

IInv == TypeOK /\ Mutex /\ Registered

(* No channel is closed by a step of a publisher that changes no client.   *)
LEMMA WriterKeeps ==
    ASSUME IInv, UNCHANGED <<hub, room, conns>>,
           log' \in Nat, next' \in [Publishers -> Nat], last' \in [Publishers -> Nat],
           stage' \in [Publishers -> {"idle", "committed", "publishing"}],
           unsent' \subseteq Nat
    PROVE  IInv'
  BY DEF IInv, TypeOK, Mutex, Registered, conns

(* dropLocked keeps the room and the channels in step.                     *)
LEMMA DropFacts ==
    ASSUME IInv, NEW gone \in SUBSET Conns, DropLocked(gone)
    PROVE  /\ room' = room \ gone
           /\ closes' \in [Conns -> Nat]
           /\ open' \in [Conns -> BOOLEAN]
           /\ \A k \in Conns : closes'[k] <= 1
           /\ \A k \in Conns \ (gone \cap room) : closes'[k] = closes[k]
<1> USE DEF IInv, TypeOK, Registered, DropLocked
<1>1. \A k \in Conns : closes'[k] = closes[k] + IF k \in gone \cap room THEN 1 ELSE 0
  OBVIOUS
<1>2. \A k \in Conns : closes[k] \in Nat /\ closes[k] <= 1
  OBVIOUS
<1>3. \A k \in gone \cap room : closes[k] = 0
  OBVIOUS
<1>4. closes' \in [Conns -> Nat]
  BY <1>2
<1>5. open' \in [Conns -> BOOLEAN]
  OBVIOUS
<1>6. \A k \in Conns : closes'[k] <= 1
  BY <1>1, <1>2, <1>3
<1> QED
  BY <1>1, <1>2, <1>4, <1>5, <1>6

(* One message of publish.                                                 *)
LEMMA BroadcastKeeps ==
    ASSUME IInv, NEW message \in Nat, Broadcast(message),
           log' \in Nat, next' \in [Publishers -> Nat], last' \in [Publishers -> Nat],
           stage' \in [Publishers -> {"idle", "committed", "publishing"}],
           unsent' \subseteq Nat
    PROVE  IInv'
<1> USE DEF IInv
<1>1. Full \subseteq Conns /\ Full \subseteq room
  BY DEF TypeOK, Full
<1>2. DropLocked(Full)
  BY DEF Broadcast
<1>3. /\ room' = room \ Full
      /\ closes' \in [Conns -> Nat]
      /\ open' \in [Conns -> BOOLEAN]
      /\ \A k \in Conns : closes'[k] <= 1
      /\ \A k \in Conns \ (Full \cap room) : closes'[k] = closes[k]
  BY <1>1, <1>2, DropFacts
<1>4. queue' \in [Conns -> Seq(Nat)]
  <2>1. \A k \in Conns : queue[k] \in Seq(Nat) /\ Append(queue[k], message) \in Seq(Nat)
    BY SendFacts DEF TypeOK
  <2> QED
    BY <2>1 DEF Broadcast
<1>5. TypeOK'
  BY <1>3, <1>4 DEF TypeOK, Broadcast
<1>6. Mutex'
  BY DEF Mutex, Broadcast
<1>7. Registered'
  <2>1. \A k \in room' : phase'[k] = "served" /\ closes'[k] = 0
    BY <1>1, <1>3 DEF Registered, Broadcast, TypeOK
  <2>2. \A k \in Conns : phase'[k] \in {"upgraded", "reading"} => closes'[k] = 0
    BY <1>1, <1>3 DEF Registered, Broadcast, TypeOK
  <2>3. \A k \in Conns : pumping'[k] => phase'[k] = "served"
    BY DEF Registered, Broadcast
  <2> QED
    BY <1>3, <2>1, <2>2, <2>3 DEF Registered
<1> QED
  BY <1>5, <1>6, <1>7

(* The mutex is held by one Serve at a time, a client in the room has an   *)
(* open channel, and no channel is closed twice, whatever the interleaving.*)
LEMMA Inductive == SafeSpec => []IInv
<1>1. Init => IInv
  BY HubAssumption DEF Init, IInv, TypeOK, Mutex, Registered
<1>2. IInv /\ [Next]_vars => IInv'
  <2> SUFFICES ASSUME IInv, [Next]_vars
               PROVE  IInv'
    OBVIOUS
  <2> USE HubAssumption
  <2>1. ASSUME NEW p \in Publishers, Commit(p)
        PROVE  IInv'
    <3>1. PICK n \in 1..2 : /\ log' = log + n
                            /\ next' = [next EXCEPT ![p] = log + 1]
                            /\ last' = [last EXCEPT ![p] = log + n]
      BY <2>1 DEF Commit
    <3>2. /\ log' \in Nat
          /\ next' \in [Publishers -> Nat]
          /\ last' \in [Publishers -> Nat]
      BY <3>1 DEF IInv, TypeOK
    <3>3. /\ stage' \in [Publishers -> {"idle", "committed", "publishing"}]
          /\ unsent' \subseteq Nat
          /\ UNCHANGED <<hub, room, conns>>
      BY <2>1 DEF Commit, IInv, TypeOK
    <3> QED
      BY <3>2, <3>3, WriterKeeps
  <2>2. ASSUME NEW p \in Publishers, ReadBatch(p) \/ ReadBatchFails(p)
        PROVE  IInv'
    <3>1. /\ log' \in Nat
          /\ next' \in [Publishers -> Nat]
          /\ last' \in [Publishers -> Nat]
          /\ stage' \in [Publishers -> {"idle", "committed", "publishing"}]
          /\ UNCHANGED <<hub, room, conns>>
      BY <2>2 DEF ReadBatch, ReadBatchFails, IInv, TypeOK
    <3>2. next[p]..last[p] \subseteq Nat
      BY DEF IInv, TypeOK
    <3>3. unsent' \subseteq Nat
      BY <2>2, <3>2 DEF ReadBatch, ReadBatchFails, IInv, TypeOK
    <3> QED
      BY <3>1, <3>3, WriterKeeps
  <2>3. ASSUME NEW p \in Publishers, PublishEvent(p)
        PROVE  IInv'
    <3>1. /\ next[p] \in Nat
          /\ Broadcast(next[p])
      BY <2>3 DEF PublishEvent, IInv, TypeOK
    <3>2. /\ log' \in Nat
          /\ next' \in [Publishers -> Nat]
          /\ last' \in [Publishers -> Nat]
          /\ stage' \in [Publishers -> {"idle", "committed", "publishing"}]
          /\ unsent' \subseteq Nat
      BY <2>3 DEF PublishEvent, IInv, TypeOK
    <3> QED
      BY <3>1, <3>2, BroadcastKeeps
  <2>4. CASE PublishDelta
    <3>1. /\ Delta \in Nat
          /\ Broadcast(Delta)
      BY <2>4 DEF PublishDelta, Delta
    <3>2. /\ log' \in Nat
          /\ next' \in [Publishers -> Nat]
          /\ last' \in [Publishers -> Nat]
          /\ stage' \in [Publishers -> {"idle", "committed", "publishing"}]
          /\ unsent' \subseteq Nat
      BY <2>4 DEF PublishDelta, writers, IInv, TypeOK
    <3> QED
      BY <3>1, <3>2, BroadcastKeeps
  <2>5. ASSUME NEW k \in Conns, NEW a \in Afters, Upgrade(k, a)
        PROVE  IInv'
    <3>1. k \notin room /\ hub # k /\ a \in Nat
      BY <2>5 DEF Upgrade, IInv, Mutex, Registered
    <3>2. TypeOK'
      BY <2>5, <3>1 DEF Upgrade, writers, IInv, TypeOK
    <3>3. Mutex'
      BY <2>5, <3>1 DEF Upgrade, writers, IInv, TypeOK, Mutex
    <3>4. Registered'
      BY <2>5, <3>1 DEF Upgrade, writers, IInv, TypeOK, Registered
    <3> QED
      BY <3>2, <3>3, <3>4 DEF IInv
  <2>6. ASSUME NEW k \in Conns, ServeReads(k)
        PROVE  IInv'
    <3>1. k \notin room
      BY <2>6 DEF ServeReads, IInv, Registered
    <3>2. Backlog(k) \in Seq(Nat) /\ ChannelSize(Backlog(k)) \in Nat
      <4>1. Backlog(k) \in Seq(Nat)
        BY BacklogFacts DEF IInv, TypeOK
      <4>2. Len(Backlog(k)) \in Nat
        BY <4>1
      <4> QED
        BY <4>1, <4>2 DEF ChannelSize
    <3>3. TypeOK'
      BY <2>6, <3>2 DEF ServeReads, writers, IInv, TypeOK
    <3>4. Mutex'
      BY <2>6 DEF ServeReads, writers, IInv, TypeOK, Mutex
    <3>5. Registered'
      BY <2>6, <3>1 DEF ServeReads, writers, IInv, TypeOK, Registered
    <3> QED
      BY <3>3, <3>4, <3>5 DEF IInv
  <2>7. ASSUME NEW k \in Conns, ServeFails(k)
        PROVE  IInv'
    <3>1. k \notin room
      BY <2>7 DEF ServeFails, IInv, Registered
    <3>2. TypeOK'
      BY <2>7 DEF ServeFails, writers, IInv, TypeOK
    <3>3. Mutex'
      BY <2>7 DEF ServeFails, writers, IInv, TypeOK, Mutex
    <3>4. Registered'
      BY <2>7, <3>1 DEF ServeFails, writers, IInv, TypeOK, Registered
    <3> QED
      BY <3>2, <3>3, <3>4 DEF IInv
  <2>8. ASSUME NEW k \in Conns, ServeRegisters(k)
        PROVE  IInv'
    <3>1. TypeOK'
      BY <2>8 DEF ServeRegisters, writers, IInv, TypeOK
    <3>2. Mutex'
      BY <2>8 DEF ServeRegisters, writers, IInv, TypeOK, Mutex
    <3>3. Registered'
      BY <2>8 DEF ServeRegisters, writers, IInv, TypeOK, Registered
    <3> QED
      BY <3>1, <3>2, <3>3 DEF IInv
  <2>9. ASSUME NEW k \in Conns, WritePump(k)
        PROVE  IInv'
    <3>1. Tail(queue[k]) \in Seq(Nat) /\ Head(queue[k]) \in Nat
      BY <2>9, ReceiveFacts DEF WritePump, IInv, TypeOK
    <3>2. TypeOK'
      BY <2>9, <3>1 DEF WritePump, writers, IInv, TypeOK
    <3>3. Mutex' /\ Registered'
      BY <2>9 DEF WritePump, writers, IInv, Mutex, Registered
    <3> QED
      BY <3>2, <3>3 DEF IInv
  <2>10. ASSUME NEW k \in Conns, WritePumpEnds(k)
         PROVE  IInv'
    <3>1. Tail(queue[k]) \in Seq(Nat)
      BY <2>10, ReceiveFacts DEF WritePumpEnds, IInv, TypeOK
    <3>2. TypeOK'
      BY <2>10, <3>1 DEF WritePumpEnds, writers, IInv, TypeOK
    <3>3. Mutex' /\ Registered'
      BY <2>10 DEF WritePumpEnds, writers, IInv, TypeOK, Mutex, Registered
    <3> QED
      BY <3>2, <3>3 DEF IInv
  <2>11. ASSUME NEW k \in Conns, Break(k)
         PROVE  IInv'
    BY <2>11 DEF Break, writers, IInv, TypeOK, Mutex, Registered
  <2>12. ASSUME NEW k \in Conns, ReadPumpEnds(k)
         PROVE  IInv'
    <3>1. /\ room' = room \ {k}
          /\ closes' \in [Conns -> Nat]
          /\ open' \in [Conns -> BOOLEAN]
          /\ \A j \in Conns : closes'[j] <= 1
          /\ \A j \in Conns \ ({k} \cap room) : closes'[j] = closes[j]
      BY <2>12, DropFacts DEF ReadPumpEnds
    <3>2. TypeOK'
      <4>1. /\ queue' \in [Conns -> Seq(Nat)]
            /\ seen' \in [Conns -> SUBSET Nat]
        <5>1. <<>> \in Seq(Nat) /\ {} \in SUBSET Nat
          OBVIOUS
        <5> QED
          BY <2>12, <5>1 DEF ReadPumpEnds, IInv, TypeOK
      <4>2. /\ log' \in Nat
            /\ stage' \in [Publishers -> {"idle", "committed", "publishing"}]
            /\ next' \in [Publishers -> Nat]
            /\ last' \in [Publishers -> Nat]
            /\ hub' \in Conns \cup {None}
            /\ after' \in [Conns -> Nat]
        BY <2>12 DEF ReadPumpEnds, writers, IInv, TypeOK
      <4>3. /\ phase' \in [Conns -> {"idle", "upgraded", "reading", "served"}]
            /\ capacity' \in [Conns -> Nat]
            /\ pumping' \in [Conns -> BOOLEAN]
            /\ room' \subseteq Conns
        BY <2>12, <3>1 DEF ReadPumpEnds, IInv, TypeOK
      <4>4. unsent' \subseteq Nat
        BY <2>12 DEF ReadPumpEnds, writers, IInv, TypeOK
      <4> QED
        BY <3>1, <4>1, <4>2, <4>3, <4>4 DEF TypeOK
    <3>3. Mutex'
      BY <2>12 DEF ReadPumpEnds, writers, IInv, TypeOK, Mutex
    <3>4. Registered'
      BY <2>12, <3>1 DEF ReadPumpEnds, writers, IInv, TypeOK, Registered
    <3> QED
      BY <3>2, <3>3, <3>4 DEF IInv
  <2>13. CASE UNCHANGED vars
    BY <2>13 DEF vars, writers, conns, IInv, TypeOK, Mutex, Registered
  <2> QED
    BY <2>1, <2>2, <2>3, <2>4, <2>5, <2>6, <2>7, <2>8, <2>9, <2>10, <2>11,
       <2>12, <2>13 DEF Next, Write, Serve
<1> QED
  BY <1>1, <1>2, PTL DEF SafeSpec

(* Every value the Hub keeps has its type.                                 *)
THEOREM TypeCorrect == SafeSpec => []TypeOK
  BY Inductive, PTL DEF IInv

(* A message is never sent on a closed channel, and no channel is closed   *)
(* twice, although publish and readPump may both drop a client.            *)
THEOREM ClosedOnceCorrect == SafeSpec => []ChannelClosedOnce
<1>1. IInv => ChannelClosedOnce
  BY DEF IInv, Registered, ChannelClosedOnce
<1> QED
  BY <1>1, Inductive, PTL

-----------------------------------------------------------------------------
(* Nothing falls between the backlog and the live queue.                   *)

Covered(k, e) == e \in seen[k] \cup Items(queue[k]) \cup Unpublished \cup unsent

\* While Serve holds the mutex the gap is closed as well.
NoGap ==
    \A k \in Conns :
        phase[k] = "reading" \/ (k \in room /\ pumping[k]) =>
            \A e \in Events : e > after[k] => Covered(k, e)

(* A step of a connection leaves the batches of the publishers alone.      *)
LEMMA BatchesKept ==
    ASSUME UNCHANGED writers
    PROVE  Unpublished' = Unpublished /\ Events' = Events /\ unsent' = unsent
  BY DEF Unpublished, Events, writers

(* What covers an event of k covers it after a step that leaves k alone.   *)
LEMMA OtherConnection ==
    ASSUME NoGap, UNCHANGED writers, NEW j \in Conns,
           phase'[j] = phase[j], pumping'[j] = pumping[j],
           j \in room' => j \in room,
           after'[j] = after[j], queue'[j] = queue[j], seen'[j] = seen[j],
           phase'[j] = "reading" \/ (j \in room' /\ pumping'[j])
    PROVE  \A e \in Events' : e > after'[j] => Covered(j, e)'
  BY BatchesKept DEF NoGap, Covered, Items

(* A message of publish reaches every client that stays in the room, so    *)
(* an event may leave the batch of its publisher.                          *)
LEMMA BroadcastCovers ==
    ASSUME IInv, NoGap, NEW message \in Nat, Broadcast(message),
           log' = log, unsent' = unsent,
           Unpublished \subseteq Unpublished' \cup {message}
    PROVE  NoGap'
<1> SUFFICES ASSUME NEW k \in Conns,
                    phase'[k] = "reading" \/ (k \in room' /\ pumping'[k]),
                    NEW e \in Events', e > after'[k]
             PROVE  Covered(k, e)'
  BY DEF NoGap
<1>1. phase'[k] # "reading"
  BY HubAssumption DEF Broadcast, IInv, Mutex
<1>2. k \in room \ Full /\ pumping[k]
  BY <1>1 DEF Broadcast, DropLocked
<1>3. Covered(k, e)
  BY <1>2 DEF Broadcast, NoGap, Events
<1>4. Items(queue'[k]) = Items(queue[k]) \cup {message}
  <2>1. queue'[k] = Append(queue[k], message)
    BY <1>2 DEF Broadcast
  <2>2. queue[k] \in Seq(Nat)
    BY DEF IInv, TypeOK
  <2> QED
    BY <2>1, <2>2, SendFacts
<1>5. seen'[k] = seen[k]
  BY DEF Broadcast
<1> QED
  BY <1>3, <1>4, <1>5 DEF Covered

(* hub.go:101-103: an event leaves the batches only into the queues, or    *)
(* with an append that is cancelled before it reads its batch.             *)
LEMMA GapStep ==
    ASSUME IInv, NoGap, [Next]_vars
    PROVE  NoGap'
<1> USE HubAssumption
<1>1. ASSUME NEW p \in Publishers, Commit(p)
      PROVE  NoGap'
  <2>1. PICK n \in 1..2 : /\ log' = log + n
                          /\ next' = [next EXCEPT ![p] = log + 1]
                          /\ last' = [last EXCEPT ![p] = log + n]
    BY <1>1 DEF Commit
  <2>2. /\ stage[p] = "idle"
        /\ stage' = [stage EXCEPT ![p] = "committed"]
        /\ UNCHANGED <<unsent, phase, after, queue, seen, pumping, room>>
    BY <1>1 DEF Commit, conns
  <2>3. Unpublished \subseteq Unpublished'
    <3>1. \A q \in Publishers : stage[q] # "idle" =>
            stage'[q] # "idle" /\ next'[q] = next[q] /\ last'[q] = last[q]
      BY <2>1, <2>2 DEF IInv, TypeOK
    <3> QED
      BY <3>1 DEF Unpublished
  <2>4. (log + 1)..(log + n) \subseteq Unpublished'
    <3>1. stage'[p] # "idle" /\ next'[p] = log + 1 /\ last'[p] = log + n
      BY <2>1, <2>2 DEF IInv, TypeOK
    <3> QED
      BY <3>1 DEF Unpublished
  <2>5. \A e \in Events' : e \in Events \/ e \in (log + 1)..(log + n)
    BY <2>1 DEF Events, IInv, TypeOK
  <2> QED
    BY <2>2, <2>3, <2>4, <2>5 DEF NoGap, Covered, Items
<1>2. ASSUME NEW p \in Publishers, ReadBatch(p)
      PROVE  NoGap'
  <2>1. \A q \in Publishers : stage[q] # "idle" => stage'[q] # "idle"
    BY <1>2 DEF ReadBatch, IInv, TypeOK
  <2>2. UNCHANGED <<log, next, last, unsent, phase, after, queue, seen, pumping, room>>
    BY <1>2 DEF ReadBatch, conns
  <2>3. Unpublished \subseteq Unpublished'
    BY <2>1, <2>2 DEF Unpublished
  <2> QED
    BY <2>2, <2>3 DEF NoGap, Covered, Items, Events
<1>3. ASSUME NEW p \in Publishers, PublishEvent(p)
      PROVE  NoGap'
  <2>1. next[p] \in Nat /\ last[p] \in Nat /\ Broadcast(next[p]) /\ log' = log
        /\ unsent' = unsent
    BY <1>3 DEF PublishEvent, IInv, TypeOK
  <2>2. Unpublished \subseteq Unpublished' \cup {next[p]}
    <3>1. \A q \in Publishers \ {p} :
            stage'[q] = stage[q] /\ next'[q] = next[q] /\ last'[q] = last[q]
      BY <1>3 DEF PublishEvent, IInv, TypeOK
    <3>2. /\ last'[p] = last[p] /\ next'[p] = next[p] + 1
          /\ next[p] # last[p] => stage'[p] # "idle"
      BY <1>3 DEF PublishEvent, IInv, TypeOK
    <3>3. \A e \in next[p]..last[p] : e # next[p] =>
            e \in next'[p]..last'[p] /\ stage'[p] # "idle"
      BY <2>1, <3>2
    <3>4. ASSUME NEW q \in Publishers, stage[q] # "idle", NEW e \in next[q]..last[q],
                 e # next[p]
          PROVE  e \in Unpublished'
      <4>1. stage'[q] # "idle" /\ e \in next'[q]..last'[q]
        BY <3>1, <3>3, <3>4
      <4> QED
        BY <4>1 DEF Unpublished
    <3> QED
      BY <3>4 DEF Unpublished
  <2> QED
    BY <2>1, <2>2, BroadcastCovers
<1>4. CASE PublishDelta
  <2>1. Delta \in Nat /\ Broadcast(Delta) /\ UNCHANGED writers
    BY <1>4 DEF PublishDelta, Delta
  <2>2. log' = log /\ unsent' = unsent /\ Unpublished' = Unpublished
    BY <2>1, BatchesKept DEF writers
  <2> QED
    BY <2>1, <2>2, BroadcastCovers
<1>5. ASSUME NEW k \in Conns, NEW a \in Afters, Upgrade(k, a)
      PROVE  NoGap'
  <2>1. k \notin room' /\ phase'[k] # "reading"
    BY <1>5 DEF Upgrade, IInv, TypeOK, Registered
  <2> QED
    BY <1>5, <2>1, OtherConnection DEF Upgrade, NoGap, IInv, TypeOK
<1>6. ASSUME NEW k \in Conns, ServeReads(k)
      PROVE  NoGap'
  <2>1. \A e \in Events : e > after[k] => e \in Items(Backlog(k))
    BY BacklogFacts DEF IInv, TypeOK
  <2>2. queue'[k] = Backlog(k) /\ after'[k] = after[k] /\ Events' = Events
    BY <1>6, BatchesKept DEF ServeReads, IInv, TypeOK
  <2>3. \A e \in Events' : e > after'[k] => Covered(k, e)'
    BY <2>1, <2>2 DEF Covered, Items
  <2> QED
    BY <1>6, <2>3, OtherConnection DEF ServeReads, NoGap, IInv, TypeOK
<1>7. ASSUME NEW k \in Conns, ServeFails(k)
      PROVE  NoGap'
  <2>1. k \notin room' /\ phase'[k] # "reading"
    BY <1>7 DEF ServeFails, IInv, TypeOK, Registered
  <2> QED
    BY <1>7, <2>1, OtherConnection DEF ServeFails, NoGap, IInv, TypeOK
<1>8. ASSUME NEW k \in Conns, ServeRegisters(k)
      PROVE  NoGap'
  <2>1. Unpublished' = Unpublished /\ Events' = Events /\ unsent' = unsent
    BY <1>8, BatchesKept DEF ServeRegisters
  <2>2. phase[k] = "reading" /\ UNCHANGED <<after, queue, seen>>
    BY <1>8 DEF ServeRegisters
  <2>3. \A e \in Events' : e > after'[k] => Covered(k, e)'
    BY <2>1, <2>2 DEF NoGap, Covered, Items
  <2> QED
    BY <1>8, <2>3, OtherConnection DEF ServeRegisters, NoGap, IInv, TypeOK
<1>9. ASSUME NEW k \in Conns, WritePump(k)
      PROVE  NoGap'
  <2>1. UNCHANGED <<writers, room, phase, after, pumping>>
    BY <1>9 DEF WritePump
  <2>2. Unpublished' = Unpublished /\ Events' = Events /\ unsent' = unsent
    BY <2>1, BatchesKept
  <2>3. \A e \in Events : e \in seen[k] \cup Items(queue[k]) =>
          e \in (seen[k] \cup Items(queue[k]))'
    <3>1. queue[k] \in Seq(Nat) /\ queue[k] # <<>>
      BY <1>9 DEF WritePump, IInv, TypeOK
    <3>2. Items(queue[k]) \subseteq {Head(queue[k])} \cup Items(Tail(queue[k]))
      BY <3>1, ReceiveFacts
    <3>3. queue'[k] = Tail(queue[k]) /\
          seen'[k] = seen[k] \cup ({Head(queue[k])} \ {Delta})
      BY <1>9 DEF WritePump, IInv, TypeOK
    <3>4. \A e \in Events : e # Delta
      BY DEF Events, Delta, IInv, TypeOK
    <3> QED
      BY <3>2, <3>3, <3>4 DEF Items
  <2>4. ASSUME phase'[k] = "reading" \/ (k \in room' /\ pumping'[k])
        PROVE  \A e \in Events' : e > after'[k] => Covered(k, e)'
    BY <2>1, <2>2, <2>3, <2>4 DEF NoGap, Covered
  <2> QED
    BY <1>9, <2>1, <2>4, OtherConnection DEF WritePump, NoGap, IInv, TypeOK
<1>10. ASSUME NEW k \in Conns, WritePumpEnds(k)
       PROVE  NoGap'
  <2>1. ~pumping'[k] /\ phase'[k] # "reading"
    BY <1>10 DEF WritePumpEnds, IInv, TypeOK, Registered
  <2> QED
    BY <1>10, <2>1, OtherConnection DEF WritePumpEnds, NoGap, IInv, TypeOK
<1>11. ASSUME NEW k \in Conns, Break(k)
       PROVE  NoGap'
  BY <1>11, OtherConnection DEF Break, NoGap
<1>12. ASSUME NEW k \in Conns, ReadPumpEnds(k)
       PROVE  NoGap'
  <2>1. k \notin room' /\ phase'[k] # "reading" /\ room' \subseteq room
    BY <1>12 DEF ReadPumpEnds, DropLocked, IInv, TypeOK
  <2> QED
    BY <1>12, <2>1, OtherConnection DEF ReadPumpEnds, NoGap, IInv, TypeOK
<1>13. CASE UNCHANGED vars
  BY <1>13, OtherConnection DEF vars, conns, NoGap
<1>14. ASSUME NEW p \in Publishers, ReadBatchFails(p)
       PROVE  NoGap'
  <2>1. UNCHANGED <<log, next, last, phase, after, queue, seen, pumping, room>>
    BY <1>14 DEF ReadBatchFails, conns
  <2>2. /\ unsent' = unsent \cup (next[p]..last[p])
        /\ \A q \in Publishers \ {p} : stage'[q] = stage[q]
    BY <1>14 DEF ReadBatchFails, IInv, TypeOK
  <2>3. Unpublished \cup unsent \subseteq Unpublished' \cup unsent'
    BY <2>1, <2>2 DEF Unpublished
  <2> QED
    BY <2>1, <2>3 DEF NoGap, Covered, Items, Events
<1> QED
  BY <1>1, <1>2, <1>3, <1>4, <1>5, <1>6, <1>7, <1>8, <1>9, <1>10, <1>11,
     <1>12, <1>13, <1>14 DEF Next, Write, Serve

(* Every event later than its after_sequence reaches a registered client,  *)
(* now or when its publisher gets to it, unless its append was cancelled   *)
(* after the commit; for any number of publishers and connections.         *)
THEOREM GapCorrect == SafeSpec => []NeverInTheGap
<1>1. Init => NoGap
  BY DEF Init, NoGap
<1>2. IInv /\ NoGap /\ [Next]_vars => NoGap'
  BY GapStep
<1>3. IInv /\ NoGap => NeverInTheGap
  <2> SUFFICES ASSUME IInv, NoGap, NEW k \in room, pumping[k],
                      NEW e \in Events, e > after[k]
               PROVE  Covered(k, e)
    BY DEF NeverInTheGap, Covered
  <2> QED
    BY DEF NoGap, IInv, TypeOK
<1> QED
  BY <1>1, <1>2, <1>3, Inductive, PTL DEF SafeSpec
=============================================================================
