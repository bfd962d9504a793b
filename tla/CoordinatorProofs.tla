-------------------------- MODULE CoordinatorProofs --------------------------
(***************************************************************************)
(* Proofs about Coordinator.tla for every set of Meetings and handlers:    *)
(* type correctness, no Meeting accepted twice, no lost wake-up, and that  *)
(* every step is a step of the abstract queue or leaves it alone.          *)
(***************************************************************************)
EXTENDS Coordinator, TLAPS

-----------------------------------------------------------------------------
(* Facts about sequences as the pending slice uses them.                   *)

(* append(c.pending, meetingID): the new identifier comes last, the others *)
(* keep their places.                                                      *)
LEMMA AppendFacts ==
    ASSUME NEW S, NEW s \in Seq(S), NEW x \in S
    PROVE  /\ Append(s, x) \in Seq(S)
           /\ DOMAIN Append(s, x) = 1..(Len(s) + 1)
           /\ \A i \in 1..Len(s) : Append(s, x)[i] = s[i]
           /\ Append(s, x)[Len(s) + 1] = x
           /\ DOMAIN s = 1..Len(s)
           /\ Len(s) \in Nat
  OBVIOUS

(* c.pending[1:]: every identifier but the first moves one place forward.  *)
LEMMA TailFacts ==
    ASSUME NEW S, NEW s \in Seq(S), s # <<>>
    PROVE  /\ Head(s) = s[1] /\ Head(s) \in S
           /\ Tail(s) \in Seq(S)
           /\ DOMAIN Tail(s) = 1..(Len(s) - 1)
           /\ \A i \in 1..(Len(s) - 1) : Tail(s)[i] = s[i + 1]
           /\ DOMAIN s = 1..Len(s)
           /\ Len(s) \in Nat \ {0}
  OBVIOUS

(* A nil slice holds nothing.                                              *)
LEMMA EmptyFacts ==
    ASSUME NEW S
    PROVE  /\ <<>> \in Seq(S)
           /\ DOMAIN <<>> = {}
  OBVIOUS

-----------------------------------------------------------------------------
(* A goroutine on its way into or out of Enqueue carries a Meeting.        *)
ArgOK == \A p \in Procs : pc[p] # "idle" => arg[p] \in Meetings

(* The goroutine of Coordinator.Run exists only inside the process.        *)
DownOK == ~up => worker = "off"

TInv == TypeOK /\ ArgOK /\ DownOK

LEMMA InitTyped == Init => TInv
  BY EmptyFacts DEF Init, TInv, TypeOK, ArgOK, DownOK

LEMMA NextTyped == TInv /\ [Next]_vars => TInv'
<1> SUFFICES ASSUME TInv, [Next]_vars PROVE TInv'
  OBVIOUS
<1> USE DEF TInv, TypeOK, ArgOK, DownOK, mem
<1>1. ASSUME NEW p \in Procs, EnqueueLocked(p) PROVE TInv'
  BY <1>1, AppendFacts DEF EnqueueLocked
<1>2. ASSUME NEW p \in Procs, Signal(p) PROVE TInv'
  BY <1>2 DEF Signal
<1>3. ASSUME NEW m \in Meetings, BootEnqueue(m) PROVE TInv'
  BY <1>3 DEF BootEnqueue, Procs
<1>4. ASSUME NEW h \in Handlers, NEW m \in Meetings, Commit(h, m) PROVE TInv'
  BY <1>4 DEF Commit, Procs
<1>5. CASE Boot
  BY <1>5 DEF Boot
<1>6. CASE Cancel
  BY <1>6 DEF Cancel
<1>7. CASE Crash \/ Exit
  BY <1>7, EmptyFacts DEF Crash, Exit, Down
<1>8. CASE Dequeue
  <2>1. CASE pending = <<>>
    BY <1>8, <2>1 DEF Dequeue
  <2>2. CASE pending # <<>>
    <3>1. Head(pending) \in Meetings /\ Tail(pending) \in Seq(Meetings)
      BY <2>2, TailFacts
    <3>2. QED
      BY <1>8, <2>2, <3>1 DEF Dequeue
  <2>3. QED
    BY <2>1, <2>2
<1>9. CASE RunHandsOver \/ RunLeavesRunnable \/ Forget \/ Awake \/ Stop
  BY <1>9 DEF RunHandsOver, RunLeavesRunnable, Forget, Awake, Stop
<1>10. CASE UNCHANGED vars
  BY <1>10 DEF vars
<1>11. QED
  BY <1>1, <1>2, <1>3, <1>4, <1>5, <1>6, <1>7, <1>8, <1>9, <1>10 DEF Next, Run

(* Every variable of the coordinator keeps its type.                       *)
THEOREM TypeCorrect == Spec => []TypeOK
<1>1. TInv => TypeOK
  BY DEF TInv
<1>2. QED
  BY InitTyped, NextTyped, <1>1, PTL DEF Spec

-----------------------------------------------------------------------------
LEMMA InitOnce == Init => AcceptedOnce
  BY CoordinatorAssumption, EmptyFacts DEF Init, AcceptedOnce, InPending, Working

LEMMA NextOnce == TInv /\ AcceptedOnce /\ [Next]_vars => AcceptedOnce'
<1> SUFFICES ASSUME TInv, AcceptedOnce, [Next]_vars PROVE AcceptedOnce'
  OBVIOUS
<1> USE CoordinatorAssumption DEF TInv, TypeOK, mem
<1>a. ASSUME UNCHANGED <<queued, pending, worker, current>> PROVE AcceptedOnce'
  BY <1>a DEF AcceptedOnce, InPending, Working
<1>1. ASSUME NEW p \in Procs, EnqueueLocked(p) PROVE AcceptedOnce'
  <2>1. CASE arg[p] \in queued
    BY <2>1, <1>1, <1>a DEF EnqueueLocked
  <2>2. CASE arg[p] \notin queued
    <3>1. arg[p] \in Meetings
      BY <1>1 DEF ArgOK, EnqueueLocked
    <3>2. /\ queued' = queued \cup {arg[p]}
          /\ pending' = Append(pending, arg[p])
          /\ UNCHANGED <<worker, current>>
      BY <1>1, <2>2 DEF EnqueueLocked
    <3>3. /\ DOMAIN pending = 1..Len(pending) /\ Len(pending) \in Nat
          /\ DOMAIN pending' = 1..(Len(pending) + 1)
          /\ \A i \in 1..Len(pending) : pending'[i] = pending[i]
          /\ pending'[Len(pending) + 1] = arg[p]
      BY <3>1, <3>2, AppendFacts
    <3>4. InPending' = InPending \cup {arg[p]}
      BY <3>3 DEF InPending
    <3>5. arg[p] \notin InPending /\ arg[p] # current
      BY <2>2, <3>1 DEF AcceptedOnce
    <3>6. \A i, j \in DOMAIN pending' : pending'[i] = pending'[j] => i = j
      <4> SUFFICES ASSUME NEW i \in DOMAIN pending', NEW j \in DOMAIN pending',
                          pending'[i] = pending'[j]
                   PROVE  i = j
        OBVIOUS
      <4>1. \A k \in 1..Len(pending) : pending[k] # arg[p]
        BY <3>3, <3>5 DEF InPending
      <4>2. i \in 1..Len(pending) \/ i = Len(pending) + 1
        BY <3>3
      <4>3. j \in 1..Len(pending) \/ j = Len(pending) + 1
        BY <3>3
      <4>4. QED
        BY <3>3, <4>1, <4>2, <4>3 DEF AcceptedOnce
    <3>7. QED
      BY <3>2, <3>4, <3>5, <3>6 DEF AcceptedOnce, Working
  <2>3. QED
    BY <2>1, <2>2
<1>2. ASSUME NEW p \in Procs, Signal(p) PROVE AcceptedOnce'
  BY <1>2, <1>a DEF Signal
<1>3. ASSUME NEW m \in Meetings, BootEnqueue(m) PROVE AcceptedOnce'
  BY <1>3, <1>a DEF BootEnqueue
<1>4. ASSUME NEW h \in Handlers, NEW m \in Meetings, Commit(h, m) PROVE AcceptedOnce'
  BY <1>4, <1>a DEF Commit
<1>5. CASE Boot \/ Awake \/ Stop
  <2>1. UNCHANGED <<queued, pending, current>> /\ ~Working /\ ~Working'
    BY <1>5 DEF Boot, Awake, Stop, Working, DownOK
  <2>2. QED
    BY <2>1 DEF AcceptedOnce, InPending
<1>6. CASE Cancel
  BY <1>6, <1>a DEF Cancel
<1>7. CASE Crash \/ Exit
  BY <1>7, EmptyFacts DEF Crash, Exit, Down, AcceptedOnce, InPending, Working
<1>8. CASE Dequeue
  <2>1. CASE pending = <<>>
    <3>1. UNCHANGED <<queued, pending, current>> /\ ~Working /\ ~Working'
      BY <1>8, <2>1 DEF Dequeue, Working
    <3>2. QED
      BY <3>1 DEF AcceptedOnce, InPending
  <2>2. CASE pending # <<>>
    <3>1. /\ current' = Head(pending) /\ pending' = Tail(pending)
          /\ worker = "next" /\ worker' = "running" /\ UNCHANGED queued
      BY <1>8, <2>2 DEF Dequeue
    <3>2. /\ DOMAIN pending = 1..Len(pending) /\ Len(pending) \in Nat \ {0}
          /\ current' = pending[1] /\ current' \in Meetings
          /\ DOMAIN pending' = 1..(Len(pending) - 1)
          /\ \A i \in 1..(Len(pending) - 1) : pending'[i] = pending[i + 1]
      BY <2>2, <3>1, TailFacts
    <3>3. current = NoMeeting
      BY <3>1 DEF AcceptedOnce, Working
    <3>4. \A i \in 1..(Len(pending) - 1) : i + 1 \in DOMAIN pending /\ i + 1 # 1
      BY <3>2
    <3>5. current' \notin InPending'
      <4> SUFFICES ASSUME NEW i \in 1..(Len(pending) - 1) PROVE pending'[i] # current'
        BY <3>2 DEF InPending
      <4>1. i + 1 \in DOMAIN pending /\ i + 1 # 1 /\ 1 \in DOMAIN pending
        BY <3>2, <3>4
      <4>2. pending[i + 1] # pending[1]
        BY <4>1 DEF AcceptedOnce
      <4>3. QED
        BY <4>2, <3>2
    <3>6. InPending = InPending' \cup {current'}
      <4>1. InPending' \cup {current'} \subseteq InPending
        <5>1. ASSUME NEW i \in 1..(Len(pending) - 1) PROVE pending'[i] \in InPending
          BY <3>2, <3>4 DEF InPending
        <5>2. 1 \in DOMAIN pending
          BY <3>2
        <5>3. QED
          BY <5>1, <5>2, <3>2 DEF InPending
      <4>2. ASSUME NEW i \in DOMAIN pending PROVE pending[i] \in InPending' \cup {current'}
        <5>1. CASE i = 1
          BY <5>1, <3>2
        <5>2. CASE i # 1
          <6>1. i - 1 \in 1..(Len(pending) - 1) /\ (i - 1) + 1 = i
            BY <5>2, <3>2
          <6>2. pending'[i - 1] = pending[i]
            BY <6>1, <3>2
          <6>3. QED
            BY <6>1, <6>2, <3>2 DEF InPending
        <5>3. QED
          BY <5>1, <5>2
      <4>3. QED
        BY <4>1, <4>2 DEF InPending
    <3>7. \A i, j \in DOMAIN pending' : pending'[i] = pending'[j] => i = j
      <4> SUFFICES ASSUME NEW i \in DOMAIN pending', NEW j \in DOMAIN pending',
                          pending'[i] = pending'[j]
                   PROVE  i = j
        OBVIOUS
      <4>1. pending[i + 1] = pending[j + 1]
        BY <3>2
      <4>2. i + 1 = j + 1
        BY <4>1, <3>2, <3>4 DEF AcceptedOnce
      <4>3. QED
        BY <4>2, <3>2
    <3>8. QED
      BY <3>1, <3>2, <3>3, <3>5, <3>6, <3>7 DEF AcceptedOnce, Working
  <2>3. QED
    BY <2>1, <2>2
<1>9. CASE RunHandsOver \/ RunLeavesRunnable
  BY <1>9 DEF RunHandsOver, RunLeavesRunnable, AcceptedOnce, InPending, Working
<1>10. CASE Forget
  <2>1. /\ worker = "returning" /\ worker' = "next" /\ current' = NoMeeting
        /\ queued' = queued \ {current} /\ UNCHANGED pending
    BY <1>10 DEF Forget
  <2>2. NoMeeting \notin InPending
    BY DEF InPending
  <2>3. QED
    BY <2>1, <2>2 DEF AcceptedOnce, InPending, Working
<1>11. CASE UNCHANGED vars
  BY <1>11, <1>a DEF vars
<1>12. QED
  BY <1>1, <1>2, <1>3, <1>4, <1>5, <1>6, <1>7, <1>8, <1>9, <1>10, <1>11
  DEF Next, Run

(* Enqueue's queued map and the pending slice agree, whatever the          *)
(* interleaving: a Meeting is accepted once until its Run has returned.    *)
THEOREM OnceCorrect == Spec => []AcceptedOnce
<1>1. Init => TInv /\ AcceptedOnce
  BY InitTyped, InitOnce
<1>2. (TInv /\ AcceptedOnce) /\ [Next]_vars => (TInv /\ AcceptedOnce)'
  BY NextTyped, NextOnce
<1>3. QED
  BY <1>1, <1>2, PTL DEF Spec

-----------------------------------------------------------------------------
LEMMA InitAwake == Init => NoLostWakeup
  BY DEF Init, NoLostWakeup

LEMMA NextAwake == TInv /\ NoLostWakeup /\ [Next]_vars => NoLostWakeup'
<1> SUFFICES ASSUME TInv, NoLostWakeup, [Next]_vars,
                    worker' = "parked", pending' # <<>>
             PROVE  wake' \/ \E p \in Procs : pc'[p] = "signal"
  BY DEF NoLostWakeup
<1> USE DEF TInv, TypeOK, mem
<1>1. ASSUME NEW p \in Procs, EnqueueLocked(p)
      PROVE  wake' \/ \E q \in Procs : pc'[q] = "signal"
  <2>1. CASE arg[p] \in queued
    <3>1. /\ UNCHANGED <<worker, pending, wake>>
          /\ pc[p] = "enqueue" /\ pc' = [pc EXCEPT ![p] = "idle"]
      BY <1>1, <2>1 DEF EnqueueLocked
    <3>2. wake \/ \E q \in Procs : pc[q] = "signal"
      BY <3>1 DEF NoLostWakeup
    <3>3. ASSUME NEW q \in Procs, pc[q] = "signal" PROVE pc'[q] = "signal"
      BY <3>1, <3>3
    <3>4. QED
      BY <3>1, <3>2, <3>3
  <2>2. CASE arg[p] \notin queued
    BY <1>1, <2>2 DEF EnqueueLocked
  <2>3. QED
    BY <2>1, <2>2
<1>2. ASSUME NEW p \in Procs, Signal(p)
      PROVE  wake' \/ \E q \in Procs : pc'[q] = "signal"
  BY <1>2 DEF Signal
<1>3. ASSUME NEW p \in Procs, pc[p] = "idle" \/ pc' = pc,
             pc' = pc \/ pc' = [pc EXCEPT ![p] = "enqueue"],
             UNCHANGED <<worker, pending, wake>>
      PROVE  wake' \/ \E q \in Procs : pc'[q] = "signal"
  <2>1. wake \/ \E q \in Procs : pc[q] = "signal"
    BY <1>3 DEF NoLostWakeup
  <2>2. ASSUME NEW q \in Procs, pc[q] = "signal" PROVE pc'[q] = "signal"
    BY <1>3, <2>2
  <2>3. QED
    BY <1>3, <2>1, <2>2
<1>4. Main \in Procs
  BY DEF Procs
<1>5. ASSUME NEW m \in Meetings, BootEnqueue(m)
      PROVE  wake' \/ \E q \in Procs : pc'[q] = "signal"
  BY <1>3, <1>4, <1>5 DEF BootEnqueue
<1>6. ASSUME NEW h \in Handlers, NEW m \in Meetings, Commit(h, m)
      PROVE  wake' \/ \E q \in Procs : pc'[q] = "signal"
  <2>1. h \in Procs
    BY DEF Procs
  <2>2. QED
    BY <1>3, <1>6, <2>1 DEF Commit
<1>7. CASE Cancel \/ UNCHANGED vars
  BY <1>3, <1>4, <1>7 DEF Cancel, vars
<1>8. CASE Boot \/ Crash \/ Exit \/ Run
  \* None of these parks the worker while a Meeting is pending.
  BY <1>8 DEF Boot, Crash, Exit, Down, Run, Dequeue, RunHandsOver,
              RunLeavesRunnable, Forget, Awake, Stop
<1>9. QED
  BY <1>1, <1>2, <1>5, <1>6, <1>7, <1>8 DEF Next

(* The worker goroutine never sleeps over a pending Meeting: the token in  *)
(* the wake channel, or a sender on its way, covers it.                    *)
THEOREM WakeupCorrect == Spec => []NoLostWakeup
<1>1. Init => TInv /\ NoLostWakeup
  BY InitTyped, InitAwake
<1>2. (TInv /\ NoLostWakeup) /\ [Next]_vars => (TInv /\ NoLostWakeup)'
  BY NextTyped, NextAwake
<1>3. QED
  BY <1>1, <1>2, PTL DEF Spec

-----------------------------------------------------------------------------
(* Every step of the coordinator is a step of the abstract queue or leaves *)
(* it unchanged: the queued map is a faithful membership test for "waits   *)
(* or is active", which is where AcceptedOnce is needed.                   *)
LEMMA StepRefines ==
    TInv /\ AcceptedOnce /\ [Next]_vars => [Queue!Next]_(Queue!qvars)
<1> SUFFICES ASSUME TInv, AcceptedOnce, [Next]_vars
             PROVE  Queue!Next \/ UNCHANGED <<pending, current>>
  BY DEF Queue!qvars
<1> USE CoordinatorAssumption DEF TInv, TypeOK, mem
<1>1. ASSUME NEW p \in Procs, EnqueueLocked(p)
      PROVE  Queue!Next \/ UNCHANGED <<pending, current>>
  <2>1. CASE arg[p] \in queued
    BY <1>1, <2>1 DEF EnqueueLocked
  <2>2. CASE arg[p] \notin queued
    <3>1. arg[p] \in Meetings
      BY <1>1 DEF ArgOK, EnqueueLocked
    <3>2. arg[p] \notin InPending /\ arg[p] # current
      BY <2>2, <3>1 DEF AcceptedOnce
    <3>3. Queue!Accept(arg[p])
      BY <1>1, <2>2, <3>2 DEF EnqueueLocked, Queue!Accept, Queue!Waiting, InPending
    <3>4. QED
      BY <3>1, <3>3 DEF Queue!Next
  <2>3. QED
    BY <2>1, <2>2
<1>2. CASE Dequeue
  <2>1. CASE pending = <<>>
    BY <1>2, <2>1 DEF Dequeue
  <2>2. CASE pending # <<>>
    BY <1>2, <2>2 DEF Dequeue, AcceptedOnce, Working, Queue!Next, Queue!Begin
  <2>3. QED
    BY <2>1, <2>2
<1>3. CASE Forget
  BY <1>3 DEF Forget, AcceptedOnce, Working, Queue!Next, Queue!Finish
<1>4. CASE Crash \/ Exit
  BY <1>4 DEF Crash, Exit, Down, Queue!Next, Queue!Reset
<1>5. ASSUME NEW p \in Procs, Signal(p)
      PROVE  UNCHANGED <<pending, current>>
  BY <1>5 DEF Signal
<1>6. ASSUME NEW m \in Meetings, BootEnqueue(m)
      PROVE  UNCHANGED <<pending, current>>
  BY <1>6 DEF BootEnqueue
<1>7. ASSUME NEW h \in Handlers, NEW m \in Meetings, Commit(h, m)
      PROVE  UNCHANGED <<pending, current>>
  BY <1>7 DEF Commit
<1>8. CASE \/ Boot \/ Cancel \/ RunHandsOver \/ RunLeavesRunnable
           \/ Awake \/ Stop \/ UNCHANGED vars
  BY <1>8 DEF Boot, Cancel, RunHandsOver, RunLeavesRunnable, Awake, Stop, vars
<1>9. QED
  BY <1>1, <1>2, <1>3, <1>4, <1>5, <1>6, <1>7, <1>8 DEF Next, Run

(* The safety part of the abstract queue, for every set of Meetings: a     *)
(* Meeting waits once, in arrival order, and runs alone.                   *)
THEOREM QueueRefined == Spec => QueueSafety
<1>1. Init => Queue!Init
  BY DEF Init, Queue!Init
<1>2. Init => TInv /\ AcceptedOnce
  BY InitTyped, InitOnce
<1>3. (TInv /\ AcceptedOnce) /\ [Next]_vars => (TInv /\ AcceptedOnce)'
  BY NextTyped, NextOnce
<1>4. QED
  BY <1>1, <1>2, <1>3, StepRefines, PTL DEF Spec, QueueSafety, Queue!Safety
=============================================================================
