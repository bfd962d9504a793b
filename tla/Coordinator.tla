----------------------------- MODULE Coordinator -----------------------------
(***************************************************************************)
(* internal/meeting/coordinator.go: the queue between the HTTP commands    *)
(* that commit a Meeting status and the one goroutine that advances        *)
(* Meetings (Service.Run), with the part of daemon.Run that starts and     *)
(* stops it.                                                               *)
(*                                                                         *)
(* Every Enqueue is two steps, because the mutex is released before the    *)
(* non-blocking send on wake (capacity 1).  A command is a commit to the   *)
(* database followed by an Enqueue.  Of a Meeting only one fact is kept:   *)
(* whether its committed status is one the daemon has to advance           *)
(* (runnable).  What Service.Run does inside is the subject of Meeting.tla.*)
(***************************************************************************)
EXTENDS Naturals, Sequences

CONSTANTS Meetings,     \* Meeting identifiers
          Handlers,     \* HTTP handler goroutines
          Main,         \* the goroutine of daemon.Run
          NoMeeting     \* the zero Meeting identifier

ASSUME CoordinatorAssumption ==
    /\ NoMeeting \notin Meetings
    /\ Main \notin Handlers

Procs == Handlers \cup {Main}

VARIABLES
    runnable,   \* Meetings whose committed status ResumableMeetings selects
    queued,     \* Coordinator.queued: the keys set to true
    pending,    \* Coordinator.pending
    wake,       \* Coordinator.wake holds its one token
    worker,     \* where Coordinator.Run is
    current,    \* the meetingID Coordinator.Run is working on
    pc,         \* where each goroutine that enqueues is
    arg,        \* the Meeting it enqueues
    boot,       \* Meetings daemon.Run has still to enqueue
    up,         \* the process exists
    cancelled   \* the context of the daemon is cancelled

mem  == <<queued, pending, wake, worker, current>>
vars == <<runnable, mem, pc, arg, boot, up, cancelled>>

InPending == {pending[i] : i \in DOMAIN pending}

Init ==
    /\ runnable \in SUBSET Meetings
    /\ queued = {} /\ pending = <<>> /\ wake = FALSE
    /\ worker = "off" /\ current = NoMeeting
    /\ pc = [p \in Procs |-> "idle"]
    /\ arg = [p \in Procs |-> NoMeeting]
    /\ boot = {}
    /\ up = FALSE /\ cancelled = FALSE

-----------------------------------------------------------------------------
(* Enqueue, by the goroutine p, of the Meeting arg[p].                     *)

\* Mutant: the identifier is not looked up first.
EnqueueTwice(p) ==
    /\ pc[p] = "enqueue"
    /\ queued' = queued \cup {arg[p]}
    /\ pending' = Append(pending, arg[p])
    /\ pc' = [pc EXCEPT ![p] = "signal"]
    /\ UNCHANGED <<runnable, wake, worker, current, arg, boot, up, cancelled>>

\* The critical section: an identifier already queued is dropped.
EnqueueLocked(p) ==
    /\ pc[p] = "enqueue"
    /\ IF arg[p] \in queued
       THEN /\ pc' = [pc EXCEPT ![p] = "idle"]
            /\ arg' = [arg EXCEPT ![p] = NoMeeting]
            /\ UNCHANGED <<queued, pending>>
       ELSE /\ queued' = queued \cup {arg[p]}
            /\ pending' = Append(pending, arg[p])
            /\ pc' = [pc EXCEPT ![p] = "signal"]
            /\ UNCHANGED arg
    /\ UNCHANGED <<runnable, wake, worker, current, boot, up, cancelled>>

\* Mutant: the token is not sent.
SignalLost(p) ==
    /\ pc[p] = "signal"
    /\ pc' = [pc EXCEPT ![p] = "idle"]
    /\ arg' = [arg EXCEPT ![p] = NoMeeting]
    /\ UNCHANGED <<runnable, queued, pending, wake, worker, current, boot, up, cancelled>>

\* The non-blocking send: nothing happens when the channel is full.
Signal(p) ==
    /\ pc[p] = "signal"
    /\ wake' = TRUE
    /\ pc' = [pc EXCEPT ![p] = "idle"]
    /\ arg' = [arg EXCEPT ![p] = NoMeeting]
    /\ UNCHANGED <<runnable, queued, pending, worker, current, boot, up, cancelled>>

-----------------------------------------------------------------------------
(* daemon.Run and the HTTP commands.                                       *)

Boot ==
    /\ ~up
    /\ up' = TRUE
    /\ worker' = "next"
    /\ boot' = runnable
    /\ UNCHANGED <<runnable, queued, pending, wake, current, pc, arg, cancelled>>

\* Mutant: the zero identifier is enqueued.
BootEnqueueZero(m) ==
    /\ up /\ m \in boot /\ pc[Main] = "idle"
    /\ boot' = boot \ {m}
    /\ pc' = [pc EXCEPT ![Main] = "enqueue"]
    /\ UNCHANGED <<runnable, mem, arg, up, cancelled>>

BootEnqueue(m) ==
    /\ up /\ m \in boot /\ pc[Main] = "idle"
    /\ boot' = boot \ {m}
    /\ pc' = [pc EXCEPT ![Main] = "enqueue"]
    /\ arg' = [arg EXCEPT ![Main] = m]
    /\ UNCHANGED <<runnable, mem, up, cancelled>>

\* The servers listen only after daemon.Run has enqueued everything.
Serving == up /\ boot = {} /\ pc[Main] = "idle"

\* Start, Answer or a continuing Review: the Meeting is the Human's, the
\* append makes it the daemon's, and the handler goes on to enqueue it.
Commit(h, m) ==
    /\ Serving
    /\ pc[h] = "idle"
    /\ m \notin runnable
    /\ runnable' = runnable \cup {m}
    /\ pc' = [pc EXCEPT ![h] = "enqueue"]
    /\ arg' = [arg EXCEPT ![h] = m]
    /\ UNCHANGED <<mem, boot, up, cancelled>>

Cancel ==
    /\ up /\ ~cancelled
    /\ cancelled' = TRUE
    /\ UNCHANGED <<runnable, mem, pc, arg, boot, up>>

Down ==
    /\ up' = FALSE /\ cancelled' = FALSE
    /\ queued' = {} /\ pending' = <<>> /\ wake' = FALSE
    /\ worker' = "off" /\ current' = NoMeeting
    /\ pc' = [p \in Procs |-> "idle"]
    /\ arg' = [p \in Procs |-> NoMeeting]
    /\ boot' = {}
    /\ UNCHANGED runnable

\* The process dies, or daemon.Run returns after a cancelled context without
\* waiting for the coordinator.
Crash == up /\ Down
Exit  == up /\ cancelled /\ Down

-----------------------------------------------------------------------------
(* Coordinator.Run.                                                        *)

\* Mutant: the newest identifier is taken first.
DequeueNewest ==
    /\ worker = "next"
    /\ IF pending = <<>>
       THEN worker' = "parked" /\ UNCHANGED <<pending, current>>
       ELSE /\ worker' = "running"
            /\ current' = pending[Len(pending)]
            /\ pending' = SubSeq(pending, 1, Len(pending) - 1)
    /\ UNCHANGED <<runnable, queued, wake, pc, arg, boot, up, cancelled>>

Dequeue ==
    /\ worker = "next"
    /\ IF pending = <<>>
       THEN worker' = "parked" /\ UNCHANGED <<pending, current>>
       ELSE /\ worker' = "running"
            /\ current' = Head(pending)
            /\ pending' = Tail(pending)
    /\ UNCHANGED <<runnable, queued, wake, pc, arg, boot, up, cancelled>>

\* The last append of Service.Run gives the Meeting to the Human or ends it,
\* which failMeeting may do after the cancellation.
RunHandsOver ==
    /\ worker = "running"
    /\ runnable' = runnable \ {current}
    /\ worker' = "returning"
    /\ UNCHANGED <<queued, pending, wake, current, pc, arg, boot, up, cancelled>>

\* Service.Run leaves a status the daemon has to advance: it stopped on an
\* error or a cancelled context, or on "reconvening".  In the last case it
\* has called Enqueue itself, which drops the identifier: it is queued.
RunLeavesRunnable ==
    /\ worker = "running"
    /\ worker' = "returning"
    /\ UNCHANGED <<runnable, queued, pending, wake, current, pc, arg, boot, up, cancelled>>

Forget ==
    /\ worker = "returning"
    /\ queued' = queued \ {current}
    /\ current' = NoMeeting
    /\ worker' = "next"
    /\ UNCHANGED <<runnable, pending, wake, pc, arg, boot, up, cancelled>>

Awake ==
    /\ worker = "parked" /\ wake
    /\ wake' = FALSE
    /\ worker' = "next"
    /\ UNCHANGED <<runnable, queued, pending, current, pc, arg, boot, up, cancelled>>

Stop ==
    /\ worker = "parked" /\ cancelled
    /\ worker' = "off"
    /\ UNCHANGED <<runnable, queued, pending, wake, current, pc, arg, boot, up, cancelled>>

Run == Dequeue \/ RunHandsOver \/ RunLeavesRunnable \/ Forget \/ Awake \/ Stop

Next ==
    \/ \E p \in Procs : EnqueueLocked(p) \/ Signal(p)
    \/ \E m \in Meetings : BootEnqueue(m)
    \/ \E h \in Handlers, m \in Meetings : Commit(h, m)
    \/ Boot \/ Cancel \/ Crash \/ Exit
    \/ Run

(* The Go scheduler runs a goroutine that is not blocked; a Provider call  *)
(* ends after thirty minutes at the latest; a cancelled daemon exits (the  *)
(* servers are given five seconds).  Nobody promises that a command comes  *)
(* or that a daemon that is down is started again.                         *)
Fairness ==
    /\ WF_vars(Run)
    /\ \A p \in Procs : WF_vars(EnqueueLocked(p)) /\ WF_vars(Signal(p))
    /\ \A m \in Meetings : WF_vars(BootEnqueue(m))
    /\ WF_vars(Exit)

Spec == Init /\ [][Next]_vars /\ Fairness

-----------------------------------------------------------------------------
TypeOK ==
    /\ runnable \subseteq Meetings
    /\ queued \subseteq Meetings
    /\ pending \in Seq(Meetings)
    /\ wake \in BOOLEAN
    /\ worker \in {"off", "next", "running", "returning", "parked"}
    /\ current \in Meetings \cup {NoMeeting}
    /\ pc \in [Procs -> {"idle", "enqueue", "signal"}]
    /\ arg \in [Procs -> Meetings \cup {NoMeeting}]
    /\ boot \subseteq Meetings
    /\ up \in BOOLEAN
    /\ cancelled \in BOOLEAN

(* An identifier is in the queued map exactly while it waits or is being   *)
(* worked on, it never waits twice, and it does not wait while it is being *)
(* worked on: no Meeting is advanced twice for one acceptance, and none    *)
(* stays marked and so becomes impossible to enqueue.                      *)
Working == worker \in {"running", "returning"}

AcceptedOnce ==
    /\ \A i, j \in DOMAIN pending : pending[i] = pending[j] => i = j
    /\ Working <=> current # NoMeeting
    /\ current \notin InPending
    /\ queued = InPending \cup ({current} \ {NoMeeting})

(* The worker never sleeps on an empty channel while a Meeting waits,      *)
(* unless a goroutine between its unlock and its send is about to wake it. *)
NoLostWakeup ==
    worker = "parked" /\ pending # <<>> =>
        wake \/ \E p \in Procs : pc[p] = "signal"

(* What daemon.Run reads from ResumableMeetings at startup is run, unless  *)
(* the process ends first.                                                 *)
BootIsRun ==
    \A m \in Meetings :
        m \in boot ~> (worker = "running" /\ current = m) \/ ~up

(* The coordinator implements the abstract queue, its liveness included.   *)
Queue == INSTANCE RunQueue WITH waiting <- pending, active <- current
QueueSafety == Queue!Safety
QueueSpec == Queue!Spec

(* docs/design/milestone-1a-meeting-backend.md:117: "HTTP 写命令先追加事件   *)
(* 并更新 projection；Daemon 在 committed barrier 之间异步推进" (a write      *)
(* command appends first, the daemon then advances).  A Meeting whose      *)
(* command has been committed is picked up after that commit.              *)
CommandIsRun ==
    \A h \in Handlers, m \in Meetings :
        (pc[h] = "enqueue" /\ arg[h] = m)
            ~> (worker = "running" /\ current = m) \/ ~up
=============================================================================
