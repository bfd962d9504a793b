---------------------------- MODULE Maintenance ----------------------------
(***************************************************************************)
(* The maintenance gate: Store.Reconcile at the start of the daemon and    *)
(* after every replay (server.go, state.go), while commands and the        *)
(* coordinator, which nothing gates, append.                               *)
(*                                                                         *)
(* Every query of a Reconcile is a step.  Between two processes rows that  *)
(* are derived from events may be lost; the events never are.              *)
(***************************************************************************)
EXTENDS EventStore

CONSTANTS DirOf,        \* the common-dir each Project is bound to
          BranchOf,     \* and the branch
          Losses,       \* which rows may be lost between two processes
          Works,        \* the coordinator has Meetings to advance
          Cancels       \* HTTP clients may go away

ASSUME MaintenanceAssumption ==
    /\ DirOf \in [Projects -> Dirs] /\ BranchOf \in [Projects -> Branches]
    /\ Losses \subseteq {"project", "meetings", "contents"}
    /\ {Works, Cancels} \subseteq BOOLEAN

VARIABLES
    maintenance,    \* RuntimeState.maintenanceProjects
    task            \* what each handler does

gateVars == <<storeVars, maintenance, task>>

\* The locals of a handler: target is the Project of its request, the rest
\* belongs to Reconcile (versions read, Projects not looked at, the one it
\* looks at with its recorded digest, and those found inconsistent).
Idle == [pc |-> "idle", target |-> NoProject,
         streams |-> [p \in Projects |-> 0], todo |-> {}, cur |-> NoProject,
         digest |-> EmptyRow, drifted |-> {}]

\* Every Project is registered, with one event of a Meeting and one content.
InitGate ==
    /\ stream = [p \in Projects |-> Registration(DirOf[p], BranchOf[p], 1)
                    \o MeetingEvent("meeting") \o MeetingEvent("content")]
    /\ row = [p \in Projects |-> Truth(p)]
    /\ seal = [p \in Projects |-> [version |-> Version(p),
                                   digest |-> Digest(row[p])]]
    /\ maintenance = {}
    /\ task = [h \in Handlers |-> Idle]

\* The request is answered, with its result or an error.
Answer(h) == task' = [task EXCEPT ![h] = Idle]

-----------------------------------------------------------------------------
(* The daemon starts.                                                      *)

Lost(p, loss) ==
    CASE loss = "project"  -> [row |-> EmptyRow, seal |-> NoSeal]
      [] loss = "meetings" -> [row |-> [row[p] EXCEPT !.meetings = 0],
                               seal |-> seal[p]]
      [] loss = "contents" -> [row |-> [row[p] EXCEPT !.contents = 0],
                               seal |-> seal[p]]

\* projectionConsistent, of rows r sealed by s at version v.
Consistent(r, s, v) ==
    /\ s.version = v
    /\ Complete(r)
    /\ Digest(r) = s.digest

Drifts(p) == ~Consistent(row[p], seal[p], Version(p))

\* The process dies, rows of one Project are lost or none, and the next one
\* runs Reconcile before anything else.
Restart ==
    /\ \/ UNCHANGED storeVars
       \/ \E p \in Projects, loss \in Losses :
            /\ row' = [row EXCEPT ![p] = Lost(p, loss).row]
            /\ seal' = [seal EXCEPT ![p] = Lost(p, loss).seal]
            /\ UNCHANGED stream
    /\ maintenance' = {p \in Projects : Drifts(p)'}
    /\ task' = [h \in Handlers |-> Idle]

-----------------------------------------------------------------------------
(* Commands, behind requireReady, and the coordinator.                     *)

Accepted(h, pc) ==
    \E p \in Projects :
        task' = [task EXCEPT ![h].pc = pc, ![h].target = p]

\* Mutant: nothing is gated.
PassUngated(h) ==
    /\ task[h].pc = "idle"
    /\ Accepted(h, "command")
    /\ UNCHANGED <<storeVars, maintenance>>

\* requireReady lets the command through.
Pass(h) ==
    /\ task[h].pc = "idle"
    /\ maintenance = {}
    /\ Accepted(h, "command")
    /\ UNCHANGED <<storeVars, maintenance>>

\* An Append of the next fact of a Meeting.
AppendMeeting(p) ==
    \E type \in {"meeting", "content"} :
        /\ Appends(p, Version(p), MeetingEvent(type))
        /\ AppendTx(p, Version(p), MeetingEvent(type))

Command(h) ==
    /\ task[h].pc = "command"
    /\ AppendMeeting(task[h].target) \/ UNCHANGED storeVars
    /\ Answer(h)
    /\ UNCHANGED maintenance

\* Service.Run of a Meeting of p.
Work(p) ==
    /\ Works
    /\ AppendMeeting(p)
    /\ UNCHANGED <<maintenance, task>>

-----------------------------------------------------------------------------
(* replayProject: Replay, Reconcile, Update.                               *)

\* requireReady lets it through whatever the state.
RequestReplay(h) ==
    /\ task[h].pc = "idle"
    /\ Accepted(h, "replay")
    /\ UNCHANGED <<storeVars, maintenance>>

ReplayFirst(h) ==
    /\ task[h].pc = "replay"
    /\ Replays(task[h].target)
    /\ ReplayTx(task[h].target)
    /\ task' = [task EXCEPT ![h].pc = "streams"]
    /\ UNCHANGED maintenance

\* projectStreams
ReadStreams(h) ==
    /\ task[h].pc = "streams"
    /\ task' = [task EXCEPT ![h].pc = "events",
                            ![h].streams = [p \in Projects |-> Version(p)],
                            ![h].todo = Projects]
    /\ UNCHANGED <<storeVars, maintenance>>

\* loadEvents of any Project left, and validateStream: the length must be
\* the version that was read before, or replayProject returns the error.
ReadEvents(h) ==
    /\ task[h].pc = "events"
    /\ \E p \in task[h].todo :
         IF Version(p) # task[h].streams[p]
         THEN Answer(h)
         ELSE task' = [task EXCEPT ![h].pc = "projection", ![h].cur = p,
                                   ![h].todo = @ \ {p}]
    /\ UNCHANGED <<storeVars, maintenance>>

Verdict(h, found) ==
    /\ task' = [task EXCEPT ![h].pc = "events", ![h].cur = NoProject,
                            ![h].digest = EmptyRow, ![h].drifted = found]
    /\ UNCHANGED <<storeVars, maintenance>>

\* Mutant: only the last Project found is kept.
JudgeLast(h, drifts) == Verdict(h, IF drifts THEN {task[h].cur} ELSE {})

\* The Project that is looked at has drifted or not; on to the next.
Judge(h, drifts) ==
    Verdict(h, task[h].drifted \cup IF drifts THEN {task[h].cur} ELSE {})

\* The query of projection_states.
ReadProjection(h) ==
    LET s == seal[task[h].cur] IN
    /\ task[h].pc = "projection"
    /\ IF s.version # task[h].streams[task[h].cur]
       THEN Judge(h, TRUE)
       ELSE /\ task' = [task EXCEPT ![h].pc = "digest", ![h].digest = s.digest]
            /\ UNCHANGED <<storeVars, maintenance>>

\* What projectionDigest covers.
ProjectPart(r) == [r EXCEPT !.meetings = 0, !.contents = 0]

ReadDigest(h) ==
    LET r == row[task[h].cur] IN
    /\ task[h].pc = "digest"
    /\ IF Complete(r) /\ ProjectPart(r) = ProjectPart(task[h].digest)
       THEN /\ task' = [task EXCEPT ![h].pc = "current"]
            /\ UNCHANGED <<storeVars, maintenance>>
       ELSE Judge(h, TRUE)

\* The query of current_states and currentStateData.
ReadCurrent(h) ==
    LET p == task[h].cur IN
    /\ task[h].pc = "current"
    /\ Judge(h, ~Consistent(row[p], seal[p], task[h].streams[p]))

\* RuntimeState.Update
Update(h) ==
    /\ task[h].pc = "events"
    /\ task[h].todo = {}
    /\ maintenance' = task[h].drifted
    /\ Answer(h)
    /\ UNCHANGED storeVars

\* The client goes away: the query under way fails with its context.
Abandon(h) ==
    /\ Cancels
    /\ task[h].pc \notin {"idle", "command"}
    /\ Answer(h)
    /\ UNCHANGED <<storeVars, maintenance>>

Reconcile(h) ==
    \/ ReadStreams(h) \/ ReadEvents(h) \/ ReadProjection(h) \/ ReadDigest(h)
    \/ ReadCurrent(h) \/ Update(h)

NextGate ==
    \/ Restart
    \/ \E h \in Handlers :
         \/ Pass(h) \/ Command(h)
         \/ RequestReplay(h) \/ ReplayFirst(h) \/ Reconcile(h) \/ Abandon(h)
    \/ \E p \in Projects : Work(p)

SpecGate == InitGate /\ [][NextGate]_gateVars

-----------------------------------------------------------------------------
GateTypeOK ==
    /\ StoreTypeOK
    /\ maintenance \subseteq Projects
    /\ task \in [Handlers ->
         [pc : {"idle", "command", "replay", "streams", "events",
                "projection", "digest", "current"},
          target : Projects \cup {NoProject},
          streams : [Projects -> 0..MaxLength],
          todo : SUBSET Projects,
          cur : Projects \cup {NoProject},
          digest : Rows,
          drifted : SUBSET Projects]]

(* The gate is never open on a drift Reconcile can see: as long as the     *)
(* rows of a Project and their seal disagree it is in maintenance, however *)
(* replays, commands and the coordinator interleave with the reading.      *)
GateCovers == \A p \in Projects : Drifts(p) => p \in maintenance

(* milestone-0-foundation.md:124-129: while a projection is missing or     *)
(* differs every other command returns replay_required.  A command that    *)
(* was let through never finds such a Project, even after the gate closed  *)
(* behind it.                                                              *)
CommandOnSound ==
    \A h \in Handlers : task[h].pc = "command" => ~Drifts(task[h].target)

(* A replay leaves its Project as its events say, whatever was lost.       *)
ReplayRepairs ==
    [][\A h \in Handlers : ReplayFirst(h) => Intact(task[h].target)']_gateVars

(* milestone-0-foundation.md:124-132: a projection that is missing puts    *)
(* the daemon in maintenance, and a damaged state is not normalised into   *)
(* success ("不把损坏状态归一化成成功").                                      *)
LossIsReported == \A p \in Projects : ~Intact(p) => p \in maintenance

(* milestone-0-foundation.md:131: "Project replay 成功并重新核对后，daemon   *)
(* 从 maintenance 切回 ready" (after a successful replay and a new check the *)
(* daemon is ready again).  With no request under way and nothing left to  *)
(* repair it is ready.                                                     *)
ReadyWhenRepaired ==
    (\A h \in Handlers : task[h] = Idle) /\ (\A p \in Projects : ~Drifts(p))
        => maintenance = {}

(* milestone-0-foundation.md:124-125: maintenance is for a projection that *)
(* is missing, behind or differs.  No step puts a sound Project in it.     *)
OnlyDriftCloses ==
    [][\A p \in maintenance' \ maintenance : Drifts(p)']_gateVars
=============================================================================
