------------------------------ MODULE Provider ------------------------------
(***************************************************************************)
(* The Provider runs of one seat: execute, executeStructured, the records  *)
(* of the runs and their Session in internal/meeting/service.go, and the   *)
(* supervision of the tool's process in internal/runner.                   *)
(*                                                                         *)
(* The tool is external.  OpenCode writes steps; a step in which it called *)
(* a tool of its own is followed by another one, and a step without is its *)
(* last.  Codex announces its thread and writes its answer to a file at    *)
(* the end.  A tool may end at any moment, with any exit code, or never,   *)
(* and may leave a child.  What it has written is parsed in order to the   *)
(* end of the pipe, so writing and parsing a line are one step.            *)
(*                                                                         *)
(* A Session is a number: the how manieth the tool has made.               *)
(***************************************************************************)
EXTENDS Naturals, Sequences

CONSTANTS Tools,    \* the tools a seat may be given
          Children, \* what a tool may leave behind
          MaxRuns,  \* bound: runs of the seat
          MaxSteps  \* bound: steps of one turn of OpenCode

\* A child may hold the tool's stdout, and may have left its process group.
Child == [pipe : BOOLEAN, group : BOOLEAN]

ASSUME ProviderAssumption ==
    /\ Tools \subseteq {"codex", "opencode"}
    /\ Children \subseteq SUBSET Child
    /\ {MaxRuns, MaxSteps} \subseteq Nat

VARIABLES tool,     \* participant.Provider
          context,  \* the daemon's context: none, live, cancelled
          runs,     \* agent_runs of the seat
          seat,     \* meeting_participants.session_id, 0 for none
          sessions, \* Sessions the tool has made
          exec,     \* the execute in progress, and the tool it supervises
          failed,   \* the Meeting has failed: nothing runs it again
          orphans   \* Sessions of tools a dead daemon left running

providerVars == <<tool, context, runs, seat, sessions, exec, failed, orphans>>

\* What the callback of runStreamed knows of the stream.
Unread == [sid |-> 0, open |-> FALSE, tooled |-> FALSE, awaiting |-> FALSE,
           text |-> FALSE]

\* at: idle, recorded, executing, answered or again; stop: none, cancelled,
\* terminated or killed; turn: how far the tool is with its answer; broken:
\* whatever else happens, Execute will return an error.
Idle == [at |-> "idle", attempt |-> 1, asked |-> 0, session |-> 0,
         alive |-> FALSE, turn |-> "between", steps |-> 0, child |-> {},
         stop |-> "none", broken |-> FALSE, seen |-> Unread]

InitProvider ==
    /\ tool \in Tools
    /\ context = "none" /\ runs = <<>> /\ seat = 0 /\ sessions = 0
    /\ exec = Idle /\ failed = FALSE /\ orphans = {}

Last == Len(runs)
Open == {i \in DOMAIN runs : runs[i].status = "running"}

\* result.SessionID: the Session asked for, if the stream named none.
Session == IF exec.seen.sid = 0 THEN exec.asked ELSE exec.seen.sid

-----------------------------------------------------------------------------
(* recordRun, and what the reducer makes of the record.                    *)

\* An empty Session does not replace the one of the seat.
Kept(s) == IF s = 0 THEN seat ELSE s

Records(i, status, s) ==
    /\ context = "live"
    /\ runs' = [runs EXCEPT ![i] = [status |-> status, session |-> s, whole |-> FALSE]]
    /\ seat' = Kept(s)

\* The Append conflicts, or its context is cancelled.
Unrecorded == UNCHANGED <<runs, seat>>

\* Service.Run returns an error: failMeeting; while the daemon is stopping, only
\* some phases do.
GivesUp ==
    /\ exec' = Idle
    /\ failed' \in {TRUE, context = "live"}

\* execute records the new run before it starts the tool.
Begins(s, attempt) ==
    /\ context = "live" /\ Len(runs) < MaxRuns
    /\ runs' = Append(runs, [status |-> "running", session |-> s, whole |-> FALSE])
    /\ seat' = Kept(s)
    /\ exec' = [Idle EXCEPT !.at = "recorded", !.attempt = attempt, !.asked = s]

-----------------------------------------------------------------------------
(* A run and its tool.                                                     *)

\* interruptUnfinishedRuns.
Interrupt ==
    /\ exec.at = "idle" /\ ~failed
    /\ \E i \in Open : Records(i, "interrupted", runs[i].session)
    /\ UNCHANGED <<tool, context, sessions, exec, failed, orphans>>

Begin ==
    /\ exec.at = "idle" /\ ~failed /\ Open = {}
    /\ Begins(seat, 1)
    /\ UNCHANGED <<tool, context, sessions, failed, orphans>>

\* The tool is started, in a process group of its own, to resume the Session
\* it is told or to make one.
Launch ==
    /\ exec.at = "recorded"
    /\ sessions' = IF exec.asked = 0 THEN sessions + 1 ELSE sessions
    /\ \E c \in Children :
         exec' = [exec EXCEPT !.at = "executing", !.alive = TRUE, !.child = c,
                              !.session = IF exec.asked = 0 THEN sessions'
                                          ELSE exec.asked]
    /\ UNCHANGED <<tool, context, runs, seat, failed, orphans>>

\* The tool cannot be started; if executableVersion fails the result has no
\* Session either.
LaunchFails ==
    /\ exec.at = "recorded"
    /\ (\E s \in {0, exec.asked} : Records(Last, "failed", s)) \/ Unrecorded
    /\ GivesUp
    /\ UNCHANGED <<tool, context, sessions, orphans>>

\* What the tool may write next: where its turn is and where the line leads.
\* OpenCode ends a step with a reason ("step_finish"), which may be "tool-calls"
\* ("tool_calls"), or without one ("step_end"): not a step in which it called a
\* tool, which the callback would take for its last.
Turns ==
    IF tool = "codex"
    THEN {<<"between", "thread.started", "between">>, <<"between", "answer", "whole">>}
    ELSE {<<"between", "step_start", "in">>, <<"in", "text", "in">>,
          <<"in", "tool_use", "tooled">>, <<"tooled", "text", "tooled">>,
          <<"in", "step_finish", "whole">>, <<"in", "step_end", "whole">>,
          <<"in", "tool_calls", "between">>, <<"tooled", "tool_calls", "between">>,
          <<"tooled", "step_finish", "between">>,
          <<"between", "error", "between">>, <<"in", "error", "between">>}

Finishes == {"step_finish", "tool_calls", "step_end"}

\* Mutant: no step has to follow the one in which a tool was called.
ParsedLoosely(p, line) ==
    CASE line = "step_start" -> [p EXCEPT !.open = TRUE]
      [] line \in Finishes -> [p EXCEPT !.open = FALSE]
      [] line \in {"text", "answer"} -> [p EXCEPT !.text = TRUE]
      [] OTHER -> p

\* The callback of OpenCode; the answer of Codex is the file given with -o.
Parsed(p, line) ==
    CASE line = "step_start" -> [p EXCEPT !.open = TRUE, !.tooled = FALSE,
                                          !.awaiting = FALSE]
      [] line \in Finishes ->
           [p EXCEPT !.open = FALSE, !.tooled = FALSE,
                     !.awaiting = \/ line = "tool_calls"
                                  \/ line = "step_finish" /\ p.tooled]
      [] line = "tool_use" -> [p EXCEPT !.tooled = TRUE]
      [] line \in {"text", "answer"} -> [p EXCEPT !.text = TRUE]
      [] OTHER -> p

Names(line) == line # "answer" /\ exec.seen.sid = 0

\* How the stream went no longer matters, only the Session it has named.
Spoiled(e) == [e EXCEPT !.broken = TRUE, !.turn = "between", !.steps = 0,
                        !.seen = [Unread EXCEPT !.sid = e.seen.sid]]

\* The run after a line t.
Reads(t) ==
    LET p == Parsed(exec.seen, t[2])
        e == [exec EXCEPT !.turn = t[3],
                !.steps = IF t[2] = "step_start" THEN @ + 1 ELSE @,
                !.seen = IF Names(t[2]) THEN [p EXCEPT !.sid = exec.session] ELSE p]
    IN IF t[2] = "error" THEN Spoiled(e) ELSE e

\* The tool writes a line.  The first that names its Session is pinned, if it
\* is not the one asked for; the run is cancelled if that cannot be recorded.
Line ==
    /\ exec.at = "executing" /\ exec.alive /\ ~exec.broken
    /\ \E t \in Turns :
         /\ exec.turn = t[1] /\ Reads(t).steps <= MaxSteps
         /\ IF Names(t[2]) /\ exec.session # exec.asked
            THEN \/ /\ exec.stop = "none" /\ Records(Last, "running", exec.session)
                    /\ exec' = Reads(t)
                 \/ /\ exec' = [Spoiled(Reads(t)) EXCEPT
                                   !.stop = IF @ = "none" THEN "cancelled" ELSE @]
                    /\ Unrecorded
            ELSE exec' = Reads(t) /\ Unrecorded
    /\ UNCHANGED <<tool, context, sessions, failed, orphans>>

\* A line of more than 16 MiB: the drain stops, the rest is not read.
Overlong ==
    /\ exec.at = "executing" /\ exec.alive /\ ~exec.broken
    /\ exec' = Spoiled(exec)
    /\ UNCHANGED <<tool, context, runs, seat, sessions, failed, orphans>>

\* The tool ends, by itself or on SIGTERM: with exit code 0; or with another
\* one, or within a line, which OpenCode's callback cannot decode.
Exit ==
    /\ exec.at = "executing" /\ exec.alive
    /\ LET e == [exec EXCEPT !.alive = FALSE] IN exec' \in {e, Spoiled(e)}
    /\ UNCHANGED <<tool, context, runs, seat, sessions, failed, orphans>>

ChildEnds ==
    /\ exec.child # {}
    /\ exec' = [exec EXCEPT !.child = {}]
    /\ UNCHANGED <<tool, context, runs, seat, sessions, failed, orphans>>

-----------------------------------------------------------------------------
(* runStreamed: the end of the run.                                        *)

\* Both pipes are at their end and the tool is gone: command.Wait returns.
Drained == ~exec.alive /\ \A c \in exec.child : ~c.pipe

Advances(from, to) ==
    /\ exec.at = "executing" /\ exec.stop = from /\ ~Drained
    /\ exec' = [exec EXCEPT !.stop = to]
    /\ UNCHANGED <<tool, context, runs, seat, sessions, failed, orphans>>

\* Thirty minutes are over, or the daemon's context is cancelled.
Cancel == Advances("none", "cancelled")

\* SIGTERM to the group: whether it ends of it is up to the tool.
Terminate == Advances("cancelled", "terminated")

\* Mutant: SIGKILL to the tool alone.
KillLeader ==
    /\ exec.at = "executing" /\ exec.stop = "terminated" /\ ~Drained
    /\ LET e == [exec EXCEPT !.stop = "killed", !.alive = FALSE]
       IN exec' = IF exec.alive THEN Spoiled(e) ELSE e
    /\ UNCHANGED <<tool, context, runs, seat, sessions, failed, orphans>>

\* SIGKILL to the group, five seconds later.
Kill ==
    /\ exec.at = "executing" /\ exec.stop = "terminated" /\ ~Drained
    /\ LET e == [exec EXCEPT !.stop = "killed", !.alive = FALSE,
                             !.child = {c \in @ : ~c.group}]
       IN exec' = IF exec.alive THEN Spoiled(e) ELSE e
    /\ UNCHANGED <<tool, context, runs, seat, sessions, failed, orphans>>

\* What makes Execute return an error.
Fails ==
    exec.broken \/ ~exec.seen.text \/ exec.seen.open \/ exec.seen.awaiting

\* What the caller still needs of a run that is over.
Over(at) == [Idle EXCEPT !.at = at, !.attempt = exec.attempt, !.asked = exec.asked,
                         !.turn = exec.turn,
                         !.seen = [Unread EXCEPT !.sid = exec.seen.sid]]

\* execute returns an output ...
Answers ==
    /\ exec.at = "executing" /\ Drained /\ ~Fails
    /\ exec' = Over("answered")
    /\ UNCHANGED <<tool, context, runs, seat, sessions, failed, orphans>>

\* ... or records the failure and returns it.
Breaks ==
    /\ exec.at = "executing" /\ Drained /\ Fails
    /\ Records(Last, "failed", Session) \/ Unrecorded
    /\ GivesUp
    /\ UNCHANGED <<tool, context, sessions, orphans>>

-----------------------------------------------------------------------------
(* executeStructured and its caller.                                       *)

\* The output is valid: persistRunResult.
Accepted ==
    /\ exec.at = "answered"
    /\ \/ /\ context = "live"
          /\ runs' = [runs EXCEPT ![Last] = [status |-> "completed",
                                             session |-> Session,
                                             whole |-> exec.turn = "whole"]]
          /\ seat' = Kept(Session)
          /\ exec' = Idle /\ UNCHANGED failed
       \/ Unrecorded /\ GivesUp
    /\ UNCHANGED <<tool, context, sessions, orphans>>

\* It is not: persistRunFailure, and at most one correction.  After two, a
\* review of the Recorder goes back to the Human, any other phase fails.
Refused ==
    /\ exec.at = "answered"
    /\ \/ /\ exec.attempt = 1 /\ Records(Last, "failed", Session)
          /\ exec' = Over("again") /\ UNCHANGED failed
       \/ exec.attempt = 2 /\ Records(Last, "failed", Session) /\ GivesUp
       \/ exec.attempt = 2 /\ Records(Last, "failed", Session)
          /\ exec' = Idle /\ UNCHANGED failed
       \/ Unrecorded /\ GivesUp
    /\ UNCHANGED <<tool, context, sessions, orphans>>

\* Mutant: with the participant as the Meeting was when the step began.
AgainAsBefore ==
    /\ exec.at = "again"
    /\ \/ Begins(exec.asked, 2) /\ UNCHANGED failed
       \/ Unrecorded /\ GivesUp
    /\ UNCHANGED <<tool, context, sessions, orphans>>

\* In the Session of the first attempt.
Again ==
    /\ exec.at = "again"
    /\ \/ Begins(Session, 2) /\ UNCHANGED failed
       \/ Unrecorded /\ GivesUp
    /\ UNCHANGED <<tool, context, sessions, orphans>>

-----------------------------------------------------------------------------
(* The daemon.                                                             *)

Boots ==
    /\ context' = "live"
    /\ UNCHANGED <<tool, runs, seat, sessions, exec, failed, orphans>>

Stops ==
    /\ context' = "cancelled"
    /\ UNCHANGED <<tool, runs, seat, sessions, exec, failed, orphans>>

\* The process ends: Run does not wait for the coordinator, and nothing ends
\* the tools with it.
Dies ==
    /\ context' = "none" /\ exec' = Idle
    /\ orphans' = IF exec.alive THEN orphans \cup {exec.session} ELSE orphans
    /\ UNCHANGED <<tool, runs, seat, sessions, failed>>

OrphanEnds ==
    /\ orphans' = {} /\ orphans # {}
    /\ UNCHANGED <<tool, context, runs, seat, sessions, exec, failed>>

\* What the daemon does by itself: its goroutines and its timers.
Supervise ==
    \/ Launch \/ LaunchFails \/ Cancel \/ Terminate \/ Kill \/ Answers \/ Breaks
    \/ Accepted \/ Refused \/ Again

\* What happens when it happens.
ToolSteps == Line \/ Overlong \/ Exit \/ ChildEnds \/ OrphanEnds

StepProvider == Interrupt \/ Begin \/ Supervise \/ ToolSteps

-----------------------------------------------------------------------------
(* Properties.                                                             *)

TypeOKProvider ==
    /\ tool \in Tools /\ context \in {"none", "live", "cancelled"}
    /\ runs \in Seq([status : {"running", "completed", "failed", "interrupted"},
                     session : Nat, whole : BOOLEAN])
    /\ {seat, sessions} \subseteq Nat /\ orphans \subseteq Nat
    /\ failed \in BOOLEAN
    /\ exec.at \in {"idle", "recorded", "executing", "answered", "again"}
    /\ exec.stop \in {"none", "cancelled", "terminated", "killed"}

\* A run is completed, and its output enters the Meeting, only if the tool had
\* finished its answer: not when it was ended in the middle, with whatever
\* exit code, nor when a part of its stream was not read.
AcceptedIsWhole ==
    \A i \in DOMAIN runs : runs[i].status = "completed" => runs[i].whole

\* A seat keeps its Session for the whole Meeting: through corrections,
\* failures, interrupted runs and restarts.
SessionKept == [][seat # 0 => seat' = seat]_providerVars

\* A run that was started comes to an end, whatever the tool does, unless the
\* daemon dies first.
RunEnds == exec.at # "idle" ~> exec.at = "idle"

\* "Terminate the whole tool process tree on cancellation" (runner.go:149).
TreeDies ==
    [][exec.at = "executing" /\ exec.stop # "none" /\ exec'.at # "executing"
       /\ context' # "none" => exec.child = {}]_providerVars

\* A seat's tool is alone in its Workdir and its Session.
OneTool == exec.alive => orphans = {}
=============================================================================
