------------------------------- MODULE Meeting -------------------------------
(***************************************************************************)
(* internal/meeting/service.go: one Meeting, from draft to its end.        *)
(*                                                                         *)
(* The committed facts are the projection rows the service reads back      *)
(* (internal/store/meeting.go).  Service.Run is a sequence of steps, each  *)
(* of which ends in one Append; between two steps anything may happen:     *)
(* a command of the Human, the end of a parallel designer's Provider run,  *)
(* a cancelled daemon context, the death of the process.  An Append fails  *)
(* with stream_conflict when another writer of the same Project committed  *)
(* between the service's read and its Append.                              *)
(*                                                                         *)
(* Of the one-goroutine coordinator a Meeting sees its own entry of the    *)
(* queued map (see Coordinator.tla).  The candidates of a Result are one   *)
(* disposition; a Provider answer is valid or not, with its verdict.       *)
(***************************************************************************)
EXTENDS Naturals, Sequences

CONSTANTS
    Protocol,       \* 1: legacy roster with a Verifier, 2: Recorder review loop
    NumDesigners,   \* designer, maintainer and adversary seats, in roster order
    MaxRounds,      \* Meeting.MaxRounds (3 in the code)
    MaxCycles,      \* bound: cycles explored
    MaxContents,    \* bound: no new Review once that many contents exist
    MaxCrashes, MaxShutdowns,        \* bound: process deaths, cancelled contexts
    MaxConflicts, MaxFailures,       \* bound: stream conflicts, Provider failures
    MaxDisconnects                   \* bound: HTTP clients that go away

ASSUME MeetingAssumption ==
    /\ Protocol \in {1, 2}
    /\ NumDesigners \in Nat
    /\ Protocol = 1 => NumDesigners > 0
    /\ MaxRounds \in Nat /\ MaxCycles \in Nat /\ MaxContents \in Nat
    /\ MaxCrashes \in Nat /\ MaxShutdowns \in Nat /\ MaxConflicts \in Nat
    /\ MaxFailures \in Nat /\ MaxDisconnects \in Nat

VARIABLES
    status, cycle, round,   \* the meetings row
    result,                 \* result_content_id: an index of contents, 0 if none
    contents,               \* meeting_contents, oldest first
    items,                  \* disposition of the candidates of each Result
    conflicts,              \* meeting_conflicts, oldest first
    running,                \* agent_runs with status "running": <<seat, phase>>
    up, cancelled,          \* the process exists; its context is cancelled
    queued,                 \* Coordinator.queued of this Meeting
    caller,                 \* a command that has committed and not yet enqueued
    pc,                     \* where Service.Run is
    batch,                  \* where the goroutine of each designer is
    local,                  \* the local variables of Service.Run
    left                    \* what remains of each bound

db   == <<status, cycle, round, result, contents, items, conflicts, running>>
row  == <<status, cycle, round>>
host == <<up, queued, caller>>
vars == <<db, host, cancelled, pc, batch, local, left>>

Designers == 1..NumDesigners
Human     == 0
Recorder  == NumDesigners + 1
Verifier  == NumDesigners + 2
Seats     == 0..(NumDesigners + 2)

\* Who may advance a status: ResumableMeetings, the commands, nobody.
WorkerOwned == {"preparing", "sealed_proposals", "revealed", "deliberating",
                "recording", "verifying", "recorder_reviewing", "reconvening"}
HumanOwned  == {"draft", "needs_user_input", "awaiting_human",
                "awaiting_user_review"}
Final       == {"concluded", "failed"}

Phases == {"proposal", "deliberation", "recording", "verifying", "recorder_review"}
Kinds  == {"human_input", "proposal", "position", "synthesis", "verification",
           "meeting_result", "recorder_answer", "recorder_opening"}
Content == [kind : Kinds, seat : Seats, cycle : Nat, round : Nat, ok : BOOLEAN]

ResultKind == IF Protocol = 2 THEN "meeting_result" ELSE "synthesis"

Fresh == [conflict |-> 0, round |-> 0, seat |-> 1, agree |-> TRUE,
          attempt |-> 1, busy |-> FALSE]
Out == [d \in Designers |-> "out"]

Init ==
    /\ status = "draft" /\ cycle = 1 /\ round = 0 /\ result = 0
    /\ contents = <<>> /\ items = <<>> /\ conflicts = <<>> /\ running = {}
    /\ up = TRUE /\ cancelled = FALSE /\ queued = FALSE /\ caller = "none"
    /\ pc = "idle" /\ batch = Out /\ local = Fresh
    /\ left = [crash |-> MaxCrashes, shutdown |-> MaxShutdowns,
               conflict |-> MaxConflicts, failure |-> MaxFailures,
               disconnect |-> MaxDisconnects]

-----------------------------------------------------------------------------
(* Building blocks of the steps.                                           *)

Spend(kind) == left[kind] > 0 /\ left' = [left EXCEPT ![kind] = @ - 1]

SetStatus(s, c, r) == status' = s /\ cycle' = c /\ round' = r

\* The event persistRunResult writes with the completed run.
AddContent(kind, seat, ok) ==
    contents' = Append(contents, [kind |-> kind, seat |-> seat, cycle |-> cycle,
                                  round |-> round, ok |-> ok])

\* Where an error leaves Service.Run: some are returned at once, those of
\* ensureProposals and deliberate fail the Meeting unless the context is
\* cancelled, all others fail the Meeting.
OnError(loc, ctxCancelled) ==
    IF \/ loc \in {"interrupt", "dispatch", "reveal", "failing"}
       \/ /\ ctxCancelled
          /\ loc \in {"batch", "collect", "conflict", "round", "seat", "close", "adopt"}
    THEN "exit" ELSE "failing"

At(loc) == up /\ ~cancelled /\ pc = loc

\* The step has committed.  Append then reads the Project back with the same
\* context, so a context cancelled meanwhile turns the commit into an error.
Then(next) ==
    \/ pc' = next /\ UNCHANGED <<cancelled, left>>
    \/ Spend("shutdown") /\ cancelled' = TRUE /\ pc' = OnError(pc, TRUE)

-----------------------------------------------------------------------------
(* Commands of the Human, and the enqueue that follows their commit.       *)

Commanded == caller' = "enqueue" /\ UNCHANGED <<up, queued, cancelled, pc, batch, local, left>>

Start ==
    /\ up /\ caller = "none" /\ status = "draft"
    /\ SetStatus("preparing", cycle, 0)
    /\ Commanded
    /\ UNCHANGED <<result, contents, items, conflicts, running>>

\* Mutant: the status is not checked.
AnswerAnything ==
    /\ up /\ caller = "none" /\ cycle < MaxCycles
    /\ SetStatus("deliberating", cycle + 1, 0)
    /\ Commanded
    /\ UNCHANGED <<result, contents, items, conflicts, running>>

Answer ==
    /\ up /\ caller = "none" /\ status = "needs_user_input"
    /\ cycle < MaxCycles
    /\ contents' = Append(contents, [kind |-> "human_input", seat |-> Human,
                                     cycle |-> cycle + 1, round |-> 0, ok |-> TRUE])
    /\ SetStatus("deliberating", cycle + 1, 0)
    /\ Commanded
    /\ UNCHANGED <<result, items, conflicts, running>>

\* Protocol v1: the candidates leave "proposed" one by one; the last one
\* concludes the Meeting.
Disposition(i, d) ==
    /\ up /\ caller = "none" /\ status = "awaiting_human"
    /\ i \in DOMAIN items /\ items[i] = "proposed"
    /\ items' = [items EXCEPT ![i] = d]
    /\ IF \E j \in DOMAIN items \ {i} : items[j] = "proposed"
       THEN UNCHANGED row
       ELSE SetStatus("concluded", cycle, round)
    /\ UNCHANGED <<result, contents, conflicts, running, host, cancelled, pc,
                   batch, local, left>>

\* Protocol v2: every item of the current Result is dispositioned at once.
\* "selected": all accepted; "rejected": a boundary or invariant is rejected;
\* "deferred": anything else.  A rejected item cannot be accepted later.
Approve ==
    /\ up /\ caller = "none" /\ status = "awaiting_user_review" /\ Protocol = 2
    /\ items[result] # "rejected"
    /\ items' = [items EXCEPT ![result] = "selected"]
    /\ SetStatus("concluded", cycle, round)
    /\ UNCHANGED <<result, contents, conflicts, running, host, cancelled, pc,
                   batch, local, left>>

Continue(d) ==
    /\ up /\ caller = "none" /\ status = "awaiting_user_review" /\ Protocol = 2
    /\ Len(contents) < MaxContents
    /\ items[result] = "rejected" => d = "rejected"
    /\ items' = [items EXCEPT ![result] = d]
    /\ SetStatus("recorder_reviewing", cycle, round)
    /\ Commanded
    /\ UNCHANGED <<result, contents, conflicts, running>>

\* Scheduler.Enqueue: dropped while the Meeting is in the queued map.
Enqueue ==
    /\ up /\ caller = "enqueue"
    /\ caller' = "none"
    /\ queued' = TRUE
    /\ UNCHANGED <<db, up, cancelled, pc, batch, local, left>>

\* The request context ended after the commit: the read that follows the
\* commit fails and the command returns before it enqueues.
Disconnect ==
    /\ up /\ caller = "enqueue" /\ Spend("disconnect")
    /\ caller' = "none"
    /\ UNCHANGED <<db, up, queued, cancelled, pc, batch, local>>

-----------------------------------------------------------------------------
(* The process.                                                            *)

Down ==
    /\ up' = FALSE /\ cancelled' = FALSE /\ queued' = FALSE /\ caller' = "none"
    /\ pc' = "idle" /\ batch' = Out /\ local' = Fresh
    /\ UNCHANGED db

Crash == up /\ Spend("crash") /\ Down

\* SIGTERM between two steps: the step that follows fails without a commit.
\* Service.Run reads the Meeting again before it enters these steps, and a
\* read that fails is returned at once.
Entering ==
    pc \in {"prepare", "record", "verify"} /\ ~local.busy /\ local.attempt = 1

Cancel ==
    /\ up /\ ~cancelled /\ Spend("shutdown")
    /\ cancelled' = TRUE
    /\ \/ pc' = IF pc \in {"idle", "failing", "exit"} THEN pc ELSE OnError(pc, TRUE)
       \/ Entering /\ pc' = "exit"
    /\ UNCHANGED <<db, host, batch, local>>

Exit == up /\ cancelled /\ Down /\ UNCHANGED left

\* daemon.Run enqueues what ResumableMeetings returns.
Boot ==
    /\ ~up
    /\ up' = TRUE
    /\ queued' = (status \in WorkerOwned)
    /\ UNCHANGED <<db, caller, cancelled, pc, batch, local, left>>

-----------------------------------------------------------------------------
(* Service.Run up to the reveal.                                           *)

Dequeue ==
    /\ At("idle") /\ queued
    /\ pc' = "interrupt"
    /\ UNCHANGED <<db, host, cancelled, batch, local, left>>

Interrupt ==
    /\ At("interrupt")
    /\ \/ /\ running = {}
          /\ pc' = "dispatch"
          /\ UNCHANGED <<running, cancelled, left>>
       \/ /\ \E r \in running : running' = running \ {r}
          /\ Then("interrupt")
    /\ UNCHANGED <<row, result, contents, items, conflicts, host, batch, local>>

\* Mutant: a resumed Recorder review is not dispatched.
DispatchNoReview ==
    /\ At("dispatch") /\ status # "reconvening"
    /\ pc' = CASE status \in {"preparing", "sealed_proposals"} -> "prepare"
                [] status = "recording" -> "record"
                [] OTHER -> "exit"
    /\ UNCHANGED <<db, host, cancelled, batch, local, left>>

Dispatch ==
    /\ At("dispatch")
    /\ \/ /\ status = "reconvening"
          /\ SetStatus("sealed_proposals", cycle, 0)
          /\ Then("prepare")
       \/ /\ pc' = CASE status = "recorder_reviewing" -> "review"
                     [] status \in {"preparing", "sealed_proposals"} -> "prepare"
                     [] status \in {"revealed", "deliberating"} -> "conflict"
                     [] status = "recording" -> "record"
                     [] Protocol = 1 /\ status = "verifying" -> "verify"
                     [] OTHER -> "exit"
          /\ status # "reconvening"
          /\ UNCHANGED <<row, cancelled, left>>
    /\ UNCHANGED <<result, contents, items, conflicts, running, host, batch, local>>

\* prepareWorkspaces: the Workdirs, then the barrier.
Prepare ==
    /\ At("prepare")
    /\ IF status = "preparing"
       THEN SetStatus("sealed_proposals", cycle, 0) /\ Then("batch")
       ELSE pc' = "batch" /\ UNCHANGED <<row, cancelled, left>>
    /\ UNCHANGED <<result, contents, items, conflicts, running, host, batch, local>>

PrepareFails ==
    /\ At("prepare") /\ Spend("failure")
    /\ pc' = OnError("prepare", FALSE)
    /\ UNCHANGED <<db, host, cancelled, batch, local>>

\* Mutant: a proposal of an earlier cycle counts.
HasProposalEver(d) ==
    \E i \in DOMAIN contents : contents[i].kind = "proposal" /\ contents[i].seat = d
HasProposal(d) ==
    \E i \in DOMAIN contents :
        contents[i].kind = "proposal" /\ contents[i].seat = d /\ contents[i].cycle = cycle

\* Mutant: every designer is asked again after a restart.
OpenBatchForAll ==
    /\ At("batch")
    /\ batch' = [d \in Designers |-> "start"]
    /\ pc' = "collect"
    /\ UNCHANGED <<db, host, cancelled, local, left>>

\* ensureProposals: one goroutine per designer without a proposal.
OpenBatch ==
    /\ At("batch")
    /\ batch' = [d \in Designers |-> IF HasProposal(d) THEN "out" ELSE "start"]
    /\ pc' = "collect"
    /\ UNCHANGED <<db, host, cancelled, local, left>>

\* A designer's goroutine does not stop when Service.Run returns early.
Designing(d, at) == up /\ ~cancelled /\ batch[d] = at
Move(d, to) == batch' = [batch EXCEPT ![d] = to]
Unfinished == <<row, result, contents, items, conflicts, host, cancelled, pc, local>>

ProposalStarts(d) ==
    /\ \/ Designing(d, "start") /\ Move(d, "run")
       \/ Designing(d, "restart") /\ Move(d, "rerun")
    /\ running' = running \cup {<<d, "proposal">>}
    /\ UNCHANGED <<Unfinished, left>>

ProposalValid(d) ==
    /\ Designing(d, "run") \/ Designing(d, "rerun")
    /\ Move(d, "ready")
    /\ UNCHANGED <<Unfinished, running, left>>

ProposalInvalid(d) ==
    /\ \/ Designing(d, "run") /\ Move(d, "restart")
       \/ Designing(d, "rerun") /\ Move(d, "failed")
    /\ running' = running \ {<<d, "proposal">>}
    /\ UNCHANGED <<Unfinished, left>>

\* The Provider process fails and its run is recorded as failed.
ProposalFails(d) ==
    /\ Designing(d, "run") \/ Designing(d, "rerun")
    /\ Spend("failure")
    /\ Move(d, "failed")
    /\ running' = running \ {<<d, "proposal">>}
    /\ UNCHANGED Unfinished

\* Recording the start, or the failure, of a run conflicts.
ProposalConflicts(d) ==
    /\ \E s \in {"start", "restart", "run", "rerun"} : Designing(d, s)
    /\ Spend("conflict")
    /\ Move(d, "failed")
    /\ UNCHANGED <<Unfinished, running>>

KeepProposal(d) ==
    /\ At("collect") /\ batch[d] = "ready"
    /\ AddContent("proposal", d, TRUE)
    /\ running' = running \ {<<d, "proposal">>}
    /\ Move(d, "kept")
    /\ Then("collect")
    /\ UNCHANGED <<row, result, items, conflicts, host, local>>

\* Mutant: failures are ignored.
CollectedAnyway ==
    /\ At("collect")
    /\ \A d \in Designers : batch[d] \in {"out", "kept", "failed"}
    /\ pc' = "reveal"
    /\ UNCHANGED <<db, host, cancelled, batch, local, left>>

Collected ==
    /\ At("collect")
    /\ \A d \in Designers : batch[d] \in {"out", "kept", "failed"}
    /\ pc' = IF \E d \in Designers : batch[d] = "failed"
             THEN OnError("collect", FALSE) ELSE "reveal"
    /\ UNCHANGED <<db, host, cancelled, batch, local, left>>

Reveal ==
    /\ At("reveal")
    /\ IF Protocol = 2 /\ NumDesigners = 0
       THEN SetStatus("recording", cycle, 0) /\ Then("record")
       ELSE SetStatus("revealed", cycle, 0) /\ Then("conflict")
    /\ UNCHANGED <<result, contents, items, conflicts, running, host, batch, local>>

-----------------------------------------------------------------------------
(* deliberate.                                                             *)

\* Mutant: the Conflict is looked up under the wrong cycle.
OpenConflictsOfNext ==
    {i \in DOMAIN conflicts : conflicts[i].status = "open" /\ conflicts[i].cycle = cycle + 1}

OpenConflicts ==
    {i \in DOMAIN conflicts : conflicts[i].status = "open" /\ conflicts[i].cycle = cycle}

\* ensureConflict: the first open Conflict of this cycle, or a new one.
EnsureConflict ==
    /\ At("conflict")
    /\ \/ \E i \in OpenConflicts :
             /\ \A j \in OpenConflicts : i <= j
             /\ local' = [local EXCEPT !.conflict = i, !.round = round]
             /\ pc' = "round"
             /\ UNCHANGED <<conflicts, cancelled, left>>
       \/ /\ OpenConflicts = {}
          /\ conflicts' = Append(conflicts, [cycle |-> cycle, status |-> "open"])
          /\ local' = [local EXCEPT !.conflict = Len(conflicts) + 1, !.round = round]
          /\ Then("round")
    /\ UNCHANGED <<row, result, contents, items, running, host, batch>>

NextRound ==
    /\ At("round") /\ local.round < MaxRounds
    /\ SetStatus("deliberating", cycle, local.round + 1)
    /\ local' = [local EXCEPT !.round = @ + 1, !.seat = 1, !.agree = TRUE]
    /\ Then(IF NumDesigners = 0 THEN "close" ELSE "seat")
    /\ UNCHANGED <<result, contents, items, conflicts, running, host, batch>>

\* Mutant: Service.Run does not return after the question to the Human.
RoundsExhaustedGoOn ==
    /\ At("round") /\ local.round >= MaxRounds
    /\ SetStatus("needs_user_input", cycle, MaxRounds) /\ Then("record")
    /\ UNCHANGED <<result, contents, items, conflicts, running, host, batch, local>>

\* Mutant: the last round is not held.
RoundsExhaustedEarly ==
    /\ At("round") /\ local.round + 1 >= MaxRounds
    /\ IF Protocol = 2
       THEN SetStatus("recording", cycle, MaxRounds) /\ Then("record")
       ELSE SetStatus("needs_user_input", cycle, MaxRounds) /\ Then("exit")
    /\ UNCHANGED <<result, contents, items, conflicts, running, host, batch, local>>

RoundsExhausted ==
    /\ At("round") /\ local.round >= MaxRounds
    /\ IF Protocol = 2
       THEN SetStatus("recording", cycle, MaxRounds) /\ Then("record")
       ELSE SetStatus("needs_user_input", cycle, MaxRounds) /\ Then("exit")
    /\ UNCHANGED <<result, contents, items, conflicts, running, host, batch, local>>

CloseRound ==
    /\ At("close")
    /\ conflicts' = [conflicts EXCEPT ![local.conflict].status =
                        IF local.agree THEN "resolved" ELSE "open"]
    /\ Then(IF local.agree THEN "adopt" ELSE "round")
    /\ UNCHANGED <<row, result, contents, items, running, host, batch, local>>

Adopt ==
    /\ At("adopt")
    /\ SetStatus("recording", cycle, local.round)
    /\ Then("record")
    /\ UNCHANGED <<result, contents, items, conflicts, running, host, batch, local>>

-----------------------------------------------------------------------------
(* execute and executeStructured, for the seats that run one at a time.    *)

Runners == {"seat", "record", "verify", "review"}
ThePhase == CASE pc = "seat" -> "deliberation" [] pc = "record" -> "recording"
              [] pc = "verify" -> "verifying"  [] pc = "review" -> "recorder_review"
TheSeat  == CASE pc = "seat" -> local.seat [] pc = "verify" -> Verifier
              [] OTHER -> Recorder
TheRun   == <<TheSeat, ThePhase>>

AtRun(busy) == up /\ ~cancelled /\ pc \in Runners /\ local.busy = busy
\* Mutant: the content is added without the completed run.
RunStaysOpen == UNCHANGED running
EndRun == running' = running \ {TheRun}
\* Mutant: attempts counted from zero.
IdleFromZero(l) == [l EXCEPT !.busy = FALSE, !.attempt = 0]
Idle(l) == [l EXCEPT !.busy = FALSE, !.attempt = 1]

RunStarts ==
    /\ AtRun(FALSE)
    /\ running' = running \cup {TheRun}
    /\ local' = [local EXCEPT !.busy = TRUE]
    /\ Then(pc)
    /\ UNCHANGED <<row, result, contents, items, conflicts, host, batch>>

\* The answer does not decode or validate: one correction, then an error
\* (a Recorder review gives the Meeting back to the Human instead).
RunInvalid ==
    /\ AtRun(TRUE)
    /\ EndRun
    /\ IF local.attempt = 1
       THEN /\ local' = [local EXCEPT !.attempt = 2, !.busy = FALSE]
            /\ Then(pc)
       ELSE /\ local' = Idle(local)
            /\ Then(IF pc = "review" THEN "giveup" ELSE OnError(pc, FALSE))
    /\ UNCHANGED <<row, result, contents, items, conflicts, host, batch>>

RunFails ==
    /\ AtRun(TRUE) /\ Spend("failure")
    /\ EndRun
    /\ local' = Idle(local)
    /\ pc' = OnError(pc, FALSE)
    /\ UNCHANGED <<row, result, contents, items, conflicts, host, cancelled, batch>>

\* Mutant: the verdict of the last seat decides.
PositionLastDecides(ok) ==
    /\ At("seat") /\ local.busy
    /\ AddContent("position", local.seat, ok)
    /\ EndRun
    /\ IF local.seat < NumDesigners
       THEN local' = [Idle(local) EXCEPT !.seat = @ + 1] /\ Then("seat")
       ELSE local' = [Idle(local) EXCEPT !.agree = ok] /\ Then("close")
    /\ UNCHANGED <<row, result, items, conflicts, host, batch>>

\* ok: verdict "accept" with the canonical statement of the seats before.
Position(ok) ==
    /\ At("seat") /\ local.busy
    /\ AddContent("position", local.seat, ok)
    /\ EndRun
    /\ IF local.seat < NumDesigners
       THEN /\ local' = [Idle(local) EXCEPT !.seat = @ + 1, !.agree = @ /\ ok]
            /\ Then("seat")
       ELSE /\ local' = [Idle(local) EXCEPT !.agree = @ /\ ok]
            /\ Then("close")
    /\ UNCHANGED <<row, result, items, conflicts, host, batch>>

Recorded ==
    /\ At("record") /\ local.busy
    /\ AddContent(ResultKind, Recorder, TRUE)
    /\ EndRun
    /\ local' = Idle(local)
    /\ Then("itemize")
    /\ UNCHANGED <<row, result, items, conflicts, host, batch>>

\* Mutant: the Result is published before its candidates.
ItemizeLater ==
    /\ At("itemize")
    /\ result' = Len(contents)
    /\ SetStatus("awaiting_user_review", cycle, round) /\ Then("exit")
    /\ UNCHANGED <<contents, items, conflicts, running, host, batch, local>>

\* The candidates, the Result pointer and the status, in one Append.
Itemize ==
    /\ At("itemize")
    /\ \E r \in DOMAIN contents :
          /\ contents[r].kind = ResultKind
          /\ \A i \in DOMAIN contents : contents[i].kind = ResultKind => i <= r
          /\ result' = r
          /\ items' = [i \in DOMAIN items \cup {r} |->
                          IF i = r THEN "proposed" ELSE items[i]]
    /\ IF Protocol = 2
       THEN SetStatus("awaiting_user_review", cycle, round) /\ Then("exit")
       ELSE SetStatus("verifying", cycle, round) /\ Then("verify")
    /\ UNCHANGED <<contents, conflicts, running, host, batch, local>>

Verified(clear) ==
    /\ At("verify") /\ local.busy
    /\ AddContent("verification", Verifier, clear)
    /\ EndRun
    /\ local' = [Idle(local) EXCEPT !.agree = clear]
    /\ Then("observe")
    /\ UNCHANGED <<row, result, items, conflicts, host, batch>>

\* Mutant: the verdict is not looked at.
ObserveAnyway ==
    /\ At("observe")
    /\ SetStatus("awaiting_human", cycle, round)
    /\ Then("exit")
    /\ UNCHANGED <<result, contents, items, conflicts, running, host, batch, local>>

\* verifySourceObservation, then the verdict of the Verifier.
Observe ==
    /\ At("observe")
    /\ SetStatus(IF local.agree THEN "awaiting_human" ELSE "needs_user_input",
                 cycle, round)
    /\ Then("exit")
    /\ UNCHANGED <<result, contents, items, conflicts, running, host, batch, local>>

SourceChanged ==
    /\ At("observe") /\ Spend("failure")
    /\ pc' = OnError("observe", FALSE)
    /\ UNCHANGED <<db, host, cancelled, batch, local>>

-----------------------------------------------------------------------------
(* recorderReview.                                                         *)

\* requiresSwarmReview leaves only "reconvene" valid.
Reviewed(kind, next) ==
    /\ At("review") /\ local.busy
    /\ items[result] = "rejected" => next = "reopen"
    /\ AddContent(kind, Recorder, TRUE)
    /\ EndRun
    /\ local' = Idle(local)
    /\ Then(next)
    /\ UNCHANGED <<row, result, items, conflicts, host, batch>>

\* After an answer, or after two invalid decisions, the same Result is back.
BackToReview ==
    /\ At("answered") \/ At("giveup")
    /\ SetStatus("awaiting_user_review", cycle, round)
    /\ Then("exit")
    /\ UNCHANGED <<result, contents, items, conflicts, running, host, batch, local>>

\* Mutant: the cycle does not advance.
ReconveneSameCycle ==
    /\ At("reopen")
    /\ SetStatus("reconvening", cycle, 0)
    /\ Then("exit")
    /\ UNCHANGED <<result, contents, items, conflicts, running, host, batch, local>>

\* The enqueue that follows is dropped: this Meeting is in the queued map.
Reconvene ==
    /\ At("reopen")
    /\ SetStatus("reconvening", cycle + 1, 0)
    /\ Then("exit")
    /\ UNCHANGED <<result, contents, items, conflicts, running, host, batch, local>>

-----------------------------------------------------------------------------
(* The ends of Service.Run.                                                *)

\* Whether the step Service.Run is about to take appends.
Appends ==
    CASE pc = "interrupt" -> running # {}
      [] pc = "dispatch"  -> status = "reconvening"
      [] pc = "prepare"   -> status = "preparing"
      [] pc = "collect"   -> \E d \in Designers : batch[d] = "ready"
      [] pc = "conflict"  -> OpenConflicts = {}
      [] OTHER            -> pc \notin {"idle", "batch", "exit"}

\* Another writer of the Project committed first.
Conflict ==
    /\ up /\ Appends /\ Spend("conflict")
    /\ pc' = OnError(pc, cancelled)
    /\ UNCHANGED <<db, host, cancelled, batch, local>>

\* failMeeting, with a context that cannot be cancelled.
Fail ==
    /\ up /\ pc = "failing"
    /\ SetStatus("failed", cycle, round)
    /\ pc' = "exit"
    /\ UNCHANGED <<result, contents, items, conflicts, running, host, cancelled,
                   batch, local, left>>

\* Service.Run has returned; the coordinator deletes its queued entry.
Return ==
    /\ up /\ pc = "exit"
    /\ pc' = "idle" /\ queued' = FALSE /\ local' = Fresh
    /\ UNCHANGED <<db, up, caller, cancelled, batch, left>>

-----------------------------------------------------------------------------
Command ==
    \/ Start \/ Answer \/ Approve
    \/ \E d \in {"selected", "rejected", "deferred"} :
          Continue(d) \/ \E i \in DOMAIN items : Disposition(i, d)

Work ==
    \/ Dequeue \/ Interrupt \/ Dispatch \/ Prepare \/ OpenBatch
    \/ Collected \/ Reveal \/ EnsureConflict \/ NextRound \/ RoundsExhausted
    \/ CloseRound \/ Adopt \/ RunStarts \/ RunInvalid \/ Recorded \/ Itemize
    \/ Observe \/ BackToReview \/ Reconvene \/ Fail \/ Return
    \/ \E ok \in BOOLEAN : Position(ok) \/ Verified(ok)
    \/ Reviewed("recorder_answer", "answered")
    \/ Reviewed("meeting_result", "itemize")
    \/ (cycle < MaxCycles /\ Reviewed("recorder_opening", "reopen"))
    \/ \E d \in Designers :
          ProposalStarts(d) \/ ProposalValid(d) \/ ProposalInvalid(d) \/ KeepProposal(d)

Trouble ==
    \/ Crash \/ Cancel \/ Disconnect \/ Conflict
    \/ PrepareFails \/ RunFails \/ SourceChanged
    \/ \E d \in Designers : ProposalFails(d) \/ ProposalConflicts(d)

Next == Command \/ Enqueue \/ Work \/ Trouble \/ Exit \/ Boot

(* The coordinator goroutine runs when it can, a Provider call ends (by    *)
(* its thirty minute limit at the latest), a handler that has committed    *)
(* goes on.  No command and no restart is promised.                        *)
Fairness == WF_vars(Work) /\ WF_vars(Enqueue)

Spec == Init /\ [][Next]_vars /\ Fairness
-----------------------------------------------------------------------------
(* Types: every variable, with the counters of the bounds.                 *)
Places == {"idle", "interrupt", "dispatch", "prepare", "batch", "collect", "reveal",
           "conflict", "round", "seat", "close", "adopt", "record", "itemize",
           "verify", "observe", "review", "answered", "giveup", "reopen",
           "failing", "exit"}
Dispositions == {"proposed", "selected", "rejected", "deferred"}

TypeOK ==
    /\ status \in WorkerOwned \cup HumanOwned \cup Final
    /\ cycle \in Nat /\ round \in Nat /\ result \in Nat
    /\ contents \in Seq(Content)
    /\ DOMAIN items \subseteq Nat
    /\ \A i \in DOMAIN items : items[i] \in Dispositions
    /\ conflicts \in Seq([cycle : Nat, status : {"open", "resolved"}])
    /\ running \subseteq Seats \X Phases
    /\ up \in BOOLEAN /\ cancelled \in BOOLEAN /\ queued \in BOOLEAN
    /\ caller \in {"none", "enqueue"}
    /\ pc \in Places
    /\ batch \in [Designers -> {"out", "start", "run", "restart", "rerun",
                                "ready", "kept", "failed"}]
    /\ local \in [conflict : Nat, round : Nat, seat : 1..(NumDesigners + 1), agree : BOOLEAN,
                  attempt : {1, 2}, busy : BOOLEAN]
    /\ left \in [{"crash", "shutdown", "conflict", "failure", "disconnect"} -> Nat]

(* Sealed proposals: nobody takes a position before every designer has a   *)
(* persisted proposal (of this cycle; protocol v1 asks for proposals in    *)
(* its first cycle only).                                                  *)
Proposes(i, d, c) ==
    contents[i].kind = "proposal" /\ contents[i].seat = d /\ contents[i].cycle = c

RevealBarrier ==
    \A i \in DOMAIN contents : contents[i].kind = "position" =>
        \A d \in Designers : \E j \in 1..(i - 1) :
            Proposes(j, d, IF Protocol = 2 THEN contents[i].cycle ELSE 1)

(* Killing the daemon before or after any commit produces no second        *)
(* proposal of a seat in a cycle and no second position of it in a round.  *)
OneVoicePerRound ==
    \A i, j \in DOMAIN contents :
        (contents[i].kind \in {"proposal", "position"} /\ i # j) =>
            \/ contents[i].kind # contents[j].kind
            \/ contents[i].seat # contents[j].seat
            \/ contents[i].cycle # contents[j].cycle
            \/ contents[i].kind = "position" /\ contents[i].round # contents[j].round

(* While the Human owns the Meeting, or nobody does, Service.Run has       *)
(* nothing left to commit and no Provider run is open: a command never     *)
(* races with the daemon on its own Meeting.  Two exceptions: a failed     *)
(* Meeting may leave designers behind, for ensureProposals does not wait   *)
(* for them; a shutdown that hits the read after the last commit makes     *)
(* Service.Run fail the Meeting it has just handed over.                   *)
OneOwner ==
    status \in HumanOwned \cup Final =>
        /\ pc \in {"idle", "exit"} \/ (cancelled /\ pc = "failing")
        /\ running = {} \/ status = "failed"

(* The Human is shown a Result only with the disposition of its items: the *)
(* pointer names an existing Result, and one that was itemized.            *)
ResultIsItemized ==
    status \in {"awaiting_user_review", "recorder_reviewing", "reconvening",
               "verifying", "awaiting_human", "concluded"} =>
        /\ result \in DOMAIN contents \cap DOMAIN items
        /\ contents[result].kind = ResultKind

(* Unanimity is read from the positions of one round, also when rounds     *)
(* were cut short by a restart; protocol v2 records dissent once the       *)
(* rounds are exhausted.                                                   *)
Unanimous ==
    \A d \in Designers : \E i \in DOMAIN contents :
        /\ contents[i].kind = "position" /\ contents[i].seat = d /\ contents[i].ok
        /\ contents[i].cycle = cycle /\ contents[i].round = round

ConsensusBeforeRecording ==
    status = "recording" => Unanimous \/ (Protocol = 2 /\ round = MaxRounds)

(* The Human ratifies what the Verifier cleared: its latest verdict is     *)
(* clear and was given after the current Result.                           *)
Cleared ==
    \E v \in DOMAIN contents :
        /\ v > result /\ contents[v].kind = "verification" /\ contents[v].ok
        /\ \A i \in DOMAIN contents : i > v => contents[i].kind # "verification"

ClearedByVerifier == status = "awaiting_human" => Cleared

(* The discussion of a cycle is about one blocking Conflict at a time.     *)
OneOpenConflict ==
    \A i, j \in DOMAIN conflicts :
        (i # j /\ conflicts[i].status = "open" /\ conflicts[j].status = "open") =>
            conflicts[i].cycle # conflicts[j].cycle

(* Rounds and cycles only advance: a restart never repeats a round.        *)
RoundsAdvance ==
    [][cycle' > cycle \/ (cycle' = cycle /\ round' >= round)]_<<cycle, round>>

(* A Meeting that has ended stays as it ended.  The exception is the one   *)
(* of OneOwner: a Meeting concluded while Service.Run is on its way to     *)
(* failMeeting, which only looks for the status "failed".                  *)
EndIsFinal ==
    [][\/ status \notin Final
       \/ cancelled /\ pc = "failing" /\ status' = "failed" /\ UNCHANGED items
      ]_<<status, items>>

(* Who has proposed, spoken in this round and accepted, read off what was  *)
(* persisted; whether the Result on offer is cleared, or refused.          *)
HaveProposed == {d \in Designers : \E i \in DOMAIN contents :
                    Proposes(i, d, IF Protocol = 2 THEN cycle ELSE 1)}
Spoke(i)     == /\ contents[i].kind = "position"
                /\ contents[i].cycle = cycle /\ contents[i].round = round
HaveSpoken   == {d \in Designers : \E i \in DOMAIN contents : Spoke(i) /\ contents[i].seat = d}
HaveAccepted == {d \in Designers : \E i \in DOMAIN contents :
                    Spoke(i) /\ contents[i].seat = d /\ contents[i].ok}
Refused == Protocol = 2 /\ result \in DOMAIN items /\ items[result] = "rejected"

(* A Meeting implements the protocol its participants know: a crash, a     *)
(* shutdown, a stream conflict or a repeated Provider run between any two  *)
(* commits is invisible to them, or fails the Meeting, and never skips,    *)
(* repeats or reorders a turn of the protocol.                             *)
Meets == INSTANCE MeetingProtocol WITH
            proposed <- HaveProposed, spoken <- HaveSpoken, accepted <- HaveAccepted,
            cleared <- Cleared, refused <- Refused, stopping <- cancelled
ProtocolKept == Meets!Spec

(* The protocol guarantees that every cycle ends: a Meeting the            *)
(* coordinator has accepted is handed to the Human or ends, unless the     *)
(* process stops first or another writer of the Project interferes.        *)
CycleEnds ==
    (pc = "idle" /\ queued) ~>
        \/ status \notin WorkerOwned \/ status = "reconvening"
        \/ cancelled \/ ~up \/ left.conflict < MaxConflicts
-----------------------------------------------------------------------------
(* What the design documents say and the code does not do.                 *)

(* docs/design/milestone-1a-meeting-backend.md:142: the Human's input      *)
(* resumes the same Conflict; no second Conflict is opened while one is    *)
(* open.  ensureConflict looks for an open Conflict of the new cycle only. *)
SameConflictIsResumed ==
    [][Len(conflicts') > Len(conflicts) =>
          \A i \in DOMAIN conflicts : conflicts[i].status # "open"]_conflicts

(* milestone-1a-meeting-backend.md:126: one blocking Conflict per cycle.   *)
(* A process that dies between the resolved Conflict and the status        *)
(* "recording" opens a second one when it comes back.                      *)
OneConflictPerCycle ==
    \A i, j \in DOMAIN conflicts : i # j => conflicts[i].cycle # conflicts[j].cycle

(* docs/design/milestone-1b-review-loop-webui.md:47, 54: after "reconvene" *)
(* the next Cycle begins.  The enqueue of applyRecorderReview is dropped.  *)
ReconveneBegins ==
    status = "reconvening" ~> status # "reconvening" \/ cancelled \/ ~up

(* milestone-1a-meeting-backend.md:118: a daemon restart resumes from the  *)
(* last committed barrier.  Some steps answer a cancelled context by       *)
(* failing the Meeting, which no restart resumes.                          *)
ShutdownIsNotFailure ==
    [][(pc # "failing" /\ pc' = "failing") => ~cancelled']_pc

(* milestone-1a-meeting-backend.md:112: the state chart has no way out of  *)
(* concluded.  A shutdown in the read after the Result was handed over     *)
(* makes failMeeting overwrite what the Human approves in between.         *)
ConcludedStays == [][status # "concluded"]_status

(* milestone-1a-meeting-backend.md:114: every external block ends in       *)
(* failed, needs_user_input or recovery_required.  A stream conflict may   *)
(* end Service.Run in a status the daemon owns and never returns to.       *)
BlockIsShown ==
    (pc = "idle" /\ queued) ~>
        status \notin WorkerOwned \/ cancelled \/ ~up
=============================================================================
