------------------------------- MODULE Review -------------------------------
(***************************************************************************)
(* The decisions on a Result, candidate by candidate: the commands         *)
(* Disposition (protocol v1), Review, Answer and Handoff of                *)
(* internal/meeting/service.go, called by several HTTP handlers, and the   *)
(* Recorder's steps, which publish Results and react to a Review.          *)
(*                                                                         *)
(* A command first runs InspectMeeting: the meetings row, the candidates   *)
(* and, last, the stream version, each a query of its own.  It then        *)
(* decides on what it has read, and its Append succeeds if nothing was     *)
(* committed since it read the version.  Nothing notices a commit between  *)
(* its first and its last query: its view is torn.                         *)
(*                                                                         *)
(* A version is only ever compared for equality, so a commit sends every   *)
(* handler that has already read it back with stream_conflict.  Between    *)
(* recording and reconvening the Meeting is one step (see Meeting.tla).    *)
(***************************************************************************)
EXTENDS Naturals, Sequences, SequencesExt

CONSTANTS Handlers,     \* HTTP requests being served
          Texts,        \* what a Result may say; its digest
          None,         \* no digest
          MaxContents,  \* bound: contents of the kind meeting_result
          MaxItems,     \* bound: candidates of one Result
          MaxCandidates,\* bound: candidates of the Meeting
          MaxCycles,    \* bound: cycles
          MaxTorn,      \* bound: commands that commit on a torn view
          MaxCrashes    \* bound: deaths of the process

ASSUME ReviewAssumption ==
    /\ None \notin Texts
    /\ {MaxContents, MaxItems, MaxCandidates, MaxCycles, MaxTorn,
        MaxCrashes} \subseteq Nat

VARIABLES meeting,  \* the meetings row
          contents, \* meeting_contents of the kind meeting_result, by created_at
          cands,    \* semantic_candidates
          view,     \* where each handler is in InspectMeeting and what it read
          work,     \* where the worker is in recordV2 or recorderReview
          torn,     \* history: commands committed on a torn view
          handed,   \* history: what Handoff has returned
          crashes

db   == <<meeting, contents, cands>>
hist == <<handed, crashes>>
vars == <<db, view, work, torn, hist>>

Working == {"recording", "verifying", "recorder_reviewing", "reconvening",
            "deliberating"}

Decision == [design : {"accepted", "rejected", "deferred"},
             context : {"persist", "result_only", "none"}]

\* recorderOutput: a text and, for each candidate, whether its kind is
\* boundary or invariant.
Output == [text : Texts, hard : BoundedSeq(BOOLEAN, MaxItems)]

Nothing == [pc |-> "idle", row |-> None, cands |-> <<>>, torn |-> FALSE]
Free    == [pc |-> "free"]

Init ==
    /\ \E p \in {1, 2} :
         meeting = [protocol |-> p, status |-> "recording", cycle |-> 1,
                    result |-> 0, digest |-> None, approved |-> None]
    /\ contents = <<>> /\ cands = <<>>
    /\ view = [h \in Handlers |-> Nothing]
    /\ work = Free
    /\ torn = 0 /\ handed = {} /\ crashes = 0

-----------------------------------------------------------------------------
(* Append.                                                                 *)

\* A commit in the middle of its InspectMeeting, while the bound allows one.
Torn(h) == IF torn < MaxTorn THEN [view[h] EXCEPT !.torn = TRUE] ELSE Nothing

\* Mutant: the version is not compared.
OthersUnchecked(keep) ==
    [h \in Handlers |->
        CASE h \in keep -> Nothing
          [] h \notin keep /\ view[h].pc \in {"row", "cands"} -> Torn(h)
          [] OTHER -> view[h]]

\* What a commit means to the handlers: done has returned, whoever knows the
\* version will conflict, whoever is still reading holds a torn view.
Others(done) ==
    [h \in Handlers |->
        CASE h \in done \/ view[h].pc = "ready" -> Nothing
          [] h \notin done /\ view[h].pc \in {"row", "cands"} -> Torn(h)
          [] OTHER -> view[h]]

\* The handler h commits, on what it has read.
Commits(h) ==
    /\ torn' = torn + IF view[h].torn THEN 1 ELSE 0
    /\ torn' <= MaxTorn
    /\ view' = Others({h})
    /\ UNCHANGED <<work, hist>>

\* The worker commits, after a fresh InspectMeeting.
WorkerCommits(next) ==
    /\ view' = Others({})
    /\ work' = next
    /\ UNCHANGED <<torn, hist>>

SetStatus(s) == meeting' = [meeting EXCEPT !.status = s]

-----------------------------------------------------------------------------
(* InspectMeeting of the handler h.  No command accepts a row in a status   *)
(* of the worker, so those are not read.                                   *)

ReadRow(h) ==
    /\ view[h].pc = "idle"
    /\ meeting.status \notin Working
    /\ view' = [view EXCEPT ![h] = [Nothing EXCEPT !.pc = "row", !.row = meeting]]
    /\ UNCHANGED <<db, work, torn, hist>>

ReadCandidates(h) ==
    /\ view[h].pc = "row"
    /\ view' = [view EXCEPT ![h].pc = "cands", ![h].cands = cands]
    /\ UNCHANGED <<db, work, torn, hist>>

ReadVersion(h) ==
    /\ view[h].pc = "cands"
    /\ view' = [view EXCEPT ![h].pc = "ready"]
    /\ UNCHANGED <<db, work, torn, hist>>

\* A query fails, or the command is refused.
Return(h) ==
    /\ view[h].pc # "idle"
    /\ view' = [view EXCEPT ![h] = Nothing]
    /\ UNCHANGED <<db, work, torn, hist>>

Knows(h, status) == view[h].pc = "ready" /\ view[h].row.status = status

-----------------------------------------------------------------------------
(* Commands.                                                               *)

Answer(h) ==
    /\ Knows(h, "needs_user_input")
    /\ view[h].row.cycle < MaxCycles
    /\ meeting' = [meeting EXCEPT !.status = "deliberating",
                                  !.cycle = view[h].row.cycle + 1]
    /\ Commits(h)
    /\ UNCHANGED <<contents, cands>>

\* Who else is still proposed, as the handler knows it.
Remaining(h, i) ==
    {j \in DOMAIN view[h].cands \ {i} : view[h].cands[j].status = "proposed"}

\* The reducer of SemanticCandidateDispositioned.
Dispositioned(i, d) == [cands EXCEPT ![i].status = d]

\* Protocol v1: one candidate; the last one that is decided concludes.
Disposition(h, i, d) ==
    /\ Knows(h, "awaiting_human")
    /\ i \in DOMAIN view[h].cands /\ view[h].cands[i].status = "proposed"
    /\ cands' = Dispositioned(i, d)
    /\ meeting' = IF Remaining(h, i) # {} THEN meeting
                  ELSE [meeting EXCEPT !.status = "concluded",
                                       !.cycle = view[h].row.cycle,
                                       !.digest = view[h].row.digest]
    /\ Commits(h)
    /\ UNCHANGED contents

ValidReviewItem(d) ==
    IF d.design = "accepted" THEN d.context \in {"persist", "result_only"}
                             ELSE d.context = "none"

\* Mutant: a rejected item may be accepted later.
UnlockedPersistOnly(old, d) ==
    old.context = "persist" => d.design = "accepted" /\ d.context = "persist"

\* "persisted project context is locked", "rejected semantic items cannot be
\* silently reintroduced"
Unlocked(old, d) ==
    /\ old.context = "persist" => d.design = "accepted" /\ d.context = "persist"
    /\ old.design = "rejected" => d.design = "rejected"

\* The candidates of the current Result, as the handler knows it.
Pending(h) == {i \in DOMAIN view[h].cands : view[h].cands[i].of = view[h].row.result}

CandidateStatus(design) ==
    CASE design = "accepted" -> "selected"
      [] design = "rejected" -> "rejected"
      [] design = "deferred" -> "deferred"

\* validateMeetingEventPayload of MeetingReviewed, which Append and Reconcile
\* both run: Append commits no fact the next start would refuse.
ValidReviewed(items) ==
    /\ items # <<>>
    /\ \A i \in DOMAIN items :
         items[i].context = "persist" => items[i].design = "accepted"

\* The reducer of MeetingReviewed.
Reviewed(reviewed, items) ==
    [i \in DOMAIN cands |->
        IF i \in reviewed
        THEN [cands[i] EXCEPT !.design = items[i].design,
                              !.context = items[i].context,
                              !.status = CandidateStatus(items[i].design)]
        ELSE cands[i]]

\* The reducer of MeetingResultApproved, which only an approval appends.
Approved(h, action) ==
    IF action = "approve" THEN view[h].row.digest ELSE meeting.approved

\* What Review demands of its input, candidate by candidate.
Accepts(h, action, items) ==
    /\ view[h].row.protocol = 2
    /\ \A i \in Pending(h) :
         /\ ValidReviewItem(items[i])
         /\ action = "approve" => items[i].design = "accepted"
         /\ Unlocked(view[h].cands[i], items[i])

\* Protocol v2: all candidates of the current Result at once.
Review(h, action, items) ==
    /\ Knows(h, "awaiting_user_review")
    /\ Accepts(h, action, items)
    /\ ValidReviewed(items)
    /\ cands' = Reviewed(Pending(h), items)
    /\ meeting' =
         [meeting EXCEPT !.cycle = view[h].row.cycle, !.result = view[h].row.result,
                         !.digest = view[h].row.digest,
                         !.status = IF action = "approve" THEN "concluded"
                                                          ELSE "recorder_reviewing",
                         !.approved = Approved(h, action)]
    /\ Commits(h)
    /\ UNCHANGED contents

\* What the coding agent is given: the approved text and its context.
Handoff(h) ==
    /\ Knows(h, "concluded")
    /\ view[h].row.approved # None
    /\ handed' = handed \cup
         {[text |-> view[h].row.approved, of |-> view[h].row.result,
           context |-> {i \in DOMAIN view[h].cands :
                          view[h].cands[i].context = "persist"}]}
    /\ view' = [view EXCEPT ![h] = Nothing]
    /\ UNCHANGED <<db, work, torn, crashes>>

-----------------------------------------------------------------------------
(* The worker.                                                             *)

\* validateRecorderResult, of what the other properties depend on.
ValidResult(output) == output.hard # <<>>

Fits(output) ==
    /\ Len(contents) < MaxContents
    /\ Len(cands) + Len(output.hard) <= MaxCandidates

\* What record and persistResultCandidates add for an output.
Added(output, of) ==
    [i \in DOMAIN output.hard |->
        [of |-> of, hard |-> output.hard[i], status |-> "proposed",
         design |-> "unreviewed", context |-> "none"]]

\* record: candidates refer to the contents they were drawn from, and the
\* Result is not pointed to.
Record(output) ==
    /\ meeting.protocol = 1 /\ meeting.status = "recording" /\ work = Free
    /\ ValidResult(output) /\ Fits(output)
    /\ cands' = cands \o Added(output, 0)
    /\ meeting' = [meeting EXCEPT !.status = "verifying", !.digest = output.text]
    /\ WorkerCommits(Free)
    /\ UNCHANGED contents

\* verify: clear, or blocking findings for the Human.
Verify ==
    /\ meeting.status = "verifying"
    /\ \/ SetStatus("awaiting_human")
       \/ SetStatus("needs_user_input")
    /\ WorkerCommits(Free)
    /\ UNCHANGED <<contents, cands>>

\* Mutant: the Meeting points to the Result before its candidates are there.
AddResultPointed(output) ==
    /\ contents' = Append(contents, [text |-> output.text, cycle |-> meeting.cycle])
    /\ meeting' = [meeting EXCEPT !.status = "awaiting_user_review",
                                  !.result = Len(contents) + 1, !.digest = output.text]
    /\ WorkerCommits([pc |-> "items", output |-> output])
    /\ UNCHANGED cands

\* persistRunResult of recordV2, or of a patch: the content of the Result.
AddResult(output) ==
    /\ contents' = Append(contents, [text |-> output.text, cycle |-> meeting.cycle])
    /\ WorkerCommits([pc |-> "items", output |-> output])
    /\ UNCHANGED <<meeting, cands>>

RecordV2(output) ==
    /\ meeting.protocol = 2 /\ meeting.status = "recording" /\ work = Free
    /\ ValidResult(output) /\ Fits(output)
    /\ AddResult(output)

\* Mutant: the oldest content with the digest.
ContentByDigestOldest(text) ==
    CHOOSE i \in DOMAIN contents :
        contents[i].text = text /\ \A j \in 1..(i - 1) : contents[j].text # text

\* contentByDigest searches from the end: a Result may say what one said before.
ContentByDigest(text) ==
    CHOOSE i \in DOMAIN contents :
        contents[i].text = text /\ \A j \in (i + 1)..Len(contents) : contents[j].text # text

\* persistResultCandidates: the candidates, the pointer and the status.
PersistResultCandidates ==
    /\ work.pc = "items"
    /\ cands' = cands \o Added(work.output, ContentByDigest(work.output.text))
    /\ meeting' = [meeting EXCEPT !.status = "awaiting_user_review",
                                  !.result = ContentByDigest(work.output.text),
                                  !.digest = work.output.text]
    /\ WorkerCommits(Free)
    /\ UNCHANGED contents

\* Mutant: a rejection counts only while its item is in the project context.
RequiresSwarmOfContext ==
    \E i \in DOMAIN cands :
        /\ cands[i].of = meeting.result
        /\ cands[i].hard /\ cands[i].context = "persist"
        /\ cands[i].design = "rejected"

\* requiresSwarmReview, on the snapshot Service.Run has read.
RequiresSwarmReview ==
    \E i \in DOMAIN cands :
        /\ cands[i].of = meeting.result
        /\ cands[i].hard /\ cands[i].design = "rejected"

\* recorderReview starts its Provider run.
ReviewStarts ==
    /\ meeting.status = "recorder_reviewing" /\ work = Free
    /\ work' = [pc |-> "review", swarm |-> RequiresSwarmReview]
    /\ UNCHANGED <<db, view, torn, hist>>

\* applyRecorderReview "answer", or two invalid decisions in a row.
BackToReview ==
    /\ work.pc = "review"
    /\ SetStatus("awaiting_user_review")
    /\ WorkerCommits(Free)
    /\ UNCHANGED <<contents, cands>>

Patch(output) ==
    /\ work.pc = "review" /\ ~work.swarm
    /\ ValidResult(output) /\ Fits(output)
    /\ AddResult(output)

Reconvene ==
    /\ work.pc = "review"
    /\ meeting.cycle < MaxCycles
    /\ meeting' = [meeting EXCEPT !.status = "reconvening", !.cycle = @ + 1]
    /\ WorkerCommits(Free)
    /\ UNCHANGED <<contents, cands>>

\* Proposals and deliberation of a cycle: agreement, or the rounds are over.
Deliberate ==
    /\ meeting.status \in {"reconvening", "deliberating"} /\ work = Free
    /\ \/ SetStatus("recording")
       \/ meeting.protocol = 1 /\ SetStatus("needs_user_input")
    /\ WorkerCommits(Free)
    /\ UNCHANGED <<contents, cands>>

\* failMeeting, wherever Service.Run is.
FailMeeting ==
    /\ meeting.status \in Working
    /\ SetStatus("failed")
    /\ WorkerCommits(Free)
    /\ UNCHANGED <<contents, cands>>

\* The process dies and starts again; the worker resumes from the status.
Crash ==
    /\ crashes < MaxCrashes
    /\ crashes' = crashes + 1
    /\ view' = [h \in Handlers |-> Nothing]
    /\ work' = Free
    /\ UNCHANGED <<db, torn, handed>>

-----------------------------------------------------------------------------
Command(h) ==
    \/ Answer(h) \/ Handoff(h)
    \/ \E i \in 1..MaxCandidates, d \in {"selected", "rejected", "deferred"} :
         Disposition(h, i, d)
    \/ \E action \in {"approve", "continue"}, items \in [Pending(h) -> Decision] :
         Review(h, action, items)

Work ==
    \/ Verify \/ PersistResultCandidates \/ ReviewStarts \/ BackToReview
    \/ Reconvene \/ Deliberate \/ FailMeeting
    \/ \E output \in Output : Record(output) \/ RecordV2(output) \/ Patch(output)

Next ==
    \/ Work \/ Crash
    \/ \E h \in Handlers :
         ReadRow(h) \/ ReadCandidates(h) \/ ReadVersion(h) \/ Return(h) \/ Command(h)

Spec == Init /\ [][Next]_vars

-----------------------------------------------------------------------------
Content == [text : Texts, cycle : Nat]

Candidate == [of : Nat, hard : BOOLEAN,
              status : {"proposed", "selected", "rejected", "deferred"},
              design : {"unreviewed", "accepted", "rejected", "deferred"},
              context : {"persist", "result_only", "none"}]

Row == [protocol : {1, 2}, result : Nat, cycle : Nat,
        status : Working \cup {"awaiting_human", "awaiting_user_review",
                               "needs_user_input", "concluded", "failed"},
        digest : Texts \cup {None}, approved : Texts \cup {None}]

View == [pc : {"idle", "row", "cands", "ready"}, row : Row \cup {None},
         cands : Seq(Candidate), torn : BOOLEAN]

TypeOK ==
    /\ meeting \in Row
    /\ contents \in Seq(Content)
    /\ cands \in Seq(Candidate)
    /\ view \in [Handlers -> View]
    /\ work \in [pc : {"free"}] \cup [pc : {"items"}, output : Output]
                                \cup [pc : {"review"}, swarm : BOOLEAN]
    /\ torn \in 0..MaxTorn
    /\ crashes \in 0..MaxCrashes

\* No command has committed on a torn view.
Sound == torn = 0

(* What was approved is whole and stays: docs/design/milestone-1b-review-  *)
(* loop-webui.md:63 "用户 `approve` 完整 Result 时，每个设计条目都必须接受" *)
(* (every item must be accepted).  The approved digest is that of the      *)
(* Result pointed to, nothing is open in it, and what Handoff returned to  *)
(* a coding agent is what it would return now.                             *)
ApprovedIsWhole ==
    Sound /\ meeting.approved # None =>
        /\ meeting.status = "concluded"
        /\ contents[meeting.result].text = meeting.approved
        /\ \A i \in DOMAIN cands : cands[i].of = meeting.result =>
             cands[i].design = "accepted" /\ cands[i].status = "selected"
        /\ \A given \in handed :
             given = [text |-> meeting.approved, of |-> meeting.result,
                      context |-> {i \in DOMAIN cands : cands[i].context = "persist"}]

(* docs/decisions/0004-sqlite-local-single-writer.md:57: "并发提交基于同一  *)
(* 旧 revision 时，至少一个 command 明确冲突或按最新状态再次校验" (of two   *)
(* commits based on one old revision at least one conflicts or validates   *)
(* again).  Of two handlers that decide the last two candidates one must   *)
(* see the decision of the other and conclude the Meeting.                 *)
SomethingLeft ==
    meeting.protocol = 1 /\ meeting.status = "awaiting_human" =>
        \E i \in DOMAIN cands : cands[i].status = "proposed"

(* A Result is decided as a whole.  Protocol v1 concludes with the last    *)
(* candidate that is decided, of any cycle, whichever handlers decide      *)
(* them: a Meeting that awaits the Human has something left to decide (or  *)
(* no command would ever conclude it), a concluded one has nothing left.   *)
(* In protocol v2 no Result is ever reviewed in part, although the         *)
(* Recorder may publish the text of an earlier one again.                  *)
DecidedAsAWhole ==
    Sound =>
        /\ SomethingLeft
        /\ meeting.protocol = 1 /\ meeting.status = "concluded" =>
             \A i \in DOMAIN cands : cands[i].status # "proposed"
        /\ meeting.protocol = 2 => \A i, j \in DOMAIN cands :
             cands[i].of = cands[j].of =>
                 (cands[i].design = "unreviewed" <=> cands[j].design = "unreviewed")

(* A boundary or invariant the Human rejected goes back to the seats: the  *)
(* next Result with candidates belongs to a later cycle, whether the       *)
(* Recorder answers, fails, dies or is asked again in between              *)
(* (requiresSwarmReview, service.go:1021).                                 *)
RejectionReachesSwarm ==
    Sound => \A i, j \in DOMAIN cands :
        cands[i].hard /\ cands[i].design = "rejected" /\ cands[j].of > cands[i].of =>
            contents[cands[j].of].cycle > contents[cands[i].of].cycle

(* The Human is never stuck with a Result: wherever the process died       *)
(* between the commits of a Result, whatever was reviewed before, and      *)
(* whatever moments a handler's view is made of, the locks on items that   *)
(* are rejected or in the project context (service.go:420, 424) and the    *)
(* validation of Append (store/reconcile.go:335) leave a Review that       *)
(* continues, the only way out of a Result that must not be approved.      *)
ReviewIsPossible ==
    \A h \in Handlers : Knows(h, "awaiting_user_review") =>
        \E items \in [Pending(h) -> Decision] :
            Accepts(h, "continue", items) /\ ValidReviewed(items)

(* docs/design/persistence-state-map.md:104: "旧 Result、用户处置和          *)
(* rejected item 不原位改写" (old Results, the user's dispositions and      *)
(* rejected items are not rewritten).  A candidate that is rejected stays  *)
(* rejected, one in the project context stays there, and the candidates of *)
(* a Result that was superseded never change; in protocol v1 no decision   *)
(* does.  The exception is the step of a command that commits on a torn    *)
(* view: it may overwrite what it has not seen, a rejection too.  Steps    *)
(* that follow such a command are held to the property again.              *)
DecisionsStay ==
    [][torn' = torn => \A i \in DOMAIN cands :
        /\ cands[i].design = "rejected" => cands'[i].design = "rejected"
        /\ cands[i].context = "persist" => cands'[i].context = "persist"
        /\ meeting.protocol = 2 /\ cands[i].of # meeting.result => cands'[i] = cands[i]
        /\ meeting.protocol = 1 /\ cands[i].status # "proposed" => cands'[i] = cands[i]
      ]_vars
=============================================================================
