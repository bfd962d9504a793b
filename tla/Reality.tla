------------------------------ MODULE Reality ------------------------------
(***************************************************************************)
(* The Reality of one Meeting (internal/realitybundle/bundle.go and its    *)
(* callers in service.go): Create freezes the Human's working tree in a    *)
(* bundle, prepareWorkspaces restores it once per seat, and the Verifier's *)
(* step compares the tree with the bundle again.  The Human edits the tree *)
(* all the while: a capture is a sequence of git commands, each of which   *)
(* sees the tree of its own moment.  The process may die at any step.      *)
(*                                                                         *)
(* A part of the tree is the number of times it was edited: no edit        *)
(* restores what an earlier one replaced.  HEAD is the commit and the      *)
(* branch the name it is checked out under, which the bundle has and the   *)
(* Verifier's step does not compare.  A Put is one step (see               *)
(* ArtifactStore).                                                         *)
(***************************************************************************)
EXTENDS Naturals, Sequences, SequencesExt

CONSTANTS Seats,        \* number of participants
          MaxEdits,     \* bound: edits of the Human
          MaxDeaths     \* bound: deaths of the process

ASSUME RealityAssumption ==
    /\ Seats \in Nat \ {0}
    /\ {MaxEdits, MaxDeaths} \subseteq Nat

VARIABLES
    history,    \* the working tree of the Human, from its first state to now
    got,        \* what the git commands of a capture have returned
    captured,   \* the moment the capture of the bundle began
    observed,   \* the moment the last observation began
    bundle,     \* the Reality Bundle
    status,     \* of the Meeting
    pc, seat,   \* where the handler, later the worker is
    restored,   \* how far the environment of each seat was restored
    cut,        \* seats whose git repository a death left half restored
    deaths

tree == <<history, deaths>>
look == <<got, captured, observed>>
envs == <<restored, cut>>
vars == <<tree, look, bundle, status, pc, seat, envs>>

Parts == {"head", "branch", "index", "work", "untracked"}
Now   == Len(history)

\* What the commands of captureOnce depend on, in their order: rev-parse,
\* symbolic-ref, diff --cached, diff, status, ls-files, and the files listed.
Views == << {"head"}, {"branch"}, {"head", "index"}, {"index", "work"},
            {"head", "index", "work", "untracked"}, {"untracked"}, {"untracked"} >>
View(i, t) == [p \in Views[i] |-> t[p]]
Snapshot(t) == [i \in DOMAIN Views |-> View(i, t)]

\* The Observation of a capture has all of it but the branch.
Observation(capture) == [i \in DOMAIN capture \ {2} |-> capture[i]]

\* Stages of Prepare: nothing, the directories of the environment, the clone
\* (the participant's Workdir exists), the checkout, the staged patch, the
\* unstaged patch, the untracked files.
Cloned   == 2
Complete == 6

NoBundle == <<>>

Init ==
    /\ history = << [p \in Parts |-> 0] >>
    /\ got = <<>>
    /\ captured = 1 /\ observed = 1
    /\ bundle = NoBundle
    /\ status = "none"
    /\ pc = "idle"
    /\ seat = 1
    /\ restored = [s \in 1..Seats |-> 0]
    /\ cut = {}
    /\ deaths = 0

-----------------------------------------------------------------------------
(* The Human edits a file, stages, commits, adds a file, switches branch.  *)

Edit ==
    /\ Now <= MaxEdits
    /\ \E p \in Parts :
         history' = Append(history, [Last(history) EXCEPT ![p] = @ + 1])
    /\ UNCHANGED <<deaths, look, bundle, status, pc, seat, envs>>

-----------------------------------------------------------------------------
(* Create: Capture calls captureOnce twice.                                *)

BeginCreate ==
    /\ pc = "idle" /\ status = "none"
    /\ pc' = "capture"
    /\ got' = <<>> /\ captured' = Now
    /\ UNCHANGED <<tree, observed, bundle, status, seat, envs>>

\* The next command of a capture that makes n of them.
Look(n) ==
    /\ Len(got) < n
    /\ got' = Append(got, View((Len(got) % Len(Views)) + 1, Last(history)))
    /\ UNCHANGED <<tree, captured, observed, bundle, status, pc, seat, envs>>

First  == SubSeq(got, 1, Len(Views))
Second == SubSeq(got, Len(Views) + 1, 2 * Len(Views))

\* Mutant: only HEAD, the branch and the diffs are compared.
CompareDiffs ==
    /\ pc = "capture" /\ Len(got) = 2 * Len(Views)
    /\ bundle' = IF SubSeq(First, 1, 4) = SubSeq(Second, 1, 4)
                 THEN First ELSE NoBundle
    /\ pc' = IF bundle' = NoBundle THEN "idle" ELSE "create"
    /\ got' = <<>>
    /\ UNCHANGED <<tree, captured, observed, status, seat, envs>>

\* Two equal looks are the bundle; otherwise the command fails.
Compare ==
    /\ pc = "capture" /\ Len(got) = 2 * Len(Views)
    /\ bundle' = IF First = Second THEN First ELSE NoBundle
    /\ pc' = IF First = Second THEN "create" ELSE "idle"
    /\ got' = <<>>
    /\ UNCHANGED <<tree, captured, observed, status, seat, envs>>

\* The Put of the bundle, the Append of the Meeting, and its Start.
Created ==
    /\ pc = "create"
    /\ status' = "preparing"
    /\ pc' = "idle"
    /\ UNCHANGED <<tree, look, bundle, seat, envs>>

\* A command, a Put or the Append fails: there is no Meeting.
CreateFails ==
    /\ pc \in {"capture", "create"}
    /\ pc' = "idle"
    /\ got' = <<>> /\ bundle' = NoBundle
    /\ UNCHANGED <<tree, captured, observed, status, seat, envs>>

-----------------------------------------------------------------------------
(* prepareWorkspaces, by the coordinator's worker.                         *)

Run ==
    /\ pc = "idle" /\ status \in {"preparing", "sealed_proposals", "verifying"}
    /\ pc' = IF status = "verifying" THEN "observe" ELSE "prepare"
    /\ seat' = 1
    /\ got' = <<>> /\ observed' = Now
    /\ UNCHANGED <<tree, captured, bundle, status, envs>>

\* A Workdir that is there is taken as it is.
SeatReady ==
    /\ pc = "prepare" /\ seat <= Seats
    /\ restored[seat] >= Cloned
    /\ seat' = seat + 1
    /\ UNCHANGED <<tree, look, bundle, status, pc, envs>>

\* Prepare creates the environment of a seat that has none.
MakeDirectories ==
    /\ pc = "prepare" /\ seat <= Seats
    /\ restored[seat] = 0
    /\ restored' = [restored EXCEPT ![seat] = 1]
    /\ pc' = "restore"
    /\ UNCHANGED <<tree, look, bundle, status, seat, cut>>

\* Mutant: the seat is left one stage too late.
RestoreOnceMore ==
    /\ pc = "restore"
    /\ restored' = [restored EXCEPT ![seat] = @ + 1]
    /\ pc' = IF restored[seat] = Complete THEN "prepare" ELSE pc
    /\ seat' = IF restored[seat] = Complete THEN seat + 1 ELSE seat
    /\ UNCHANGED <<tree, look, bundle, status, cut>>

Restore ==
    /\ pc = "restore"
    /\ restored' = [restored EXCEPT ![seat] = @ + 1]
    /\ pc' = IF restored[seat] + 1 = Complete THEN "prepare" ELSE pc
    /\ seat' = IF restored[seat] + 1 = Complete THEN seat + 1 ELSE seat
    /\ UNCHANGED <<tree, look, bundle, status, cut>>

\* Mutant: the error of Prepare is not returned.
PrepareFailsUnseen ==
    /\ pc = "restore"
    /\ pc' = "prepare" /\ seat' = seat + 1
    /\ UNCHANGED <<tree, look, bundle, status, envs>>

\* failMeeting: a command fails, the context is cancelled, or a death has left
\* an environment without a Workdir, the case neither action above accepts.
PrepareFails ==
    /\ pc \in {"prepare", "restore"}
    /\ status' = "failed"
    /\ pc' = "idle"
    /\ UNCHANGED <<tree, look, bundle, seat, envs>>

Prepared ==
    /\ pc = "prepare" /\ seat > Seats
    /\ status' = "sealed_proposals"
    /\ pc' = "deliberate"
    /\ UNCHANGED <<tree, look, bundle, seat, envs>>

\* The Meeting up to the answer of the Verifier (module Meeting).  Protocol 2
\* has no Verifier and does not look at the tree again.
Deliberate ==
    /\ pc = "deliberate"
    /\ status' = "verifying"
    /\ pc' = "observe"
    /\ got' = <<>> /\ observed' = Now
    /\ UNCHANGED <<tree, captured, bundle, seat, envs>>

-----------------------------------------------------------------------------
(* verifySourceObservation.                                                *)

\* Mutant: only HEAD is compared.
AcceptHead ==
    /\ pc = "observe" /\ Len(got) = Len(Views)
    /\ status' = IF got[1] = bundle[1] THEN "awaiting_human" ELSE "failed"
    /\ pc' = "done"
    /\ UNCHANGED <<tree, look, bundle, seat, envs>>

Accept ==
    /\ pc = "observe" /\ Len(got) = Len(Views)
    /\ status' = IF Observation(got) = Observation(bundle)
                 THEN "awaiting_human" ELSE "failed"
    /\ pc' = "done"
    /\ UNCHANGED <<tree, look, bundle, seat, envs>>

ObserveFails ==
    /\ pc = "observe"
    /\ status' = "failed"
    /\ pc' = "done"
    /\ UNCHANGED <<tree, look, bundle, seat, envs>>

\* What the worker was doing is lost, what it has written to disk is not.
Die ==
    /\ deaths < MaxDeaths
    /\ pc \notin {"idle", "done"}
    /\ deaths' = deaths + 1
    /\ pc' = "idle"
    /\ got' = <<>>
    /\ bundle' = IF status = "none" THEN NoBundle ELSE bundle
    /\ cut' = IF pc = "restore" /\ restored[seat] >= Cloned
              THEN cut \cup {seat} ELSE cut
    /\ UNCHANGED <<history, captured, observed, status, seat, restored>>

Next ==
    \/ Edit
    \/ BeginCreate \/ (pc = "capture" /\ Look(2 * Len(Views)))
    \/ Compare \/ Created \/ CreateFails
    \/ Run \/ SeatReady \/ MakeDirectories \/ Restore \/ PrepareFails
    \/ Prepared \/ Deliberate
    \/ (pc = "observe" /\ Look(Len(Views))) \/ Accept \/ ObserveFails
    \/ Die

Spec == Init /\ [][Next]_vars

-----------------------------------------------------------------------------
TypeOK ==
    /\ Now \in 1..MaxEdits + 1
    /\ \A t \in DOMAIN history : history[t] \in [Parts -> 0..MaxEdits]
    /\ Len(got) <= 2 * Len(Views)
    /\ {captured, observed} \subseteq 1..Now
    /\ bundle # NoBundle => Len(bundle) = Len(Views)
    /\ status \in {"none", "preparing", "sealed_proposals", "verifying",
                   "awaiting_human", "failed"}
    /\ pc \in {"idle", "capture", "create", "prepare", "restore",
               "deliberate", "observe", "done"}
    /\ seat \in 1..Seats + 1
    /\ restored \in [1..Seats -> 0..Complete]
    /\ cut \subseteq 1..Seats
    /\ deaths \in 0..MaxDeaths

\* Looking twice is enough: the bundle is the tree as it was at one moment
\* of its capture, though its parts were read one after the other.
BundleIsReality ==
    bundle # NoBundle =>
        \E t \in captured..Now : Snapshot(history[t]) = bundle

\* Looking once is enough later: when the last look at the tree began, the
\* tree of a result handed to the Human had not changed since the bundle, but
\* for the branch its commit is checked out under (bundle.go:37).
EditsAreNoticed ==
    status = "awaiting_human" =>
        Observation(Snapshot(history[observed])) = Observation(bundle)

\* The same without the exception (service.go:1238, "left the observed source
\* repository byte-for-byte unchanged"): a switch to another branch of the same
\* commit goes unnoticed.
BranchIsNoticed ==
    status = "awaiting_human" => Snapshot(history[observed]) = bundle

\* A Meeting starts with the whole bundle in every Workdir, except those in
\* which a process died after the clone.
WorkdirsRestored ==
    status \in {"sealed_proposals", "verifying", "awaiting_human"} =>
        \A s \in 1..Seats : restored[s] = Complete \/ s \in cut

\* The same without the exception (milestone-1a-meeting-backend.md:190, the
\* bundle restores staged, unstaged and untracked contents exactly).
WorkdirsExact ==
    status \in {"sealed_proposals", "verifying", "awaiting_human"} =>
        \A s \in 1..Seats : restored[s] = Complete
=============================================================================
