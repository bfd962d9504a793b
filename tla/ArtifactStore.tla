--------------------------- MODULE ArtifactStore ---------------------------
(***************************************************************************)
(* The content addressed artifacts (internal/artifact/store.go) under the  *)
(* events that refer to them: Store.Put step by step by several goroutines *)
(* of the daemon, the Append of an event with the Record that Put returned *)
(* and the verification of every reference when the daemon starts.         *)
(*                                                                         *)
(* A content is its digest.  The process may be killed, which undoes no    *)
(* system call, and the machine may lose power, which may undo what was    *)
(* not synced: the bytes of a file, or the entry a rename made in its      *)
(* directory.  SQLite commits with synchronous=FULL, so an event that was  *)
(* appended is kept.  Put syncs the directory of the object and never the  *)
(* one above, in which MkdirAll may just have made its entry (store.go:36);*)
(* that a directory which is synced can also be reached is assumed.        *)
(***************************************************************************)
EXTENDS Naturals

CONSTANTS Writers,          \* goroutines that put artifacts
          Contents,         \* what they put
          None,             \* no content
          MaxKills,         \* bound: deaths of the process
          MaxPowerLosses    \* bound: deaths of the machine

ASSUME ArtifactAssumption ==
    /\ None \notin Contents
    /\ {MaxKills, MaxPowerLosses} \subseteq Nat

VARIABLES
    target,     \* the file under the digest of each content
    durable,    \* its directory entry is on the disk
    events,     \* the references of committed events
    put,        \* where each goroutine is in Put
    up,         \* the daemon runs
    kills, powerLosses

disk == <<target, durable>>
vars == <<target, durable, events, put, up, kills, powerLosses>>

\* The bytes of a file: not there, cut short, complete, complete and synced.
Files == {"absent", "torn", "written", "synced"}
Whole == {"written", "synced"}

\* A reference, and whether it was committed while the entry of its file was
\* still another goroutine's to sync.
Reference == [content : Contents, early : BOOLEAN]

\* content is what the goroutine puts, file its temporary file, and reused
\* says that it found the object.
Idle == [pc |-> "idle", content |-> None, file |-> "absent", reused |-> FALSE]

Init ==
    /\ target = [c \in Contents |-> "absent"]
    /\ durable = [c \in Contents |-> FALSE]
    /\ events = {}
    /\ put = [w \in Writers |-> Idle]
    /\ up = TRUE
    /\ kills = 0 /\ powerLosses = 0

At(w, pc) == up /\ put[w].pc = pc

-----------------------------------------------------------------------------
(* Store.Put                                                               *)

Begin(w) ==
    /\ At(w, "idle")
    /\ \E c \in Contents :
         put' = [put EXCEPT ![w].pc = "look", ![w].content = c]
    /\ UNCHANGED <<disk, events, up, kills, powerLosses>>

\* An existing object is reused if its bytes are right, else Put fails.
Reuse(w) ==
    /\ At(w, "look")
    /\ target[put[w].content] # "absent"
    /\ put' = IF target[put[w].content] \in Whole
              THEN [put EXCEPT ![w].pc = "append", ![w].reused = TRUE]
              ELSE [put EXCEPT ![w] = Idle]
    /\ UNCHANGED <<disk, events, up, kills, powerLosses>>

CreateTemp(w) ==
    /\ At(w, "look")
    /\ target[put[w].content] = "absent"
    /\ put' = [put EXCEPT ![w].pc = "write", ![w].file = "torn"]
    /\ UNCHANGED <<disk, events, up, kills, powerLosses>>

WriteTemp(w) ==
    /\ At(w, "write")
    /\ put' = [put EXCEPT ![w].pc = "sync", ![w].file = "written"]
    /\ UNCHANGED <<disk, events, up, kills, powerLosses>>

\* Mutant: the temporary file is not synced.
SyncNothing(w) ==
    /\ At(w, "sync")
    /\ put' = [put EXCEPT ![w].pc = "rename"]
    /\ UNCHANGED <<disk, events, up, kills, powerLosses>>

SyncTemp(w) ==
    /\ At(w, "sync")
    /\ put' = [put EXCEPT ![w].pc = "rename", ![w].file = "synced"]
    /\ UNCHANGED <<disk, events, up, kills, powerLosses>>

\* Mutant: Put returns without syncing the directory.
RenameAndReturn(w) ==
    /\ At(w, "rename")
    /\ target' = [target EXCEPT ![put[w].content] = put[w].file]
    /\ put' = [put EXCEPT ![w].pc = "append", ![w].file = "absent"]
    /\ UNCHANGED <<durable, events, up, kills, powerLosses>>

\* The rename replaces what another goroutine published in the meantime.
Rename(w) ==
    /\ At(w, "rename")
    /\ target' = [target EXCEPT ![put[w].content] = put[w].file]
    /\ put' = [put EXCEPT ![w].pc = "syncDirectory", ![w].file = "absent"]
    /\ UNCHANGED <<durable, events, up, kills, powerLosses>>

SyncDirectory(w) ==
    /\ At(w, "syncDirectory")
    /\ durable' = [durable EXCEPT ![put[w].content] = TRUE]
    /\ put' = [put EXCEPT ![w].pc = "append"]
    /\ UNCHANGED <<target, events, up, kills, powerLosses>>

\* Mutant: the error of Put is not looked at, and an empty Record is used.
FailsUnseen(w) ==
    /\ up /\ put[w].pc \notin {"idle", "append"}
    /\ put' = [put EXCEPT ![w] = [Idle EXCEPT !.pc = "append"]]
    /\ UNCHANGED <<disk, events, up, kills, powerLosses>>

\* A system call fails: the deferred Remove deletes the temporary file, if it
\* was not renamed; or the Append after Put fails.  The object may stay, as
\* an orphan.
Fails(w) ==
    /\ up /\ put[w].pc # "idle"
    /\ put' = [put EXCEPT ![w] = Idle]
    /\ UNCHANGED <<disk, events, up, kills, powerLosses>>

-----------------------------------------------------------------------------
(* Store.Append of an event with the Record, and the start of the daemon.  *)

Commit(w) ==
    /\ At(w, "append")
    /\ events' = events \cup
          {[content |-> put[w].content,
            early |-> put[w].reused /\ ~durable[put[w].content]]}
    /\ put' = [put EXCEPT ![w] = Idle]
    /\ UNCHANGED <<disk, up, kills, powerLosses>>

\* Store.Verify accepts the artifact of every event.
Verified == \A r \in events : target[r.content] \in Whole

\* Reconcile succeeds; otherwise the daemon does not start.
Boot ==
    /\ ~up
    /\ Verified
    /\ up' = TRUE
    /\ UNCHANGED <<disk, events, put, kills, powerLosses>>

Die ==
    /\ up' = FALSE
    /\ put' = [w \in Writers |-> Idle]
    /\ UNCHANGED events

Kill ==
    /\ up /\ kills < MaxKills
    /\ kills' = kills + 1
    /\ Die
    /\ UNCHANGED <<disk, powerLosses>>

\* What a file may be after the machine lost power.
AfterLoss(c) ==
    (CASE target[c] = "written" -> {"synced", "torn"}
       [] OTHER                 -> {target[c]})
    \cup (IF durable[c] THEN {} ELSE {"absent"})

PowerLoss ==
    /\ powerLosses < MaxPowerLosses
    /\ powerLosses' = powerLosses + 1
    /\ Die
    /\ target' \in {f \in [Contents -> Files] :
                      \A c \in Contents : f[c] \in AfterLoss(c)}
    /\ durable' = [c \in Contents |-> target'[c] # "absent"]
    /\ UNCHANGED kills

Next ==
    \/ \E w \in Writers :
         \/ Begin(w) \/ Reuse(w) \/ CreateTemp(w) \/ WriteTemp(w)
         \/ SyncTemp(w) \/ Rename(w) \/ SyncDirectory(w) \/ Fails(w)
         \/ Commit(w)
    \/ Boot \/ Kill \/ PowerLoss

Spec == Init /\ [][Next]_vars

-----------------------------------------------------------------------------
TypeOK ==
    /\ target \in [Contents -> Files]
    /\ durable \in [Contents -> BOOLEAN]
    /\ events \subseteq Reference
    /\ put \in [Writers ->
                  [pc : {"idle", "look", "write", "sync", "rename",
                         "syncDirectory", "append"},
                   content : Contents \cup {None},
                   file : Files, reused : BOOLEAN]]
    /\ up \in BOOLEAN
    /\ kills \in 0..MaxKills /\ powerLosses \in 0..MaxPowerLosses

\* No crash leaves an object that is cut short under its digest, where it
\* would make every later Put of the same content fail.
NeverTorn == \A c \in Contents : target[c] # "torn"

\* The artifact of a committed event is there, so the daemon can start again:
\* always, unless the machine lost power and the event was committed with an
\* object whose publication another goroutine had not finished.
ReferencesHold ==
    \A r \in events : \/ target[r.content] \in Whole
                      \/ r.early /\ powerLosses > 0

\* The same without the exception (milestone-0-foundation.md:170: the file is
\* synced and published before its reference is registered).
ReferencesSurvive == \A r \in events : target[r.content] \in Whole
=============================================================================
