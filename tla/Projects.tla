------------------------------ MODULE Projects ------------------------------
(***************************************************************************)
(* internal/project/service.go with internal/gitrepo/repository.go: Open   *)
(* and Relink, each a sequence of reads of the store, a capture of the     *)
(* repository by git, and one Append.  The queries of a snapshot are       *)
(* separate statements: the binding is read before the version the Append  *)
(* will expect.  Every git command is a process of its own: the Human      *)
(* moves and deletes branches between them.                                *)
(***************************************************************************)
EXTENDS EventStore, SequencesExt

CONSTANTS Relinks,      \* whether a Human relinks Projects
          Commits,      \* commits a branch may be at
          MaxMoves      \* bound: moves of branches

ASSUME ProjectsAssumption ==
    /\ Relinks \in BOOLEAN
    /\ Commits # {}
    /\ MaxMoves \in Nat

VARIABLES
    refs,       \* what each local branch has been at, last what it is at
    pc,         \* where each handler is
    op,         \* the command it runs
    dir,        \* the common-dir gitrepo.Discover found at its path
    branch,     \* the branch it captures
    proj,       \* the Project it works on
    prev,       \* the common-dir of the binding Relink read
    ver,        \* the version it will expect
    seen        \* the commit it has resolved, as its place in refs

locals == <<pc, op, dir, branch, proj, prev, ver, seen>>
vars   == <<storeVars, refs, locals>>

Init ==
    /\ stream = [p \in Projects |-> <<>>]
    /\ row = [p \in Projects |-> EmptyRow]
    /\ seal = [p \in Projects |-> NoSeal]
    /\ refs = [d \in Dirs |-> [b \in Branches |-> <<CHOOSE c \in Commits : TRUE>>]]
    /\ pc = [h \in Handlers |-> "idle"]
    /\ op = [h \in Handlers |-> "none"]
    /\ dir = [h \in Handlers |-> NoDir]
    /\ branch = [h \in Handlers |-> NoBranch]
    /\ proj = [h \in Handlers |-> NoProject]
    /\ prev = [h \in Handlers |-> NoDir]
    /\ ver = [h \in Handlers |-> 0]
    /\ seen = [h \in Handlers |-> 0]

\* The command returns, with its result or an error.
Return(h) ==
    /\ pc' = [pc EXCEPT ![h] = "idle"]
    /\ op' = [op EXCEPT ![h] = "none"]
    /\ dir' = [dir EXCEPT ![h] = NoDir]
    /\ branch' = [branch EXCEPT ![h] = NoBranch]
    /\ proj' = [proj EXCEPT ![h] = NoProject]
    /\ prev' = [prev EXCEPT ![h] = NoDir]
    /\ ver' = [ver EXCEPT ![h] = 0]
    /\ seen' = [seen EXCEPT ![h] = 0]

Owner(d) == {p \in Projects : row[p].dir = d}

-----------------------------------------------------------------------------
(* The repositories.                                                       *)

\* refs/heads/b of d.
Tip(d, b) == Last(refs[d][b])

Moves == FoldSet(LAMBDA d, n : FoldSet(LAMBDA b, m : m + Len(refs[d][b]) - 1, n, Branches),
                 0, Dirs)

\* The Human commits to a branch, or sets it to another commit.
Move(d, b, c) ==
    /\ c # Tip(d, b) /\ Moves < MaxMoves
    /\ refs' = [refs EXCEPT ![d][b] = Append(@, c)]
    /\ UNCHANGED <<storeVars, locals>>

-----------------------------------------------------------------------------
(* The commands.                                                           *)

\* event.NewID is random: no other Project has it.
Unused == {p \in Projects : stream[p] = <<>> /\ \A h \in Handlers : proj[h] # p}

Begin(h, o, d, b, p, at) ==
    /\ pc[h] = "idle"
    /\ pc' = [pc EXCEPT ![h] = at]
    /\ op' = [op EXCEPT ![h] = o]
    /\ dir' = [dir EXCEPT ![h] = d]
    /\ branch' = [branch EXCEPT ![h] = b]
    /\ proj' = [proj EXCEPT ![h] = p]
    /\ UNCHANGED <<storeVars, refs, prev, ver, seen>>

\* SelectIntegrationBranch: the one the Human asks for, or the only one there is,
\* at the remote or locally; which that is changes with every git remote.
Selectable == Branches

\* Open of a common-dir nobody is bound to: the Project to register.
OpenNew(h, d) ==
    /\ Owner(d) = {}
    /\ \E p \in Unused, b \in Selectable : Begin(h, "register", d, b, p, "resolve")

\* FindByCommonDir returned the identifier of the owner.
OpenExisting(h, d) ==
    \E p \in Owner(d) : Begin(h, "capture", d, NoBranch, p, "binding")

\* Relink of p to the repository with the common-dir d.
Relink(h, p, d) ==
    /\ Relinks
    /\ stream[p] # <<>>
    /\ Begin(h, "relink", d, NoBranch, p, "binding")

\* bindingQuery
ReadBinding(h) ==
    /\ pc[h] = "binding"
    /\ IF op[h] = "capture"
       THEN branch' = [branch EXCEPT ![h] = row[proj[h]].branch] /\ UNCHANGED prev
       ELSE prev' = [prev EXCEPT ![h] = row[proj[h]].dir] /\ UNCHANGED branch
    /\ pc' = [pc EXCEPT ![h] = "version"]
    /\ UNCHANGED <<storeVars, refs, op, dir, proj, ver, seen>>

\* The query of projection_states.
ReadVersion(h) ==
    /\ pc[h] = "version"
    /\ ver' = [ver EXCEPT ![h] = seal[proj[h]].version]
    /\ pc' = [pc EXCEPT ![h] = IF op[h] = "relink" THEN "find" ELSE "resolve"]
    /\ UNCHANGED <<storeVars, refs, op, dir, branch, proj, prev, seen>>

\* Relink asks whether another Project owns the common-dir.
FindOther(h) ==
    /\ pc[h] = "find"
    /\ \/ /\ Owner(dir[h]) \subseteq {proj[h]}
          /\ \E b \in Selectable : branch' = [branch EXCEPT ![h] = b]
          /\ pc' = [pc EXCEPT ![h] = "resolve"]
          /\ UNCHANGED <<op, dir, proj, prev, ver, seen>>
       \/ ~(Owner(dir[h]) \subseteq {proj[h]}) /\ Return(h)
    /\ UNCHANGED <<storeVars, refs>>

\* Capture: rev-parse of the branch; its tree and the entries of that have the
\* names their contents give them, nothing can change them.
Resolve(h) ==
    /\ pc[h] = "resolve"
    /\ seen' = [seen EXCEPT ![h] = Len(refs[dir[h]][branch[h]])]
    /\ pc' = [pc EXCEPT ![h] = "confirm"]
    /\ UNCHANGED <<storeVars, refs, op, dir, branch, proj, prev, ver>>

\* After git status the branch has to be at the same commit.
Confirm(h) ==
    /\ pc[h] = "confirm"
    /\ Tip(dir[h], branch[h]) = refs[dir[h]][branch[h]][seen[h]]
    /\ pc' = [pc EXCEPT ![h] = "append"]
    /\ UNCHANGED <<storeVars, refs, op, dir, branch, proj, prev, ver, seen>>

\* The branch requested is not the one that is bound, none can be selected, it
\* has been deleted or has moved, a git command fails.
CaptureFails(h) ==
    /\ pc[h] \in {"find", "resolve", "confirm", "append"}
    /\ Return(h)
    /\ UNCHANGED <<storeVars, refs>>

\* The batch of events of each command.
Batch(h) ==
    CASE op[h] = "register" -> Registration(dir[h], branch[h], seen[h])
      [] op[h] = "relink"   -> Relinking(dir[h], branch[h], prev[h], seen[h])
      [] op[h] = "capture"  -> Capture(dir[h], branch[h], seen[h])

\* Mutant: the version is read again for the Append.
AppendAtHead(h) ==
    /\ pc[h] = "append"
    /\ IF Appends(proj[h], Version(proj[h]), Batch(h))
       THEN AppendTx(proj[h], Version(proj[h]), Batch(h))
       ELSE UNCHANGED storeVars
    /\ Return(h) /\ UNCHANGED refs

\* The manifest is kept as an artifact and the batch appended, or Append fails.
AppendBatch(h) ==
    /\ pc[h] = "append"
    /\ IF Appends(proj[h], ver[h], Batch(h))
       THEN AppendTx(proj[h], ver[h], Batch(h))
       ELSE UNCHANGED storeVars
    /\ Return(h) /\ UNCHANGED refs

\* POST /v1/projects/{id}/replay, whole: a transaction on its own.
Replay(p) ==
    /\ Replays(p)
    /\ ReplayTx(p)
    /\ UNCHANGED <<refs, locals>>

Next ==
    \/ \E h \in Handlers :
         \/ \E d \in Dirs : OpenNew(h, d) \/ OpenExisting(h, d)
         \/ \E p \in Projects, d \in Dirs : Relink(h, p, d)
         \/ ReadBinding(h) \/ ReadVersion(h) \/ FindOther(h)
         \/ Resolve(h) \/ Confirm(h) \/ AppendBatch(h) \/ CaptureFails(h)
    \/ \E p \in Projects : Replay(p)
    \/ \E d \in Dirs, b \in Branches, c \in Commits : Move(d, b, c)

Spec == Init /\ [][Next]_vars

-----------------------------------------------------------------------------
TypeOK ==
    /\ StoreTypeOK
    /\ pc \in [Handlers -> {"idle", "binding", "version", "find", "resolve",
                           "confirm", "append"}]
    /\ \A d \in Dirs, b \in Branches : refs[d][b] \in Seq(Commits)
    /\ branch \in [Handlers -> Branches \cup {NoBranch}]
    /\ seen \in [Handlers -> 0..(MaxMoves + 1)]
    /\ op \in [Handlers -> {"none", "register", "capture", "relink"}]
    /\ dir \in [Handlers -> Dirs \cup {NoDir}]
    /\ proj \in [Handlers -> Projects \cup {NoProject}]
    /\ prev \in [Handlers -> Dirs \cup {NoDir}]
    /\ ver \in [Handlers -> 0..MaxLength]

(* No two Projects are bound to one common-dir, although Open and Relink   *)
(* look for an owner long before they append.                              *)
OneOwner ==
    \A p, q \in Projects :
        row[p].dir = row[q].dir /\ row[p].dir # NoDir => p = q

(* What the database says of a Project is what its events say, sealed at   *)
(* the version of the stream, and a replay that succeeds changes nothing:  *)
(* milestone-0-foundation.md:229 "replay 前后规范化状态与 digest 相同" (same   *)
(* state and digest before and after a replay).                            *)
ProjectionFollows ==
    \A p \in Projects :
        /\ Intact(p)
        /\ seal[p] = [version |-> Version(p), digest |-> Digest(row[p])]
        /\ LET acc == Rebuilt(p) IN acc.ok => acc.row = row[p]

(* The Realities of a Project never go back: a capture that took longer    *)
(* than another one, or than a relink, is not recorded after it with what  *)
(* the branch was at before.                                               *)
RealitiesAdvance ==
    \A p \in Projects : \A i, j \in DOMAIN stream[p] :
        LET before == stream[p][i]
            after  == stream[p][j]
        IN  /\ i < j /\ before.type = "captured" /\ after.type = "captured"
            /\ before.dir = after.dir /\ before.branch = after.branch
            => before.seen <= after.seen

(* docs/projectneed.md:440-443: a replay makes the same state from the     *)
(* same events ("相同事件和 schema 生成相同规范化状态").  The stream of every *)
(* Project can be replayed.                                                *)
Replayable == \A p \in Projects : stream[p] # <<>> => Replays(p)

\* The binding of p before its event i.
BindingAt(p, i) ==
    LET bound == {j \in 1..(i - 1) :
                    stream[p][j].type \in {"bound", "relinked"}}
    IN  stream[p][CHOOSE j \in bound : \A k \in bound : k <= j]

(* milestone-0-foundation.md:170-171: "command 使用 expected_stream_version *)
(* 检测并发变化" (commands detect concurrent changes).  A Reality is         *)
(* recorded for the repository and branch its Project is bound to, and a   *)
(* relink names the common-dir it replaces.                                *)
HistoryAgrees ==
    \A p \in Projects : \A i \in DOMAIN stream[p] :
        LET item == stream[p][i] IN
        /\ item.type = "captured" =>
             /\ item.dir = BindingAt(p, i).dir
             /\ item.branch = BindingAt(p, i).branch
        /\ item.type = "relinked" => item.prev = BindingAt(p, i).dir
=============================================================================
