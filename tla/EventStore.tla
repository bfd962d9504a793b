----------------------------- MODULE EventStore -----------------------------
(***************************************************************************)
(* internal/store: one stream of events per Project, the relational rows   *)
(* the reducers derive from it, and the sealed projection state.  The      *)
(* transactions Append and Replay are here, the code that runs them is in  *)
(* Projects.tla and Maintenance.tla.                                       *)
(*                                                                         *)
(* Of the rows of a Project six facts are kept: the projects row exists,   *)
(* the Git common-dir and the integration branch of its binding, the       *)
(* sequence of its current Reality, how many events the rows of meetings   *)
(* and semantic_candidates reflect, and how many the contents, conflicts   *)
(* and runs of its Meetings.  A digest is the value it is computed from;   *)
(* projection_states and current_states, written in the same transaction,  *)
(* are one sealed record.                                                  *)
(***************************************************************************)
EXTENDS Naturals, Sequences, FiniteSets

CONSTANTS Projects,     \* Project identifiers
          Dirs,         \* Git common-dirs
          Branches,     \* names of integration branches
          NoDir,        \* no binding row
          NoBranch,
          Handlers,     \* HTTP handler goroutines
          NoProject,    \* no Project
          MaxLength     \* bound: events of one stream

ASSUME EventStoreAssumption ==
    /\ NoDir \notin Dirs
    /\ NoBranch \notin Branches
    /\ NoProject \notin Projects
    /\ MaxLength \in Nat

VARIABLES
    stream,     \* domain_events of each Project
    row,        \* its derived rows
    seal        \* its projection_states and current_states rows

storeVars == <<stream, row, seal>>

EmptyRow == [exists |-> FALSE, dir |-> NoDir, branch |-> NoBranch, reality |-> 0,
             meetings |-> 0, contents |-> 0]
NoSeal   == [version |-> 0, digest |-> EmptyRow]

\* projectionDigest and currentStateData: neither reads the contents.
Digest(r) == [r EXCEPT !.contents = 0]

Types  == {"registered", "bound", "relinked", "captured", "meeting", "content"}
\* prev is PreviousGitCommonDir; seen is the commit of a Reality, as its place
\* in the history of the branch.
Event(type, dir, branch, prev, seen) ==
    [type |-> type, dir |-> dir, branch |-> branch, prev |-> prev, seen |-> seen]

Capture(d, b, seen)      == << Event("captured", d, b, NoDir, seen) >>
Registration(d, b, seen) == << Event("registered", NoDir, NoBranch, NoDir, 0),
                               Event("bound", d, b, NoDir, 0) >>
                            \o Capture(d, b, seen)
Relinking(d, b, prev, seen) == << Event("relinked", d, b, prev, 0) >>
                               \o Capture(d, b, seen)
MeetingEvent(t)          == << Event(t, NoDir, NoBranch, NoDir, 0) >>

\* streamVersion
Version(p) == Len(stream[p])

-----------------------------------------------------------------------------
(* applyEvent: what the reducer of one event makes of the rows of its      *)
(* Project, in a transaction that fails at the first error.                *)

\* Mutant: git_common_dir is not UNIQUE.
TakenByNobody(p) == {}

\* The common-dirs a UNIQUE column keeps from p.
TakenDirs(p) == {row[q].dir : q \in Projects \ {p}} \ {NoDir}

Accept(acc, changed) == [acc EXCEPT !.row = changed, !.sequence = @ + 1]
Refuse(acc)          == [acc EXCEPT !.ok = FALSE]

Reduce(acc, item, taken) ==
    LET r == acc.row IN
    IF ~acc.ok THEN acc ELSE
    CASE item.type = "registered" ->
           IF r.exists THEN Refuse(acc)
                       ELSE Accept(acc, [r EXCEPT !.exists = TRUE])
      [] item.type = "bound" ->
           IF r.dir # NoDir \/ item.dir \in taken
           THEN Refuse(acc)
           ELSE Accept(acc, [r EXCEPT !.dir = item.dir, !.branch = item.branch])
      [] item.type = "relinked" ->
           IF r.dir = NoDir \/ item.dir \in taken
           THEN Refuse(acc)
           ELSE Accept(acc, [r EXCEPT !.dir = item.dir, !.branch = item.branch])
      [] item.type = "captured" ->
           Accept(acc, [r EXCEPT !.reality = acc.sequence + 1])
      [] item.type = "meeting" ->
           Accept(acc, [r EXCEPT !.meetings = @ + 1])
      [] item.type = "content" ->
           Accept(acc, [r EXCEPT !.contents = @ + 1])

\* One reducer after the other, each on the rows the last one left.
Apply(p, base, sequence, items) ==
    LET taken == TakenDirs(p)
        after[i \in 0..Len(items)] ==
            IF i = 0 THEN [ok |-> TRUE, row |-> base, sequence |-> sequence]
                     ELSE Reduce(after[i - 1], items[i], taken)
    IN  after[Len(items)]

\* projectionDigest fails on a missing Project, binding or Reality.
Complete(r) == r.exists /\ r.dir # NoDir /\ r.reality # 0

-----------------------------------------------------------------------------
(* The transactions.                                                       *)

\* Append succeeds: the version is the expected one, every reducer accepts,
\* the digest can be sealed.
Appends(p, expected, items) ==
    LET acc == Apply(p, row[p], expected, items)
    IN  /\ Version(p) = expected
        /\ expected + Len(items) <= MaxLength
        /\ acc.ok
        /\ Complete(acc.row)

\* Mutant: the projection state is not sealed.
AppendUnsealed(p, expected, items) ==
    LET acc == Apply(p, row[p], expected, items)
    IN  /\ stream' = [stream EXCEPT ![p] = @ \o items]
        /\ row' = [row EXCEPT ![p] = acc.row]
        /\ UNCHANGED seal

\* Append of a batch that Appends.
AppendTx(p, expected, items) ==
    LET acc == Apply(p, row[p], expected, items)
    IN  /\ stream' = [stream EXCEPT ![p] = @ \o items]
        /\ row' = [row EXCEPT ![p] = acc.row]
        /\ seal' = [seal EXCEPT ![p] = [version |-> expected + Len(items),
                                        digest |-> Digest(acc.row)]]

\* Mutant: the contents are not deleted first.
RebuiltOver(p) ==
    Apply(p, [EmptyRow EXCEPT !.contents = row[p].contents], 0, stream[p])

\* The rows of p are deleted and every event of its stream is applied again.
Rebuilt(p) == Apply(p, EmptyRow, 0, stream[p])

\* Replay commits.
Replays(p) ==
    /\ stream[p] # <<>>
    /\ LET acc == Rebuilt(p) IN acc.ok /\ Complete(acc.row)

ReplayTx(p) ==
    LET rebuilt == Rebuilt(p).row
    IN  /\ row' = [row EXCEPT ![p] = rebuilt]
        /\ seal' = [seal EXCEPT ![p] = [version |-> Version(p),
                                        digest |-> Digest(rebuilt)]]
        /\ UNCHANGED stream

-----------------------------------------------------------------------------
Rows == [exists : BOOLEAN, dir : Dirs \cup {NoDir},
         branch : Branches \cup {NoBranch}, reality : 0..MaxLength,
         meetings : 0..MaxLength, contents : 0..MaxLength]

StoreTypeOK ==
    /\ \A p \in Projects :
         /\ Len(stream[p]) <= MaxLength
         /\ \A i \in DOMAIN stream[p] :
              /\ stream[p][i].type \in Types
              /\ {stream[p][i].dir, stream[p][i].prev} \subseteq Dirs \cup {NoDir}
              /\ stream[p][i].branch \in Branches \cup {NoBranch}
              /\ stream[p][i].seen \in Nat
    /\ row \in [Projects -> Rows]
    /\ seal \in [Projects -> [version : 0..MaxLength, digest : Rows]]

\* What the events of a stream say, read off it.
LastOf(s, types) ==
    LET found == {i \in DOMAIN s : s[i].type \in types}
    IN  IF found = {} THEN 0 ELSE CHOOSE i \in found : \A j \in found : j <= i

CountOf(s, type) == Cardinality({i \in DOMAIN s : s[i].type = type})

TruthOf(s) ==
    LET b == LastOf(s, {"bound", "relinked"}) IN
    [exists   |-> LastOf(s, {"registered"}) # 0,
     dir      |-> IF b = 0 THEN NoDir ELSE s[b].dir,
     branch   |-> IF b = 0 THEN NoBranch ELSE s[b].branch,
     reality  |-> LastOf(s, {"captured"}),
     meetings |-> CountOf(s, "meeting"),
     contents |-> CountOf(s, "content")]

Truth(p) == TruthOf(stream[p])

Intact(p) == row[p] = Truth(p)
=============================================================================
