------------------------- MODULE SupervisionProofs -------------------------
(***************************************************************************)
(* Theorems about Supervision, for any daemons, builds, tools and children *)
(* and any number of starts, commits, runs and steps.                      *)
(***************************************************************************)
EXTENDS Supervision, SequenceTheorems, TLAPS

-----------------------------------------------------------------------------
(* The daemons.                                                            *)

\* Whoever is in Run holds the lock: the steps of two daemons never mix.
Alone == \A d \in Daemons : at[d] # "off" => lock = d

\* No database, nothing in it; from Connect on there is one.
Present ==
    /\ ~database.existed => database.version = 0 /\ database.commits = 0
    /\ \A d \in Daemons :
         at[d] \in Owning \cup {"connected", "copying", "migrating"} =>
             database.existed

\* What Open has found still holds until the first migration, which no daemon
\* reaches with work that is not in a verified backup.
Opened ==
    \A d \in Daemons :
        /\ at[d] \in {"connected", "copying", "migrating"} /\ ~opened[d].existed =>
             database.commits = 0
        /\ at[d] \in {"connected", "copying"} => database.version = opened[d].current
        /\ at[d] = "copying" => opened[d].current < Latest[d]
        /\ at[d] = "migrating" =>
             /\ opened[d].current <= database.version /\ database.version <= Latest[d]
             /\ database.version = opened[d].current /\ database.commits > 0
                  /\ database.version < Latest[d] =>
                      [of |-> Contents, verified |-> TRUE] \in backups

Bound == \A d \in Daemons : at[d] \in {"bound", "serving"} => socket = d

DaemonInv ==
    /\ TypeOKDaemon /\ Alone /\ Present /\ Opened /\ Bound
    /\ ServesItsSchema /\ MigratedIsBackedUp

\* The file is not there, or what some daemon has left.
LEMMA DaemonInit == ASSUME InitDaemon PROVE DaemonInv
<1> USE DaemonAssumption DEF InitDaemon
<1>1. /\ database \in [existed : BOOLEAN, version : Nat, commits : Nat]
      /\ ~database.existed => database.version = 0 /\ database.commits = 0
  <2>1. CASE database = NoDatabase
    BY <2>1 DEF NoDatabase
  <2>2. CASE database \in Left
    <3>1. {Latest[d] : d \in Daemons} \subseteq Nat
      OBVIOUS
    <3>2. 1..MaxCommits \subseteq Nat
      OBVIOUS
    <3>3. PICK v \in {Latest[d] : d \in Daemons}, c \in 1..MaxCommits :
            database = [existed |-> TRUE, version |-> v, commits |-> c]
      BY <2>2, Zenon DEF Left
    <3>4. v \in Nat /\ c \in Nat
      BY <3>1, <3>2
    <3>5. QED
      BY <3>3, <3>4
  <2>3. QED
    BY <2>1, <2>2
<1>2. at = [d \in Daemons |-> "off"] /\ backups = {} /\ replaced = {}
  OBVIOUS
<1>3. TypeOKDaemon
  BY <1>1 DEF TypeOKDaemon, Owning, NotOpened
<1>4. QED
  BY <1>1, <1>2, <1>3 DEF DaemonInv, Alone, Present, Opened, Bound, ServesItsSchema,
                          MigratedIsBackedUp, Owning

\* Steps that leave the database and the backups as they are.
LEMMA KeepsDatabase ==
    ASSUME DaemonInv, NEW d \in Daemons,
           \/ Start(d) \/ PrepareSocket(d) \/ Accept(d) \/ Ready(d) \/ Bind(d)
           \/ Serve(d) \/ Stop(d) \/ Fail(d) \/ Unlink(d) \/ Unlock(d) \/ Crash(d)
    PROVE  DaemonInv'
<1> USE DaemonAssumption DEF DaemonInv
<1>1. /\ UNCHANGED <<database, backups, replaced>>
      /\ at' \in [Daemons -> Owning \cup {"off", "locked", "alone", "connected",
                                           "copying", "migrating", "closed"}]
      /\ \A e \in Daemons \ {d} : at'[e] = at[e]
  BY DEF Start, PrepareSocket, Accept, Ready, Bind, Serve, Stop, Fail, Unlink,
         Unlock, Crash, Goes, TypeOKDaemon, Owning
<1>2. opened' = opened \/ (opened' = [opened EXCEPT ![d] = NotOpened] /\ at'[d] = "off")
  BY DEF Start, PrepareSocket, Accept, Ready, Bind, Serve, Stop, Fail, Unlink,
         Unlock, Crash, Goes, TypeOKDaemon
<1>3. /\ lock' \in Daemons \cup {Nobody} /\ socket' \in Daemons \cup {Nobody}
      /\ starts' \in Nat
  BY DEF Start, PrepareSocket, Accept, Ready, Bind, Serve, Stop, Fail, Unlink,
         Unlock, Crash, Goes, TypeOKDaemon
<1>4. TypeOKDaemon'
  <2>1. opened' \in [Daemons -> [existed : BOOLEAN, current : Nat]]
    <3>1. opened \in [Daemons -> [existed : BOOLEAN, current : Nat]]
      BY DEF TypeOKDaemon
    <3>2. NotOpened \in [existed : BOOLEAN, current : Nat]
      BY DEF NotOpened
    <3>3. QED
      BY ONLY <1>2, <3>1, <3>2
  <2>2. QED
    BY <1>1, <1>3, <2>1 DEF TypeOKDaemon, Owning
<1>5. Alone'
  BY <1>1 DEF Alone, TypeOKDaemon, Start, PrepareSocket, Accept, Ready, Bind, Serve,
              Stop, Fail, Unlink, Unlock, Crash, Goes, Owning
\* Where the daemon may have come to, and from where.
<1>6. \/ at'[d] = at[d]
      \/ at'[d] \in {"off", "locked", "alone", "closed"}
      \/ at[d] = "connected" /\ at'[d] = "migrating" /\ Accept(d)
      \/ at[d] = "migrating" /\ at'[d] = "ready" /\ database.version >= Latest[d]
      \/ at[d] \in Owning /\ at'[d] \in Owning
  BY DEF Start, PrepareSocket, Accept, Ready, Bind, Serve, Stop, Fail, Unlink,
         Unlock, Crash, Goes, TypeOKDaemon, Owning
<1>7. Present'
  BY <1>1, <1>6 DEF Present, Owning
<1>8. Opened'
  <2> SUFFICES ASSUME NEW e \in Daemons,
                      at'[e] \in {"connected", "copying", "migrating"}
               PROVE  Opened!(e)'
    BY DEF Opened
  <2> opened'[e] = opened[e]
    BY <1>2 DEF TypeOKDaemon
  <2>1. CASE at'[e] = at[e]
    BY <1>1, <2>1 DEF Opened, Contents
  <2>2. CASE at'[e] # at[e]
    <3>1. e = d /\ at[e] = "connected" /\ at'[e] = "migrating" /\ Accept(d)
      BY <1>1, <1>6, <2>2 DEF Owning
    <3>2. QED
      BY <1>1, <3>1 DEF Accept, NeedsBackup, Opened, TypeOKDaemon
  <2>3. QED
    BY <2>1, <2>2
<1>9. ServesItsSchema'
  <2> SUFFICES ASSUME NEW e \in Daemons, at'[e] \in Owning
               PROVE  database.version = Latest[e]
    BY <1>1 DEF ServesItsSchema
  <2>1. CASE at[e] \in Owning
    BY <2>1 DEF ServesItsSchema
  <2>2. CASE at[e] \notin Owning
    <3>1. e = d /\ at[e] = "migrating" /\ database.version >= Latest[e]
      BY <1>1, <1>6, <2>2 DEF Owning
    <3>2. database.version <= Latest[e] /\ database.version \in Nat /\ Latest[e] \in Nat
      BY <3>1 DEF Opened, TypeOKDaemon
    <3>3. QED
      BY <3>1, <3>2
  <2>3. QED
    BY <2>1, <2>2
<1>10. Bound'
  BY <1>1 DEF Bound, Alone, TypeOKDaemon, Start, PrepareSocket, Accept, Ready, Bind,
              Serve, Stop, Fail, Unlink, Unlock, Crash, Goes, Owning
<1>11. MigratedIsBackedUp'
  BY <1>1 DEF MigratedIsBackedUp
<1>12. QED
  BY <1>4, <1>5, <1>7, <1>8, <1>9, <1>10, <1>11

\* Ping creates the file, empty.
LEMMA Connects == ASSUME DaemonInv, NEW d \in Daemons, Connect(d) PROVE DaemonInv'
<1> USE DaemonAssumption DEF DaemonInv, TypeOKDaemon, Owning, Goes, Connect
<1>1. database' = [database EXCEPT !.existed = TRUE]
  OBVIOUS
<1>2. Contents' = Contents
  BY <1>1 DEF Contents
<1>3. TypeOKDaemon' /\ Alone' /\ Bound' /\ MigratedIsBackedUp'
  BY DEF Alone, Bound, MigratedIsBackedUp
<1>4. Present' /\ Opened' /\ ServesItsSchema'
  BY <1>2 DEF Alone, Present, Opened, ServesItsSchema
<1>5. QED
  BY <1>3, <1>4

\* A verified backup is there before the daemon comes to migrate.
LEMMA BacksUp ==
    ASSUME DaemonInv, NEW d \in Daemons, Backup(d) \/ Verify(d) PROVE DaemonInv'
<1> USE DaemonAssumption DEF DaemonInv, TypeOKDaemon, Owning, Goes, Backup, Verify
<1>1. Contents \in [version : Nat, commits : Nat]
  BY DEF Contents
<1>2. Contents' = Contents
  BY DEF Contents
<1>3. backups \subseteq backups'
  OBVIOUS
<1>a. at' \in [Daemons -> Owning \cup {"off", "locked", "alone", "connected",
                                        "copying", "migrating", "closed"}]
  OBVIOUS
<1>b. PICK b \in BOOLEAN : backups' = backups \cup {[of |-> Contents, verified |-> b]}
  OBVIOUS
<1>c. backups' \subseteq [of : [version : Nat, commits : Nat], verified : BOOLEAN]
  BY <1>1, <1>b
<1>4. TypeOKDaemon'
  BY <1>a, <1>c
<1>d. Alone' /\ Bound'
  BY DEF Alone, Bound
<1>e. Present' /\ ServesItsSchema'
  BY DEF Alone, Present, ServesItsSchema
<1>5. MigratedIsBackedUp'
  BY <1>3 DEF MigratedIsBackedUp
<1>6. Opened'
  BY <1>2, <1>3 DEF Opened, NeedsBackup, Alone
<1>7. QED
  BY <1>4, <1>d, <1>e, <1>5, <1>6

\* The first migration finds the database as it was backed up.
LEMMA Migrates == ASSUME DaemonInv, NEW d \in Daemons, Migrate(d) PROVE DaemonInv'
<1> USE DaemonAssumption DEF DaemonInv, TypeOKDaemon, Owning, Migrate
<1>1. database' = [database EXCEPT !.version = @ + 1]
  OBVIOUS
<1>2. database'.version = database.version + 1 /\ database'.existed = database.existed
      /\ database'.commits = database.commits
  BY <1>1
<1>3. replaced' = replaced \/ replaced' = replaced \cup {Contents}
  OBVIOUS
<1>4. Contents \in [version : Nat, commits : Nat]
  BY DEF Contents
<1>5. TypeOKDaemon' /\ Alone' /\ Bound'
  BY <1>1, <1>3, <1>4 DEF Alone, Bound
<1>6. database.version >= opened[d].current
  BY DEF Opened
<1>7. MigratedIsBackedUp'
  BY DEF MigratedIsBackedUp, Opened
<1>8. Present' /\ ServesItsSchema'
  BY <1>2 DEF Present, Alone, ServesItsSchema
<1>9. Opened'
  BY <1>2, <1>6 DEF Opened, Alone
<1>10. QED
  BY <1>5, <1>7, <1>8, <1>9

\* Only a daemon that owns the database commits.
LEMMA CommitsWork == ASSUME DaemonInv, NEW d \in Daemons, Commit(d) PROVE DaemonInv'
<1> USE DaemonAssumption DEF DaemonInv, TypeOKDaemon, Owning, Commit
<1>1. database' = [database EXCEPT !.commits = @ + 1]
  OBVIOUS
<1>2. database'.version = database.version /\ database'.existed = database.existed
  BY <1>1
<1>3. TypeOKDaemon' /\ Alone' /\ Bound' /\ MigratedIsBackedUp'
  BY <1>1 DEF Alone, Bound, MigratedIsBackedUp
<1>4. Present' /\ ServesItsSchema' /\ Opened'
  BY <1>2 DEF Present, Alone, ServesItsSchema, Opened
<1>5. QED
  BY <1>3, <1>4

-----------------------------------------------------------------------------
(* The runs.                                                               *)

Run == [status : {"running", "completed", "failed", "interrupted"},
        session : Nat, whole : BOOLEAN]

Seen == [sid : Nat, open : BOOLEAN, tooled : BOOLEAN, awaiting : BOOLEAN,
         text : BOOLEAN]

Exec == [at : {"idle", "recorded", "executing", "answered", "again"},
         attempt : {1, 2}, asked : Nat, session : Nat, alive : BOOLEAN,
         turn : {"between", "in", "tooled", "whole"}, steps : Nat,
         child : SUBSET Child, stop : {"none", "cancelled", "terminated", "killed"},
         broken : BOOLEAN, seen : Seen]

\* As long as the whole stream has been read, the callback knows how far the
\* tool is: an answer that looks finished is.
Follows(e) ==
    /\ e.at = "executing" /\ ~e.broken =>
         \/ e.turn = "whole"
         \/ /\ e.turn = "between" /\ ~e.seen.open
            /\ e.seen.text => e.seen.awaiting
         \/ e.turn = "in" /\ e.seen.open /\ ~e.seen.tooled
         \/ e.turn = "tooled" /\ e.seen.open /\ e.seen.tooled
    /\ e.at = "answered" => e.turn = "whole"
    /\ e.at = "recorded" => e.turn = "between" /\ ~e.seen.open /\ ~e.seen.text

\* The Session of the seat, the one that was asked for, the one the tool has
\* and the one it has named are the same, if they are known.
Agrees(e, s) ==
    e.at # "idle" =>
      /\ e.asked # 0 => s = e.asked
      /\ e.asked # 0 /\ e.seen.sid # 0 => e.seen.sid = e.asked
      /\ e.asked = 0 /\ s # 0 => e.seen.sid = s
      /\ e.at = "recorded" => e.asked = s /\ e.seen.sid = 0
      /\ e.at = "executing" =>
           /\ e.session # 0
           /\ e.asked # 0 => e.session = e.asked
           /\ e.seen.sid # 0 => e.seen.sid = e.session

RunsOfSeat ==
    /\ \A i \in DOMAIN runs : runs[i].session # 0 => seat = runs[i].session
    /\ exec.at # "idle" => Len(runs) > 0

ProviderInv ==
    /\ TypeOKProvider /\ exec \in Exec
    /\ Follows(exec) /\ Agrees(exec, seat) /\ RunsOfSeat /\ AcceptedIsWhole

\* What every step has to show.
Keeps == ProviderInv' /\ (seat # 0 => seat' = seat)

\* No execute is in progress.
LEMMA IdleExec == Idle \in Exec
BY DEF Idle, Unread, Exec, Seen

\* A seat without runs and without a Session.
LEMMA ProviderInit == ASSUME InitProvider PROVE ProviderInv
<1> USE DEF InitProvider
<1>1. exec \in Exec /\ exec.at = "idle" /\ exec.stop = "none"
  BY IdleExec DEF Idle
<1>2. /\ runs = <<>> /\ seat = 0 /\ sessions = 0 /\ orphans = {} /\ tool \in Tools
      /\ context = "none" /\ failed = FALSE
  OBVIOUS
<1>3. TypeOKProvider
  <2>1. exec.at \in {"idle"} /\ exec.stop \in {"none"}
    BY <1>1
  <2>2. runs \in Seq(Run)
    BY <1>2, EmptySeq
  <2>3. failed \in BOOLEAN
    BY <1>2
  <2>4. {seat, sessions} \subseteq Nat /\ orphans \subseteq Nat
    BY <1>2
  <2>5. context \in {"none", "live", "cancelled"}
    BY <1>2
  <2>6. QED
    BY <1>2, <2>1, <2>2, <2>3, <2>4, <2>5, Zenon DEF TypeOKProvider, Run
<1>4. Follows(exec) /\ Agrees(exec, seat)
  BY <1>1 DEF Follows, Agrees
<1>5. RunsOfSeat /\ AcceptedIsWhole
  BY <1>1, <1>2 DEF RunsOfSeat, AcceptedIsWhole
<1>6. QED
  BY <1>1, <1>3, <1>4, <1>5 DEF ProviderInv

\* Whatever the result of a run is recorded with, it is the Session of the seat.
LEMMA OneSession ==
    ASSUME ProviderInv, exec.at # "idle"
    PROVE  Session \in Nat /\ (seat # 0 => Session = seat)
BY DEF ProviderInv, TypeOKProvider, Exec, Seen, Agrees, Session

\* One run is replaced by r.
LEMMA Replaces ==
    ASSUME ProviderInv, NEW i \in DOMAIN runs, NEW r \in Run, r.status = "completed" => r.whole,
           runs' = [runs EXCEPT ![i] = r],
           seat # 0 /\ r.session # 0 => seat = r.session,
           seat' = Kept(r.session)
    PROVE  /\ runs' \in Seq(Run) /\ Len(runs') = Len(runs) /\ seat' \in Nat
           /\ seat # 0 => seat' = seat
           /\ RunsOfSeat!1' /\ AcceptedIsWhole'
<1>1. runs \in Seq(Run) /\ seat \in Nat /\ r.session \in Nat
  BY DEF ProviderInv, TypeOKProvider, Run
<1>2. runs' \in Seq(Run) /\ Len(runs') = Len(runs)
  BY <1>1, ExceptSeq
<1>3. DOMAIN runs' = DOMAIN runs /\ \A j \in DOMAIN runs : runs'[j] \in {runs[j], r}
  <2>1. runs \in [1..Len(runs) -> Run]
    BY <1>1
  <2>2. QED
    BY <2>1
<1>4. seat' \in Nat /\ (seat # 0 => seat' = seat) /\ (r.session # 0 => seat' = r.session)
  BY <1>1 DEF Kept
<1>5. RunsOfSeat!1'
  BY <1>1, <1>3, <1>4 DEF ProviderInv, RunsOfSeat
<1>6. AcceptedIsWhole'
  BY <1>3 DEF ProviderInv, AcceptedIsWhole
<1>7. QED
  BY <1>2, <1>4, <1>5, <1>6

\* One run is recorded as running, failed or interrupted.
LEMMA RecordsKeeps ==
    ASSUME ProviderInv, NEW i \in DOMAIN runs, NEW s \in Nat,
           NEW status \in {"running", "failed", "interrupted"},
           seat # 0 /\ s # 0 => seat = s,
           Records(i, status, s)
    PROVE  /\ runs' \in Seq(Run) /\ Len(runs') = Len(runs) /\ seat' \in Nat
           /\ seat # 0 => seat' = seat
           /\ RunsOfSeat!1' /\ AcceptedIsWhole'
<1> DEFINE r == [status |-> status, session |-> s, whole |-> FALSE]
<1>1. r \in Run /\ r.session = s /\ r.status # "completed"
  BY DEF Run
<1>2. runs' = [runs EXCEPT ![i] = r] /\ seat' = Kept(r.session)
  BY DEF Records
<1> HIDE DEF r
<1>3. QED
  BY <1>1, <1>2, Replaces

\* A step that leaves runs and seat as they are.
LEMMA ExecOnly ==
    ASSUME ProviderInv, UNCHANGED <<tool, runs, seat>>, failed' \in BOOLEAN,
           context' \in {"none", "live", "cancelled"},
           sessions' \in Nat, orphans' \subseteq Nat,
           exec' \in Exec, exec.at = "idle" => exec'.at = "idle",
           Follows(exec'), Agrees(exec', seat)
    PROVE  Keeps
<1>1. TypeOKProvider'
  BY DEF ProviderInv, TypeOKProvider, Exec
<1>2. RunsOfSeat' /\ AcceptedIsWhole'
  BY DEF ProviderInv, RunsOfSeat, AcceptedIsWhole
<1>3. QED
  BY <1>1, <1>2 DEF Keeps, ProviderInv

\* A step that changes one record and what the run is to do next.
LEMMA RecordAndExec ==
    ASSUME ProviderInv, NEW s \in Nat, seat # 0 /\ s # 0 => seat = s,
           NEW status \in {"running", "failed", "interrupted"},
           NEW i \in DOMAIN runs,
           Records(i, status, s), UNCHANGED <<tool, context, sessions, orphans>>,
           failed' \in BOOLEAN, exec' \in Exec, exec.at = "idle" => exec'.at = "idle",
           Follows(exec'), Agrees(exec', seat')
    PROVE  Keeps
<1>1. /\ runs' \in Seq(Run) /\ Len(runs') = Len(runs) /\ seat' \in Nat
      /\ seat # 0 => seat' = seat
      /\ RunsOfSeat!1' /\ AcceptedIsWhole'
  BY RecordsKeeps
<1>2. TypeOKProvider'
  BY <1>1 DEF ProviderInv, TypeOKProvider, Exec, Run
<1>3. RunsOfSeat'
  BY <1>1 DEF ProviderInv, RunsOfSeat
<1>4. QED
  BY <1>1, <1>2, <1>3 DEF Keeps, ProviderInv

\* A run some earlier daemon left open keeps its Session.
LEMMA Interrupts == ASSUME ProviderInv, Interrupt PROVE Keeps
<1>1. PICK i \in Open : Records(i, "interrupted", runs[i].session)
  BY DEF Interrupt
<1>2. i \in DOMAIN runs /\ runs[i].session \in Nat
  <2>1. i \in DOMAIN runs /\ runs \in Seq(Run)
    BY DEF Open, ProviderInv, TypeOKProvider, Run
  <2>2. runs[i] \in Run
    BY <2>1
  <2>3. QED
    BY <2>1, <2>2 DEF Run
<1>3. seat # 0 /\ runs[i].session # 0 => seat = runs[i].session
  BY <1>2 DEF ProviderInv, RunsOfSeat
<1>4. exec' = exec /\ exec.at = "idle" /\ failed' = failed
      /\ UNCHANGED <<tool, context, sessions, orphans>>
  BY DEF Interrupt
<1>5. exec' \in Exec /\ Follows(exec') /\ Agrees(exec', seat')
  BY <1>4 DEF ProviderInv, Follows, Agrees
<1>6. failed' \in BOOLEAN
  BY <1>4 DEF ProviderInv, TypeOKProvider
<1>7. QED
  BY <1>1, <1>2, <1>3, <1>4, <1>5, <1>6, RecordAndExec

\* A new run, in the Session of the seat.
LEMMA BeginsKeeps ==
    ASSUME ProviderInv, NEW s \in Nat, NEW attempt \in {1, 2}, seat # 0 => s = seat,
           Begins(s, attempt),
           UNCHANGED <<tool, context, sessions, orphans>>, failed' = failed
    PROVE  Keeps
<1> DEFINE r == [status |-> "running", session |-> s, whole |-> FALSE]
<1>1. r \in Run /\ r.session = s /\ r.status # "completed"
  BY DEF Run
<1>2. runs' = Append(runs, r) /\ seat' = Kept(s)
  BY DEF Begins
<1> HIDE DEF r
<1>3. runs \in Seq(Run) /\ seat \in Nat
  BY DEF ProviderInv, TypeOKProvider, Run
<1>4. /\ runs' \in Seq(Run) /\ Len(runs') = Len(runs) + 1 /\ Len(runs) \in Nat
      /\ \A j \in DOMAIN runs' : runs'[j] = r \/ (j \in DOMAIN runs /\ runs'[j] = runs[j])
  <2>1. \A j \in 1..Len(runs) : runs'[j] = runs[j]
    BY <1>1, <1>2, <1>3, AppendProperties
  <2>2. runs'[Len(runs) + 1] = r /\ Len(runs') = Len(runs) + 1 /\ runs' \in Seq(Run)
    BY <1>1, <1>2, <1>3, AppendProperties
  <2>3. DOMAIN runs = 1..Len(runs) /\ DOMAIN runs' = 1..Len(runs') /\ Len(runs) \in Nat
    BY <1>3, <2>2, LenProperties
  <2>4. ASSUME NEW j \in DOMAIN runs'
        PROVE  runs'[j] = r \/ (j \in DOMAIN runs /\ runs'[j] = runs[j])
    <3>1. j \in 1..Len(runs) \/ j = Len(runs) + 1
      BY <2>2, <2>3
    <3>2. QED
      BY <2>1, <2>2, <2>3, <3>1
  <2>5. QED
    BY <2>2, <2>3, <2>4
<1>5. seat' \in Nat /\ (seat # 0 => seat' = seat) /\ seat' = s
  BY <1>2, <1>3 DEF Kept
<1>6. RunsOfSeat' /\ AcceptedIsWhole'
  BY <1>1, <1>3, <1>4, <1>5 DEF ProviderInv, RunsOfSeat, AcceptedIsWhole
<1>7. /\ exec' \in Exec /\ exec'.at = "recorded" /\ exec'.asked = s /\ exec'.seen.sid = 0
      /\ exec'.turn = "between" /\ ~exec'.seen.open /\ ~exec'.seen.text
  BY DEF Begins, Idle, Unread, Exec, Seen
<1>8. Follows(exec') /\ Agrees(exec', seat')
  BY <1>5, <1>7 DEF Follows, Agrees
<1>9. TypeOKProvider'
  BY <1>4, <1>5, <1>7 DEF ProviderInv, TypeOKProvider, Exec, Run
<1>10. QED
  BY <1>5, <1>6, <1>7, <1>8, <1>9 DEF Keeps, ProviderInv

\* The first attempt is in the Session of the seat.
LEMMA BeginKeeps == ASSUME ProviderInv, Begin PROVE Keeps
<1>1. seat \in Nat
  BY DEF ProviderInv, TypeOKProvider
<1>2. QED
  BY <1>1, BeginsKeeps DEF Begin

\* The end of a run whose error is returned.
LEMMA GivesUpKeeps ==
    ASSUME ProviderInv, exec.at # "idle",
           \/ \E s \in {0, exec.asked, Session} : Records(Last, "failed", s)
           \/ Unrecorded,
           GivesUp \/ (exec' = Idle /\ failed' = failed),
           UNCHANGED <<tool, context, sessions, orphans>>
    PROVE  Keeps
<1>0. failed' \in BOOLEAN
  <2>1. failed \in BOOLEAN
    BY DEF ProviderInv, TypeOKProvider
  <2>2. (context = "live") \in BOOLEAN
    OBVIOUS
  <2>3. failed' \in {TRUE, context = "live"} \/ failed' = failed
    BY DEF GivesUp
  <2>4. QED
    BY <2>1, <2>2, <2>3, Zenon
<1>1. exec' \in Exec /\ exec'.at = "idle"
  <2>1. exec' = Idle
    BY DEF GivesUp
  <2>2. Idle.at = "idle"
    BY DEF Idle
  <2>3. QED
    BY ONLY <2>1, <2>2, IdleExec
<1>2. Follows(exec') /\ \A s : Agrees(exec', s)
  BY <1>1 DEF Follows, Agrees
<1>3. CASE Unrecorded
  BY <1>0, <1>1, <1>2, <1>3, ExecOnly DEF Unrecorded, ProviderInv, TypeOKProvider
<1>4. ASSUME NEW s \in {0, exec.asked, Session}, Records(Last, "failed", s)
      PROVE  Keeps
  <2>1. s \in Nat /\ (seat # 0 /\ s # 0 => seat = s)
    BY OneSession DEF ProviderInv, Exec, Agrees
  <2>2. Last \in DOMAIN runs
    BY LenProperties DEF Last, ProviderInv, RunsOfSeat, TypeOKProvider
  <2>3. QED
    BY <1>0, <1>1, <1>2, <1>4, <2>1, <2>2, RecordAndExec
<1>5. QED
  BY <1>3, <1>4

\* The tool was not started.
LEMMA LaunchFailsKeeps == ASSUME ProviderInv, LaunchFails PROVE Keeps
BY GivesUpKeeps DEF LaunchFails

\* The run has failed.
LEMMA BreaksKeeps == ASSUME ProviderInv, Breaks PROVE Keeps
BY GivesUpKeeps DEF Breaks

\* What is kept of a run that is over.
LEMMA OverFacts ==
    ASSUME ProviderInv, NEW where \in {"answered", "again"}
    PROVE  /\ Over(where) \in Exec /\ Over(where).at = where
           /\ Over(where).turn = exec.turn /\ Over(where).asked = exec.asked
           /\ Over(where).seen.sid = exec.seen.sid
<1>1. exec \in Exec
  BY DEF ProviderInv
<1>2. exec.attempt \in {1, 2} /\ exec.asked \in Nat /\ exec.seen.sid \in Nat
      /\ exec.turn \in {"between", "in", "tooled", "whole"}
  BY <1>1 DEF Exec, Seen
<1> DEFINE u == [Unread EXCEPT !.sid = exec.seen.sid]
           o == [Idle EXCEPT !.at = where, !.attempt = exec.attempt,
                             !.asked = exec.asked, !.turn = exec.turn, !.seen = u]
<1>3. u \in Seen /\ u.sid = exec.seen.sid
  BY <1>2 DEF Unread, Seen
<1> HIDE DEF u
<1>4. o \in Exec
  BY <1>2, <1>3 DEF Exec, Idle
<1>5. o.at = where /\ o.asked = exec.asked /\ o.turn = exec.turn /\ o.seen = u
  BY DEF Idle
<1>6. Over(where) = o
  BY DEF Over, u
<1>7. QED
  BY <1>3, <1>4, <1>5, <1>6

\* What looks finished is: the callback has followed the whole stream.
LEMMA AnswersKeeps == ASSUME ProviderInv, Answers PROVE Keeps
<1>1. exec' = Over("answered") /\ exec.at = "executing"
  BY DEF Answers
<1>2. exec.turn = "whole"
  BY DEF Answers, Fails, ProviderInv, Follows, Exec
<1>3. /\ exec' \in Exec /\ exec'.at = "answered" /\ exec'.turn = exec.turn
      /\ exec'.asked = exec.asked /\ exec'.seen.sid = exec.seen.sid
  BY <1>1, OverFacts
<1>4. Follows(exec')
  BY <1>2, <1>3 DEF Follows
<1>5. Agrees(exec', seat)
  BY <1>1, <1>3 DEF ProviderInv, Agrees
<1>6. UNCHANGED <<tool, context, runs, seat, sessions, failed, orphans>>
  BY DEF Answers
<1>7. QED
  BY <1>1, <1>3, <1>4, <1>5, <1>6, ExecOnly DEF ProviderInv, TypeOKProvider

\* The correction asks for the Session of the refused answer.
LEMMA RefusedKeeps == ASSUME ProviderInv, Refused PROVE Keeps
<1>1. exec.at = "answered" /\ UNCHANGED <<tool, context, sessions, orphans>>
  BY DEF Refused
<1>2. CASE Records(Last, "failed", Session) /\ exec' = Over("again") /\ failed' = failed
  <2>1. Last \in DOMAIN runs
    BY <1>1, LenProperties DEF Last, ProviderInv, RunsOfSeat, TypeOKProvider
  <2>2. Session \in Nat /\ (seat # 0 => Session = seat)
    BY <1>1, OneSession
  <2>3. /\ exec' \in Exec /\ exec'.at = "again"
        /\ exec'.asked = exec.asked /\ exec'.seen.sid = exec.seen.sid
    BY <1>2, OverFacts
  <2>4. Follows(exec')
    BY <2>3 DEF Follows
  <2>5. seat' = Kept(Session)
    BY <1>2 DEF Records
  <2>6. Agrees(exec', seat')
    BY <1>1, <2>2, <2>3, <2>5 DEF ProviderInv, Agrees, Kept, Session
  <2>7. failed' \in BOOLEAN
    BY <1>2 DEF ProviderInv, TypeOKProvider
  <2>8. QED
    BY <1>1, <1>2, <2>1, <2>2, <2>3, <2>4, <2>6, <2>7, RecordAndExec
<1>3. CASE \/ Records(Last, "failed", Session) /\ GivesUp
           \/ Records(Last, "failed", Session) /\ exec' = Idle /\ failed' = failed
           \/ Unrecorded /\ GivesUp
  BY <1>1, <1>3, GivesUpKeeps
<1>4. QED
  BY <1>2, <1>3 DEF Refused

\* A completed run is whole.
LEMMA AcceptedKeeps == ASSUME ProviderInv, Accepted PROVE Keeps
<1>1. exec.at = "answered" /\ UNCHANGED <<tool, context, sessions, orphans>>
  BY DEF Accepted
<1>2. CASE Unrecorded /\ GivesUp
  BY <1>1, <1>2, GivesUpKeeps
<1>3. CASE ~(Unrecorded /\ GivesUp)
  <2> DEFINE r == [status |-> "completed", session |-> Session,
                   whole |-> exec.turn = "whole"]
  <2>1. Session \in Nat /\ (seat # 0 => Session = seat)
    BY <1>1, OneSession
  <2>2. exec.turn = "whole"
    BY <1>1 DEF ProviderInv, Follows
  <2>3. r \in Run /\ r.session = Session /\ r.whole
    BY <2>1, <2>2 DEF Run
  <2>4. Last \in DOMAIN runs
    BY <1>1, LenProperties DEF Last, ProviderInv, RunsOfSeat, TypeOKProvider
  <2>5. /\ runs' = [runs EXCEPT ![Last] = r] /\ seat' = Kept(r.session)
        /\ exec' = Idle /\ failed' = failed
    BY <1>3 DEF Accepted
  <2> HIDE DEF r
  <2>6. /\ runs' \in Seq(Run) /\ Len(runs') = Len(runs) /\ seat' \in Nat
        /\ seat # 0 => seat' = seat
        /\ RunsOfSeat!1' /\ AcceptedIsWhole'
    BY <2>1, <2>3, <2>4, <2>5, Replaces
  <2>7. exec' \in Exec /\ exec'.at = "idle"
    <3>1. Idle.at = "idle"
      BY DEF Idle
    <3>2. QED
      BY <2>5, <3>1, IdleExec
  <2>8. Follows(exec') /\ Agrees(exec', seat')
    BY <2>7 DEF Follows, Agrees
  <2>9. TypeOKProvider'
    BY <1>1, <2>5, <2>6, <2>7 DEF ProviderInv, TypeOKProvider, Exec, Run
  <2>10. RunsOfSeat'
    BY <2>6, <2>7 DEF RunsOfSeat
  <2>11. QED
    BY <2>6, <2>7, <2>8, <2>9, <2>10 DEF Keeps, ProviderInv
<1>4. QED
  BY <1>2, <1>3

\* The correction is in the Session of the seat.
LEMMA AgainKeeps == ASSUME ProviderInv, Again PROVE Keeps
<1>1. exec.at = "again" /\ UNCHANGED <<tool, context, sessions, orphans>>
  BY DEF Again
<1>2. CASE Unrecorded /\ GivesUp
  BY <1>1, <1>2, GivesUpKeeps
<1>3. CASE Begins(Session, 2) /\ failed' = failed
  BY <1>1, <1>3, OneSession, BeginsKeeps
<1>4. QED
  BY <1>2, <1>3 DEF Again

-----------------------------------------------------------------------------
(* The stream of the tool.                                                 *)

\* Everything a step of runStreamed may change of a run in progress.
LEMMA Executing ==
    ASSUME ProviderInv, exec.at = "executing",
           UNCHANGED <<tool, context, runs, seat, sessions, failed, orphans>>,
           exec' \in Exec, exec'.at = "executing",
           exec'.asked = exec.asked, exec'.session = exec.session,
           exec'.seen.sid = exec.seen.sid, Follows(exec')
    PROVE  Keeps
<1>1. Agrees(exec', seat)
  BY DEF ProviderInv, Agrees
<1>2. QED
  BY <1>1, ExecOnly DEF ProviderInv, TypeOKProvider

\* What is left of a stream that was not read.
LEMMA SpoiledFacts ==
    ASSUME NEW e \in Exec
    PROVE  /\ Spoiled(e) \in Exec /\ Spoiled(e).at = e.at /\ Spoiled(e).broken
           /\ Spoiled(e).asked = e.asked /\ Spoiled(e).session = e.session
           /\ Spoiled(e).seen.sid = e.seen.sid /\ Spoiled(e).stop = e.stop
<1>1. e.seen.sid \in Nat
  BY DEF Exec, Seen
<1> DEFINE u == [Unread EXCEPT !.sid = e.seen.sid]
           o == [e EXCEPT !.broken = TRUE, !.turn = "between", !.steps = 0, !.seen = u]
<1>2. u \in Seen /\ u.sid = e.seen.sid
  BY <1>1 DEF Unread, Seen
<1> HIDE DEF u
<1>3. o \in Exec
  BY <1>2 DEF Exec
<1>4. /\ o.at = e.at /\ o.broken /\ o.asked = e.asked /\ o.session = e.session
      /\ o.stop = e.stop /\ o.seen = u
  BY DEF Exec
<1>5. Spoiled(e) = o
  BY DEF Spoiled, u
<1>6. QED
  BY <1>2, <1>3, <1>4, <1>5

\* Nothing is claimed of a stream that was not read to its end.
LEMMA SpoiledFollows ==
    ASSUME NEW e \in Exec, e.at = "executing" PROVE Follows(Spoiled(e))
BY SpoiledFacts DEF Follows

\* A tool that is told no Session makes a new one.
LEMMA LaunchKeeps == ASSUME ProviderInv, Launch PROVE Keeps
<1>1. PICK c \in Children :
         exec' = [exec EXCEPT !.at = "executing", !.alive = TRUE, !.child = c,
                    !.session = IF exec.asked = 0 THEN sessions' ELSE exec.asked]
  BY DEF Launch
<1>2. exec \in Exec /\ exec.at = "recorded" /\ sessions \in Nat /\ c \in SUBSET Child
  BY ProviderAssumption DEF Launch, ProviderInv, TypeOKProvider
<1>3. UNCHANGED <<tool, context, runs, seat, failed, orphans>>
  BY DEF Launch
<1>4. sessions' = IF exec.asked = 0 THEN sessions + 1 ELSE sessions
  BY DEF Launch
<1>5. sessions' \in Nat /\ (exec.asked = 0 => sessions' # 0)
  BY <1>2, <1>4
<1>6. exec' \in Exec
  BY <1>1, <1>2, <1>5 DEF Exec
<1>7. /\ exec'.at = "executing" /\ exec'.asked = exec.asked /\ exec'.seen = exec.seen
      /\ exec'.session = IF exec.asked = 0 THEN sessions' ELSE exec.asked
      /\ exec'.turn = exec.turn
  BY <1>1, <1>2 DEF Exec
<1>8. Agrees(exec', seat)
  BY <1>2, <1>5, <1>7 DEF ProviderInv, Agrees
<1>9. Follows(exec')
  BY <1>2, <1>7 DEF ProviderInv, Follows
<1>10. QED
  BY <1>2, <1>3, <1>5, <1>6, <1>8, <1>9, ExecOnly DEF ProviderInv, TypeOKProvider

\* The rest of the stream is not read.
LEMMA OverlongKeeps == ASSUME ProviderInv, Overlong PROVE Keeps
<1>1. exec \in Exec /\ exec.at = "executing" /\ exec' = Spoiled(exec)
      /\ UNCHANGED <<tool, context, runs, seat, sessions, failed, orphans>>
  BY DEF Overlong, ProviderInv
<1>2. QED
  BY <1>1, SpoiledFacts, SpoiledFollows, Executing

\* The process has changed, what it has written has not.
LEMMA ProcessChanges ==
    ASSUME ProviderInv, exec.at = "executing", NEW e \in Exec,
           e.at = exec.at, e.asked = exec.asked, e.session = exec.session,
           e.seen = exec.seen, e.turn = exec.turn, e.broken = exec.broken,
           exec' = e \/ exec' = Spoiled(e),
           UNCHANGED <<tool, context, runs, seat, sessions, failed, orphans>>
    PROVE  Keeps
<1>1. CASE exec' = e
  <2>1. Follows(exec')
    BY <1>1 DEF ProviderInv, Follows
  <2>2. QED
    BY <1>1, <2>1, Executing
<1>2. CASE exec' = Spoiled(e)
  BY <1>2, SpoiledFacts, SpoiledFollows, Executing
<1>3. QED
  BY <1>1, <1>2

\* The tool ends.
LEMMA ExitKeeps == ASSUME ProviderInv, Exit PROVE Keeps
<1> DEFINE e == [exec EXCEPT !.alive = FALSE]
<1>1. exec \in Exec /\ exec.at = "executing"
  BY DEF ProviderInv, Exit
<1>2. /\ e \in Exec /\ e.at = exec.at /\ e.asked = exec.asked
      /\ e.session = exec.session /\ e.seen = exec.seen /\ e.turn = exec.turn
      /\ e.broken = exec.broken
  BY <1>1 DEF Exec
<1>3. (exec' = e \/ exec' = Spoiled(e))
      /\ UNCHANGED <<tool, context, runs, seat, sessions, failed, orphans>>
  BY DEF Exit
<1> HIDE DEF e
<1>4. QED
  BY <1>1, <1>2, <1>3, ProcessChanges

\* What the tool left behind ends.
LEMMA ChildEndsKeeps == ASSUME ProviderInv, ChildEnds PROVE Keeps
<1>1. exec \in Exec /\ exec' = [exec EXCEPT !.child = {}]
      /\ UNCHANGED <<tool, context, runs, seat, sessions, failed, orphans>>
  BY DEF ProviderInv, ChildEnds
<1>2. /\ exec' \in Exec /\ exec'.at = exec.at /\ exec'.asked = exec.asked
      /\ exec'.session = exec.session /\ exec'.seen = exec.seen
      /\ exec'.turn = exec.turn /\ exec'.broken = exec.broken
  BY <1>1 DEF Exec
<1>3. Follows(exec') /\ Agrees(exec', seat)
  BY <1>2 DEF ProviderInv, Follows, Agrees
<1>4. QED
  BY <1>1, <1>2, <1>3, ExecOnly DEF ProviderInv, TypeOKProvider

\* A cancelled run, a signal.
LEMMA AdvancesKeeps ==
    ASSUME ProviderInv, NEW from, NEW to \in {"cancelled", "terminated", "killed"},
           Advances(from, to)
    PROVE  Keeps
<1>1. exec \in Exec /\ exec.at = "executing" /\ exec' = [exec EXCEPT !.stop = to]
      /\ UNCHANGED <<tool, context, runs, seat, sessions, failed, orphans>>
  BY DEF ProviderInv, Advances
<1>2. /\ exec' \in Exec /\ exec'.at = exec.at /\ exec'.asked = exec.asked
      /\ exec'.session = exec.session /\ exec'.seen = exec.seen
      /\ exec'.turn = exec.turn /\ exec'.broken = exec.broken
  BY <1>1 DEF Exec
<1>3. QED
  BY <1>1, <1>2, ProcessChanges

\* SIGKILL to the group.
LEMMA KillKeeps == ASSUME ProviderInv, Kill PROVE Keeps
<1> DEFINE left == {c \in exec.child : ~c.group}
           e == [exec EXCEPT !.stop = "killed", !.alive = FALSE, !.child = left]
<1>1. exec \in Exec /\ exec.at = "executing"
  BY DEF ProviderInv, Kill
<1>2. left \in SUBSET Child
  BY <1>1 DEF Exec
<1>3. (exec' = e \/ exec' = Spoiled(e))
      /\ UNCHANGED <<tool, context, runs, seat, sessions, failed, orphans>>
  BY DEF Kill
<1> HIDE DEF left
<1>4. /\ e \in Exec /\ e.at = exec.at /\ e.asked = exec.asked
      /\ e.session = exec.session /\ e.seen = exec.seen /\ e.turn = exec.turn
      /\ e.broken = exec.broken
  BY <1>1, <1>2 DEF Exec
<1> HIDE DEF e
<1>5. QED
  BY <1>1, <1>3, <1>4, ProcessChanges

\* The run after a line: the callback has followed it, and has the Session the
\* tool names.
LEMMA Reading ==
    ASSUME ProviderInv, exec.at = "executing", ~exec.broken,
           NEW t \in Turns, exec.turn = t[1]
    PROVE  /\ Reads(t) \in Exec /\ Follows(Reads(t)) /\ Reads(t).at = "executing"
           /\ Reads(t).asked = exec.asked /\ Reads(t).session = exec.session
           /\ Reads(t).stop = exec.stop
           /\ Reads(t).seen.sid = IF Names(t[2]) THEN exec.session ELSE exec.seen.sid
<1> DEFINE p == Parsed(exec.seen, t[2])
           q == IF Names(t[2]) THEN [p EXCEPT !.sid = exec.session] ELSE p
           n == IF t[2] = "step_start" THEN exec.steps + 1 ELSE exec.steps
           e == [exec EXCEPT !.turn = t[3], !.steps = n, !.seen = q]
<1>1. exec \in Exec
  BY DEF ProviderInv
<1>2. exec.seen \in Seen /\ exec.session \in Nat /\ exec.steps \in Nat
  BY <1>1 DEF Exec
<1>3. p \in Seen /\ p.sid = exec.seen.sid
  BY <1>2 DEF Parsed, Finishes, Seen
<1>4. q \in Seen /\ q.open = p.open /\ q.tooled = p.tooled /\ q.text = p.text
      /\ q.awaiting = p.awaiting
      /\ q.sid = IF Names(t[2]) THEN exec.session ELSE exec.seen.sid
  BY <1>2, <1>3 DEF Seen
<1>5. n \in Nat /\ t[3] \in {"between", "in", "tooled", "whole"}
  BY <1>2 DEF Turns
<1>6. t[2] # "error" =>
        \/ t[3] = "whole"
        \/ /\ t[3] = "between" /\ ~p.open
           /\ p.text => p.awaiting
        \/ t[3] = "in" /\ p.open /\ ~p.tooled
        \/ t[3] = "tooled" /\ p.open /\ p.tooled
  <2>1. \/ exec.turn = "whole"
        \/ /\ exec.turn = "between" /\ ~exec.seen.open
           /\ exec.seen.text => exec.seen.awaiting
        \/ exec.turn = "in" /\ exec.seen.open /\ ~exec.seen.tooled
        \/ exec.turn = "tooled" /\ exec.seen.open /\ exec.seen.tooled
    BY DEF ProviderInv, Follows
  <2>2. QED
    BY <1>2, <2>1 DEF Turns, Parsed, Finishes, Seen
<1> HIDE DEF p, q, n
<1>7. /\ e \in Exec /\ e.at = exec.at /\ e.asked = exec.asked
      /\ e.session = exec.session /\ e.stop = exec.stop /\ e.seen = q
      /\ e.turn = t[3]
  BY <1>1, <1>4, <1>5 DEF Exec
<1>8. Reads(t) = IF t[2] = "error" THEN Spoiled(e) ELSE e
  BY DEF Reads, p, q, n
<1> HIDE DEF e
<1>9. CASE t[2] = "error"
  BY <1>4, <1>7, <1>8, <1>9, SpoiledFacts, SpoiledFollows
<1>10. CASE t[2] # "error"
  <2>1. Follows(e)
    BY <1>4, <1>6, <1>7, <1>10 DEF Follows
  <2>2. QED
    BY <1>4, <1>7, <1>8, <1>10, <2>1
<1>11. QED
  BY <1>9, <1>10

\* A line, pinned or not: a Session is named once, and only a seat without one
\* takes it.
LEMMA LineKeeps == ASSUME ProviderInv, Line PROVE Keeps
<1>1. /\ exec \in Exec /\ exec.at = "executing" /\ ~exec.broken
      /\ UNCHANGED <<tool, context, sessions, failed, orphans>>
      /\ exec.session \in Nat /\ exec.session # 0 /\ exec.asked \in Nat
      /\ exec.asked # 0 => exec.session = exec.asked
  BY DEF Line, ProviderInv, Agrees, Exec
<1>2. PICK t \in Turns :
         /\ exec.turn = t[1]
         /\ IF Names(t[2]) /\ exec.session # exec.asked
            THEN \/ Records(Last, "running", exec.session) /\ exec' = Reads(t)
                 \/ /\ exec' = [Spoiled(Reads(t)) EXCEPT
                                   !.stop = IF @ = "none" THEN "cancelled" ELSE @]
                    /\ Unrecorded
            ELSE exec' = Reads(t) /\ Unrecorded
  BY DEF Line
<1> DEFINE r == Reads(t)
<1>3. /\ r \in Exec /\ Follows(r) /\ r.at = "executing"
      /\ r.asked = exec.asked /\ r.session = exec.session
      /\ r.seen.sid = IF Names(t[2]) THEN exec.session ELSE exec.seen.sid
  BY <1>1, <1>2, Reading
<1>4. Names(t[2]) => exec.seen.sid = 0
  BY DEF Names
<1> HIDE DEF r
<1>5. Names(t[2]) /\ exec.session # exec.asked => exec.asked = 0 /\ seat = 0
  BY <1>1, <1>4 DEF ProviderInv, Agrees
<1>6. CASE exec' = r /\ Unrecorded /\ (Names(t[2]) => exec.session = exec.asked)
  <2>1. Agrees(exec', seat)
    BY <1>1, <1>3, <1>6 DEF ProviderInv, Agrees
  <2>2. QED
    BY <1>1, <1>3, <1>6, <2>1, ExecOnly DEF Unrecorded, ProviderInv, TypeOKProvider
<1>7. CASE Names(t[2]) /\ exec.session # exec.asked
           /\ Records(Last, "running", exec.session) /\ exec' = r
  <2>1. Last \in DOMAIN runs
    BY <1>1, LenProperties DEF Last, ProviderInv, RunsOfSeat, TypeOKProvider
  <2>2. seat' = exec.session
    BY <1>1, <1>7 DEF Records, Kept
  <2>3. Agrees(exec', seat')
    BY <1>1, <1>3, <1>5, <1>7, <2>2 DEF Agrees
  <2>4. failed' \in BOOLEAN
    BY <1>1 DEF ProviderInv, TypeOKProvider
  <2>5. QED
    BY <1>1, <1>3, <1>5, <1>7, <2>1, <2>3, <2>4, RecordAndExec
<1>8. CASE /\ Names(t[2]) /\ exec.session # exec.asked /\ Unrecorded
           /\ exec' = [Spoiled(r) EXCEPT !.stop = IF @ = "none" THEN "cancelled" ELSE @]
  <2>1. /\ Spoiled(r) \in Exec /\ Spoiled(r).at = "executing" /\ Spoiled(r).broken
        /\ Spoiled(r).asked = exec.asked /\ Spoiled(r).session = exec.session
        /\ Spoiled(r).seen.sid = exec.session
    BY <1>3, <1>8, SpoiledFacts
  <2>2. /\ exec' \in Exec /\ exec'.at = "executing" /\ exec'.broken
        /\ exec'.asked = exec.asked /\ exec'.session = exec.session
        /\ exec'.seen.sid = exec.session
    BY <1>8, <2>1 DEF Exec
  <2>3. Follows(exec') /\ Agrees(exec', seat)
    BY <1>1, <1>5, <1>8, <2>2 DEF Follows, Agrees
  <2>4. QED
    BY <1>1, <1>8, <2>2, <2>3, ExecOnly DEF Unrecorded, ProviderInv, TypeOKProvider
<1>9. QED
  BY <1>2, <1>6, <1>7, <1>8 DEF r

\* Every step of the runs.
LEMMA StepKeeps == ASSUME ProviderInv, StepProvider PROVE Keeps
<1>1. CASE Interrupt \/ Begin
  BY <1>1, Interrupts, BeginKeeps
<1>2. CASE Supervise
  <2>1. CASE Cancel \/ Terminate
    BY <2>1, AdvancesKeeps DEF Cancel, Terminate
  <2>2. CASE Kill
    BY <2>2, KillKeeps
  <2>3. QED
    BY <1>2, <2>1, <2>2, LaunchKeeps, LaunchFailsKeeps, AnswersKeeps, BreaksKeeps,
       AcceptedKeeps, RefusedKeeps, AgainKeeps DEF Supervise
<1>3. CASE ToolSteps
  <2>1. CASE OrphanEnds
    <3>1. orphans' \subseteq Nat
          /\ UNCHANGED <<tool, context, runs, seat, sessions, exec, failed>>
      BY <2>1 DEF OrphanEnds
    <3>2. exec' \in Exec /\ Follows(exec') /\ Agrees(exec', seat)
      BY <3>1 DEF ProviderInv
    <3>3. QED
      BY <3>1, <3>2, ExecOnly DEF ProviderInv, TypeOKProvider
  <2>2. QED
    BY <1>3, <2>1, LineKeeps, OverlongKeeps, ExitKeeps, ChildEndsKeeps DEF ToolSteps
<1>4. QED
  BY <1>1, <1>2, <1>3 DEF StepProvider

\* What the daemon does to its runs.
LEMMA DaemonKeeps == ASSUME ProviderInv, Boots \/ Stops \/ Dies PROVE Keeps
<1>1. CASE Boots \/ Stops
  <2>1. context' \in {"live", "cancelled"}
        /\ UNCHANGED <<tool, runs, seat, sessions, exec, failed, orphans>>
    BY <1>1 DEF Boots, Stops
  <2>2. exec' \in Exec /\ Follows(exec') /\ Agrees(exec', seat)
    BY <2>1 DEF ProviderInv
  <2>3. QED
    BY <2>1, <2>2, ExecOnly DEF ProviderInv, TypeOKProvider
<1>2. CASE Dies
  <2>1. context' = "none" /\ exec' = Idle
        /\ UNCHANGED <<tool, runs, seat, sessions, failed>>
    BY <1>2 DEF Dies
  <2>2. exec.session \in Nat /\ orphans \subseteq Nat
    BY DEF ProviderInv, Exec, TypeOKProvider
  <2>3. orphans' \subseteq Nat
    BY <1>2, <2>2 DEF Dies
  <2>4. Idle.at = "idle"
    BY DEF Idle
  <2>5. exec' \in Exec /\ exec'.at = "idle"
    BY <2>1, <2>4, IdleExec
  <2>6. Follows(exec') /\ Agrees(exec', seat)
    BY <2>5 DEF Follows, Agrees
  <2>7. QED
    BY <2>1, <2>3, <2>5, <2>6, ExecOnly DEF ProviderInv, TypeOKProvider
<1>3. QED
  BY <1>1, <1>2

-----------------------------------------------------------------------------
(* Both.                                                                   *)

Inv == DaemonInv /\ ProviderInv

\* Steps of the other part.
LEMMA Stutters ==
    /\ DaemonInv /\ UNCHANGED daemonVars => DaemonInv'
    /\ ProviderInv /\ UNCHANGED providerVars => Keeps
<1>1. ASSUME DaemonInv, UNCHANGED daemonVars PROVE DaemonInv'
  BY <1>1 DEF daemonVars, DaemonInv, TypeOKDaemon, Alone, Present, Opened, Bound,
              ServesItsSchema, MigratedIsBackedUp, Contents
<1>2. ASSUME ProviderInv, UNCHANGED providerVars PROVE Keeps
  <2>1. UNCHANGED <<tool, context, runs, seat, sessions, exec, failed, orphans>>
    BY <1>2 DEF providerVars
  <2>2. QED
    BY <1>2, <2>1, ExecOnly DEF ProviderInv, TypeOKProvider
<1>3. QED
  BY <1>1, <1>2

\* Every step of both.
LEMMA InvStep == ASSUME Inv, [Next]_vars PROVE DaemonInv' /\ Keeps
<1>1. DaemonInv /\ ProviderInv
  BY DEF Inv
<1>2. ASSUME NEW d \in Daemons, DaemonAlone(d), UNCHANGED providerVars
      PROVE  DaemonInv' /\ Keeps
  <2>1. DaemonInv'
    BY <1>1, <1>2, KeepsDatabase, Connects, BacksUp, Migrates, CommitsWork
       DEF DaemonAlone
  <2>2. QED
    BY <1>1, <1>2, <2>1, Stutters
<1>3. ASSUME NEW d \in Daemons,
             Resume(d) \/ Signal(d) \/ Shutdown(d) \/ Leave(d) \/ Die(d)
      PROVE  DaemonInv' /\ Keeps
  <2>1. CASE Resume(d) \/ Leave(d) \/ Die(d)
    BY <1>1, <2>1, KeepsDatabase, DaemonKeeps DEF Resume, Leave, Die
  <2>2. CASE Signal(d)
    BY <1>1, <2>2, Stutters, DaemonKeeps DEF Signal
  <2>3. CASE Shutdown(d)
    BY <1>1, <2>3, Stutters, KeepsDatabase DEF Shutdown
  <2>4. QED
    BY <1>3, <2>1, <2>2, <2>3
<1>4. ASSUME StepProvider, UNCHANGED daemonVars PROVE DaemonInv' /\ Keeps
  BY <1>1, <1>4, Stutters, StepKeeps
<1>5. ASSUME UNCHANGED vars PROVE DaemonInv' /\ Keeps
  BY <1>1, <1>5, Stutters DEF vars
<1>6. QED
  BY <1>2, <1>3, <1>4, <1>5 DEF Next

\* The inductive invariant of the composition.
THEOREM InvCorrect == Spec => []Inv
<1>1. Init => Inv
  BY DaemonInit, ProviderInit DEF Init, Inv
<1>2. Inv /\ [Next]_vars => Inv'
  BY InvStep DEF Inv, Keeps
<1>3. QED
  BY <1>1, <1>2, PTL DEF Spec

\* Every variable of the daemons and of the runs has its type.
THEOREM TypeCorrect == Spec => [](TypeOKDaemon /\ TypeOKProvider)
<1>1. Inv => TypeOKDaemon /\ TypeOKProvider
  BY DEF Inv, DaemonInv, ProviderInv
<1>2. QED
  BY <1>1, InvCorrect, PTL

\* Whatever builds are started on a directory, in whatever order, and whatever
\* dies when: a daemon that can write has the schema it was built for.
THEOREM SchemaCorrect == Spec => []ServesItsSchema
<1>1. Inv => ServesItsSchema
  BY DEF Inv, DaemonInv
<1>2. QED
  BY <1>1, InvCorrect, PTL

\* The socket of the directory leads to the daemon that serves it.
THEOREM SocketCorrect == Spec => []SocketLeadsToOwner
<1>1. Inv => SocketLeadsToOwner
  BY DEF Inv, DaemonInv, Bound, SocketLeadsToOwner
<1>2. QED
  BY <1>1, InvCorrect, PTL

\* No migration changes work that is not in a verified backup.
THEOREM BackupCorrect == Spec => []MigratedIsBackedUp
<1>1. Inv => MigratedIsBackedUp
  BY DEF Inv, DaemonInv
<1>2. QED
  BY <1>1, InvCorrect, PTL

\* Only a finished answer enters the Meeting, for any tool, any number of steps
\* and corrections, and any end of its process.
THEOREM WholeCorrect == Spec => []AcceptedIsWhole
<1>1. Inv => AcceptedIsWhole
  BY DEF Inv, ProviderInv
<1>2. QED
  BY <1>1, InvCorrect, PTL

\* Once a seat has a Session it has this one, in every later run.
THEOREM SessionCorrect == Spec => SessionKept
<1>1. Inv /\ [Next]_vars => [seat # 0 => seat' = seat]_providerVars
  BY InvStep DEF Keeps
<1>2. QED
  BY <1>1, InvCorrect, PTL DEF Spec, SessionKept
=============================================================================
