------------------------------- MODULE Daemon -------------------------------
(***************************************************************************)
(* The life of nemetond on one data directory: Run of internal/daemon/     *)
(* run.go with the lock, the Unix socket and store.Open, which backs the   *)
(* database up and migrates it.  Several daemons, of older and newer       *)
(* builds, are started on the same directory, in any order and at once;    *)
(* each may fail at any step, be stopped, or die.                          *)
(*                                                                         *)
(* The flock belongs to the open file: the kernel drops it when the        *)
(* process ends.  The socket file stays until somebody removes it, by its  *)
(* name: what is at the name is the file of the daemon that bound it last. *)
(***************************************************************************)
EXTENDS Naturals

CONSTANTS Daemons,     \* the daemons that may be started on the directory
          Latest,      \* the last migration each of them embeds
          Nobody,
          MaxStarts,   \* bound: starts
          MaxCommits   \* bound: transactions of the event store

ASSUME DaemonAssumption ==
    /\ Latest \in [Daemons -> Nat \ {0}]
    /\ Nobody \notin Daemons
    /\ {MaxStarts, MaxCommits} \subseteq Nat

VARIABLES at,       \* where each daemon is in Run
          lock,     \* who holds nemetond.lock
          socket,   \* whose socket file is at the path
          database, \* the file: is it there, its schema, what it holds
          opened,   \* what Open of each daemon found: existed, current
          backups,  \* files in backups/
          replaced, \* history: what a migration has changed
          starts

daemonVars == <<at, lock, socket, database, opened, backups, replaced, starts>>

\* Between applyMigrations and database.Close: this daemon may commit.
Owning == {"ready", "bound", "serving", "stopping"}

Listening(d) == d # Nobody /\ at[d] \in {"bound", "serving"}

\* What a backup has to preserve.
Contents == [version |-> database.version, commits |-> database.commits]

NotOpened == [existed |-> FALSE, current |-> 0]

NoDatabase == [existed |-> FALSE, version |-> 0, commits |-> 0]

\* What a daemon of one of the builds has left, some time ago.
Left == [existed : {TRUE}, version : {Latest[d] : d \in Daemons},
         commits : 1..MaxCommits]

InitDaemon ==
    /\ at = [d \in Daemons |-> "off"]
    /\ lock = Nobody /\ socket = Nobody
    /\ database \in {NoDatabase} \cup Left
    /\ opened = [d \in Daemons |-> NotOpened]
    /\ backups = {} /\ replaced = {} /\ starts = 0

Goes(d, from, to) == at[d] = from /\ at' = [at EXCEPT ![d] = to]

-----------------------------------------------------------------------------
(* The exclusive persistence boundary.                                     *)

\* Prepare and acquireLock.
Start(d) ==
    /\ starts < MaxStarts /\ starts' = starts + 1
    /\ lock = Nobody /\ lock' = d
    /\ Goes(d, "off", "locked")
    /\ UNCHANGED <<socket, database, opened, backups, replaced>>

\* prepareSocket: nobody answers at the path, so what is there is removed.
PrepareSocket(d) ==
    /\ Goes(d, "locked", "alone")
    /\ ~Listening(socket)
    /\ socket' = Nobody
    /\ UNCHANGED <<lock, database, opened, backups, replaced, starts>>

-----------------------------------------------------------------------------
(* store.Open.                                                             *)

\* Stat, Ping (which creates the file) and currentSchemaVersion.
Connect(d) ==
    /\ Goes(d, "alone", "connected")
    /\ opened' = [opened EXCEPT ![d] = [existed |-> database.existed,
                                        current |-> database.version]]
    /\ database' = [database EXCEPT !.existed = TRUE]
    /\ UNCHANGED <<lock, socket, backups, replaced, starts>>

\* Mutant: a backup some earlier start left is good enough.
NeedsFirstBackup(d) ==
    opened[d].existed /\ opened[d].current < Latest[d] /\ backups = {}

NeedsBackup(d) == opened[d].existed /\ opened[d].current < Latest[d]

\* backupDatabase creates the file and copies the database into it ...
Backup(d) ==
    /\ NeedsBackup(d)
    /\ Goes(d, "connected", "copying")
    /\ backups' = backups \cup {[of |-> Contents, verified |-> FALSE]}
    /\ UNCHANGED <<lock, socket, database, opened, replaced, starts>>

\* ... and verifyBackup checks it.
Verify(d) ==
    /\ Goes(d, "copying", "migrating")
    /\ backups' = backups \cup {[of |-> Contents, verified |-> TRUE]}
    /\ UNCHANGED <<lock, socket, database, opened, replaced, starts>>

\* Mutant: the schema may be newer.
AcceptNewer(d) ==
    /\ ~NeedsBackup(d)
    /\ Goes(d, "connected", "migrating")
    /\ UNCHANGED <<lock, socket, database, opened, backups, replaced, starts>>

\* A newer schema is refused (Fail); one that is up to date, or that this
\* daemon has just created, needs no backup.
Accept(d) ==
    /\ opened[d].current <= Latest[d] /\ ~NeedsBackup(d)
    /\ Goes(d, "connected", "migrating")
    /\ UNCHANGED <<lock, socket, database, opened, backups, replaced, starts>>

\* applyMigrations: one migration, a transaction of its own.
Migrate(d) ==
    /\ at[d] = "migrating"
    /\ database.version < Latest[d]
    /\ database' = [database EXCEPT !.version = @ + 1]
    /\ replaced' = IF database.version = opened[d].current /\ database.commits > 0
                   THEN replaced \cup {Contents} ELSE replaced
    /\ UNCHANGED <<at, lock, socket, opened, backups, starts>>

\* The pragmas, Reconcile and the coordinator, which starts to work.
Ready(d) ==
    /\ database.version >= Latest[d]
    /\ Goes(d, "migrating", "ready")
    /\ UNCHANGED <<lock, socket, database, opened, backups, replaced, starts>>

\* An Append of the coordinator or of a handler.
Commit(d) ==
    /\ at[d] \in Owning
    /\ database.commits < MaxCommits
    /\ database' = [database EXCEPT !.commits = @ + 1]
    /\ UNCHANGED <<at, lock, socket, opened, backups, replaced, starts>>

-----------------------------------------------------------------------------
(* Serving and leaving.                                                    *)

\* net.Listen fails on a path that is taken.
Bind(d) ==
    /\ socket = Nobody /\ socket' = d
    /\ Goes(d, "ready", "bound")
    /\ UNCHANGED <<lock, database, opened, backups, replaced, starts>>

\* listenLoopback and both Serve.
Serve(d) ==
    /\ Goes(d, "bound", "serving")
    /\ UNCHANGED <<lock, socket, database, opened, backups, replaced, starts>>

\* Mutant: the lock is released first.
StopUnlocked(d) ==
    /\ Goes(d, "serving", "stopping")
    /\ socket' = Nobody /\ lock' = Nobody
    /\ UNCHANGED <<database, opened, backups, replaced, starts>>

\* The context is cancelled: server.Shutdown closes the listener, which removes
\* its socket file, and waits for requests, at most five seconds.
Stop(d) ==
    /\ Goes(d, "serving", "stopping")
    /\ socket' = Nobody
    /\ UNCHANGED <<lock, database, opened, backups, replaced, starts>>

\* Any step of Run returns an error; what has been acquired is released.
Fail(d) ==
    /\ \/ /\ at[d] \in {"locked", "alone", "connected", "copying", "migrating", "ready"}
          /\ at' = [at EXCEPT ![d] = "closed"]
       \/ /\ at[d] \in {"bound", "serving"}
          /\ at' = [at EXCEPT ![d] = "stopping"]
    /\ UNCHANGED <<lock, socket, database, opened, backups, replaced, starts>>

\* The deferred os.Remove, listener.Close and database.Close ...
Unlink(d) ==
    /\ Goes(d, "stopping", "closed")
    /\ socket' = Nobody
    /\ UNCHANGED <<lock, database, opened, backups, replaced, starts>>

\* ... and last lock.Close and the end of the process.
Unlock(d) ==
    /\ Goes(d, "closed", "off")
    /\ lock' = IF lock = d THEN Nobody ELSE lock
    /\ opened' = [opened EXCEPT ![d] = NotOpened]
    /\ UNCHANGED <<socket, database, backups, replaced, starts>>

\* The process dies.
Crash(d) ==
    /\ at[d] # "off"
    /\ at' = [at EXCEPT ![d] = "off"]
    /\ lock' = IF lock = d THEN Nobody ELSE lock
    /\ opened' = [opened EXCEPT ![d] = NotOpened]
    /\ UNCHANGED <<socket, database, backups, replaced, starts>>

-----------------------------------------------------------------------------
(* Properties.                                                             *)

TypeOKDaemon ==
    /\ at \in [Daemons -> Owning \cup {"off", "locked", "alone", "connected",
                                       "copying", "migrating", "closed"}]
    /\ {lock, socket} \subseteq Daemons \cup {Nobody}
    /\ database \in [existed : BOOLEAN, version : Nat, commits : Nat]
    /\ opened \in [Daemons -> [existed : BOOLEAN, current : Nat]]
    /\ backups \subseteq [of : [version : Nat, commits : Nat], verified : BOOLEAN]
    /\ replaced \subseteq [version : Nat, commits : Nat]
    /\ starts \in Nat

\* While a daemon can write, the database has exactly the schema that daemon
\* was built for: no daemon of another build migrates it underneath, none
\* serves a newer one, none serves one that is half migrated.
ServesItsSchema ==
    \A d \in Daemons : at[d] \in Owning => database.version = Latest[d]

\* Whoever opens the socket of a data directory reaches the daemon that serves
\* it: no other daemon, starting, stopping or failing, takes the file away.
SocketLeadsToOwner ==
    \A d \in Daemons : at[d] = "serving" => socket = d

\* Every state of the database that held somebody's work when a migration
\* changed it is in a backup that was verified before, whatever died when.
MigratedIsBackedUp ==
    \A r \in replaced : [of |-> r, verified |-> TRUE] \in backups
=============================================================================
