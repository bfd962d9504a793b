# TLA+ models and proofs of Nemeton

Nemeton is a local daemon (`nemetond`) in which a Human and several AI Provider
processes hold a *Meeting* about a Git project and end with a ratified Result.
All facts are events of one SQLite stream per Project; a projection of them
holds what the daemon acts on. This directory models the part of the program
whose correctness depends on the order of events: who may advance a Meeting,
what survives a restart, which steps may overtake each other, and which
processes, Git repositories and files the daemon may rely on meanwhile.

## 1. The system

| component | state | operations | hard behaviour |
|---|---|---|---|
| coordinator (`internal/meeting/coordinator.go`) | `queued` map, `pending` list, `wake` channel of capacity 1 | `Enqueue`, `Run`, `next` | enqueue in two steps, identifiers dropped while queued |
| meeting service (`internal/meeting/service.go`) | the meeting rows of the projection | commands `Create`, `Start`, `Answer`, `Disposition`, `Review`; worker `Run` | every step of `Run` is one commit, and a crash, a shutdown or a stream conflict may come between any two |
| event store (`internal/store`) | streams, events, projection, digests | `Append`, `Replay`, `Reconcile`, queries | optimistic version check, read after commit, snapshots read by several queries |
| project service (`internal/project`), Git observation (`internal/gitrepo`) | bindings of projects to repositories | `Open`, `Relink`, `Replay`; `Discover`, `SelectIntegrationBranch`, `Capture` | uniqueness across projects against replay of one; branches that move between two git commands, slow captures |
| migrations and backup (`internal/store/store.go`, `migrate.go`) | schema version, files in `backups/` | `Open`, `backupDatabase`, `verifyBackup`, `applyMigrations` | death between two migrations, builds of different age |
| artifact store (`internal/artifact`) | content-addressed files | `Put`, `Read`, `Verify`, `Orphans` | crash between file and event |
| reality bundle (`internal/realitybundle`) | a frozen source tree, participant Workdirs | `Capture`, `Prepare`, `Observe` | half-restored directories |
| realtime hub (`internal/realtime`) | rooms of WebSocket clients with bounded queues | `Serve`, `PublishEvent`, `PublishDelta`, drop | backlog against live events, slow clients |
| API (`internal/api`) | maintenance state | HTTP handlers, `requireReady`, `replayProject` | gate against the worker, concurrent replays |
| runners (`internal/runner`) | Provider child processes, the state of a stream parser | `Execute`, `Catalog` | tools that end in the middle or never, children that outlive them, session pinning, NDJSON streams |
| daemon (`internal/daemon`) | lock, sockets, context | `Run` | boot order, shutdown without waiting for the worker or the tools, a second daemon on the directory |
| web page (`webui`) | snapshot shown, socket, timer | `refresh`, `watchMeeting` | answers that overtake each other, reconnection |
| clients (`cmd`), `config`, `event`, prompts | none of interest | | |

How they interact: an HTTP handler calls a command of the meeting service; the
command reads a snapshot, appends events at the version it read, and enqueues
the Meeting. The coordinator's goroutine calls `Service.Run`, which advances the
Meeting step by step, every step an `Append`, until the Human owns it again.
Appended events are published to the hub. At boot `daemon.Run` enqueues what
`ResumableMeetings` returns. Designers run in parallel goroutines and record
their runs under `runRecordMu`; every `Append` of the same Project competes for
the stream version.

What makes each part correct: an accepted Meeting is advanced once and
eventually; barriers of the protocol (sealed proposals, unanimity, verification,
itemized Results) hold whatever is interrupted; nobody but the owner of a status
advances it; ends are final; a restart repeats nothing that was persisted; what
the Human decided stays decided and reaches who must know it; only what a
Provider had finished becomes part of a Meeting, and a seat keeps its Session; a
database is only changed by the daemon that owns it, under the schema of that
daemon, after a backup.

## 2. Modules

`RunQueue` is the abstract specification of the coordinator: Meetings wait once,
in arrival order, one is active, waiting ones are started.

`Coordinator` is the code: the mutex-protected part of `Enqueue` and its send on
`wake` are separate actions (`EnqueueLocked`, `Signal`); `Dequeue` is `next`,
`Forget` is the `delete(queued)` after `Service.Run`, `Awake` and `Stop` are the
two arms of the `select`. A command is `Commit` followed by the enqueue of the
same handler. `runnable` is the set of Meetings in a status `ResumableMeetings`
selects; `RunHandsOver` and `RunLeavesRunnable` are the two ways `Service.Run`
returns, the first also after the cancellation (`failMeeting`). `Boot`, `BootEnqueue`, `Cancel`, `Exit`, `Crash` are `daemon.Run` and
the ends of the process.

`Meeting` is `service.go` for one Meeting, both protocol versions. The database
rows are `status, cycle, round, result, contents, items, conflicts, running`;
they survive a crash. `pc` and `local` are the place and the local variables of
`Service.Run`, `batch` the goroutines of `ensureProposals`, `queued` and `caller`
the Meeting's entry in the coordinator and a command between its commit and its
enqueue. One action is one step of the code up to and including its `Append`:

| code | actions |
|---|---|
| `Start`, `Answer`, `Disposition`, `Review` | `Start`, `Answer`, `Disposition`, `Approve`, `Continue`, then `Enqueue` or `Disconnect` |
| `interruptUnfinishedRuns`, dispatch in `Run` | `Interrupt`, `Dispatch` |
| `prepareWorkspaces` | `Prepare`, `PrepareFails` |
| `ensureProposals` | `OpenBatch`, `ProposalStarts/Valid/Invalid/Fails/Conflicts`, `KeepProposal`, `Collected` |
| end of the sealed part | `Reveal` |
| `deliberate` | `EnsureConflict`, `NextRound`, `Position`, `CloseRound`, `Adopt`, `RoundsExhausted` |
| `execute`, `executeStructured` | `RunStarts`, `RunInvalid`, `RunFails` |
| `record`, `recordV2`, `persistResultCandidates` | `Recorded`, `Itemize` |
| `verify`, `verifySourceObservation` | `Verified`, `Observe`, `SourceChanged` |
| `recorderReview`, `applyRecorderReview` | `Reviewed`, `BackToReview`, `Reconvene` |
| `append` that conflicts, `failMeeting`, return | `Conflict`, `Fail`, `Return` |
| process | `Cancel`, `Exit`, `Crash`, `Boot` |

Two operators carry the error handling, which is where the code is subtle.
`OnError` says where an error takes `Service.Run`: some steps return it, some
fail the Meeting, some fail it unless the context is cancelled. `Then` follows a
commit: `Append` reads the Project back with the caller's context, so a shutdown
that arrives between commit and read turns a committed step into an error.

Abstractions of `Meeting`: a text is its kind, seat, cycle, round and verdict;
the candidates of a Result carry one common disposition (`Review` has them one by
one); a Provider answer is valid, invalid or a failure (`Provider` has how it
comes about); a command reads one consistent snapshot (in `Review` it need not);
a Workdir is prepared or preparation fails (`Reality`); a stream conflict is a
bounded choice, because other writers of the Project are outside the module;
session pinning, an additional commit of a running run, is not a step of its own
(`Provider`).

`MeetingProtocol` is the abstract specification `Meeting` implements: the Meeting
as its participants know it. Its state is the row of the Meeting, the Result on
offer, and who has proposed, spoken and accepted; its actions are the turns of the
protocol (`Start`, `Convene`, `Propose`, `Reveal`, `OpenRound`, `Speak`, `Agree`,
`Exhaust`, `Offer`, `Judge`, `Present`, `SendBack`, `Explain`, `Reconvene`, `Answer`,
`Conclude`) and `Fail`. It knows no process, no Provider run and no append that
fails. `Meeting` maps to it by what is persisted: `HaveProposed`, `HaveSpoken`,
`HaveAccepted`, `Cleared` and `Refused` are read off `contents` and `items`, and
`stopping` is the cancelled context, because only a shutdown may fail a Meeting the
daemon does not work on. A restart in the middle of a round is then visible as what
it is: the next round opens, within the rounds allowed, and those who had spoken
speak again.

`Review` is what a Human and the Recorder decide about a Result, candidate by
candidate, in both protocols: `Disposition`, `Review`, `Answer` and `Handoff` by
several HTTP handlers, `record`, `recordV2`, `persistResultCandidates`,
`recorderReview` and `applyRecorderReview` by the worker. A command is
`ReadRow`, `ReadCandidates`, `ReadVersion` - the queries of `InspectMeeting` - and
then the command on what was read. Its `Append` conflicts when anything was
committed after the version was read; a commit before that, between two of the
queries, leaves the view `torn`, and nothing in the code notices. `torn` counts
the commands that committed on such a view. `ApprovedIsWhole`, `DecidedAsAWhole`
and `RejectionReachesSwarm` are stated for behaviours without one; `DecisionsStay`
excepts only the step that is itself such a commit, which may overwrite a rejection
it has not seen; `ReviewIsPossible` is stated for all, and `SomethingLeft` shows what
a torn view can do. What `Append` validates of a Review before it commits
(`store.go:130`, `reconcile.go:329`) is a guard of `Review`, so `Reconcile`, which
validates the same at the start, has nothing to refuse. A Result is its text, which is its digest; of a
candidate is kept whether its kind is one the Recorder cannot give up alone
(`hard`). Deliberation between two Results is one step, `Deliberate`.

`Hub` is the room of one Meeting in `hub.go` together with the goroutines inside
`Service.append`. An event is its sequence; a publisher is `Commit`, `ReadBatch`
(or `ReadBatchFails`, when its context is cancelled between the two: the events go
to the history variable `unsent`, nobody will publish them), then one
`PublishEvent` per event, each under the Hub mutex. `Serve` is `Upgrade`,
`ServeReads` with the mutex taken, `ServeRegisters` or `ServeFails`; `WritePump`,
`WritePumpEnds`, `ReadPumpEnds` and `Break` are the two pumps and the network.
`closes` counts the closings of a channel, `seen` what the peer has read.

`WebWatch` extends `Hub` with the Meeting page: `refresh` as two reads of
`InspectMeeting` (the rows, then the version) and an answer that may be
overtaken, and `watchMeeting` with its socket, its reconnection and the 40 ms
timer. It models no other page.

`EventStore` holds the transactions `Append` and `Replay` on the streams of
several Projects, with the reducers applied one event after the other and
failing as they do in SQLite. `Projects` puts `Open`, `Relink` and `Replay` on
top, every query of a snapshot a step of its own, and in front of the `Append` the
capture of the repository: `Resolve` is the `rev-parse` of the bound branch,
`Confirm` the second one after `git status`, `Move` a commit or reset of the Human
between any two git commands, `CaptureFails` every way a capture can fail (a
branch that was deleted, moved, is ambiguous, is not the bound one). A commit is
remembered as its place in what its branch has been at, so `RealitiesAdvance` can
say that a slow capture never overwrites a faster one. `Discover` and the choice
of the branch are one step with the search for the owner, since `Capture` verifies
the branch again; the tree and its entries have the names of their contents and
cannot change; the dirty flag is not kept. `Maintenance` puts the gate,
`replayProject` with every query of its `Reconcile`, commands and the coordinator
on top. A digest is the value it is computed from, without the contents, runs
and conflicts that neither digest of the code reads. Between two processes rows
that are derived from events may be lost, as the acceptance test does; events
never are, so the hard failures of `Reconcile` are out of the module.

`ArtifactStore` is `Put` system call by system call, by several goroutines: a
file's bytes and its directory entry are each in the cache or on the disk, a
killed process loses neither, a loss of power undoes what was not synced. `Commit`
is the `Append` of an event with the `Record` of `Put`, `Boot` the verification of
every reference. `Put` syncs the directory of the object, never the one above, in
which `MkdirAll` may just have made its entry (`store.go:36`): that a directory that
is synced can be reached after a loss of power is an assumption on the file system.

`Reality` is one Meeting's working tree: `Capture` as fourteen reads between which
the Human may edit or switch branch, `prepareWorkspaces` with the stages of `Prepare` for each seat
(a Workdir that is there is taken as it is), and the observation of the Verifier's
step. The bundle has the branch, what the Verifier's step compares
(`Observation`, `bundle.go:37`) has not: a switch to another branch of the same
commit is no edit to it. A part of the tree is the number of its edits, so no edit undoes another: a
tree that is changed and changed back between two git commands of one look could
deceive both looks, and nothing in the code could notice. The Put is one step.

`Daemon` is the life of `nemetond` on one data directory, for daemons of several
builds started in any order and at once: `Start` (`Prepare` and `acquireLock`),
`PrepareSocket`, `Connect`, `Backup`, `Verify`, `Accept` and `Migrate` (the parts
of `store.Open`), `Ready` (`Reconcile` and the start of the coordinator), `Bind`,
`Serve`, `Stop`, and the deferred calls `Unlink` and `Unlock` in their order;
`Fail` is any error return and `Crash` the death of the process. The flock goes with
the process, the socket file stays until somebody removes it by name. What a
migration does to rows is left out; `replaced` records what was in the database
when one changed it. A start that finds the lock taken changes nothing and is not
a step.

`Provider` is every run of one seat: `execute` and `executeStructured` in
`service.go` with `runStreamed` and the two stream parsers of `internal/runner`.
The tool is external: `Turns` says what it may write next, `Line` writes one line
and parses it, `Exit` ends it at any point and `ChildEnds` what it left behind.
`Cancel`, `Terminate` and `Kill` are the timeout or the cancelled context, SIGTERM
and, five seconds later, SIGKILL to the process group; `Drained` is the condition
under which `command.Wait` returns. `Answers` and `Breaks` are the two returns of
`Execute`, `Accepted`, `Refused` and `Again` what the caller makes of an answer.
`Parsed` is the part of the parser's state that decides whether an answer is
complete. The history field `turn` is how far the tool really was. Assumptions:
writing and parsing a line are one step (the pipe keeps the order and is read to
its end); a tool that is told a Session resumes it; OpenCode gives a reason for the
end of a step in which it called a tool (without one `opencode.go:65` takes that step for
the last); an exit within a line of
OpenCode is a stream that cannot be decoded; that `failMeeting` itself may
conflict is in `Meeting`, not here.

`Supervision` composes the two: a daemon's coordinator works from `Ready` until
its context is cancelled (`Signal`), a daemon that leaves or dies takes `exec` with
it and leaves runs recorded as running and tools alive (`orphans`). A signal
before `Ready` makes a step of `Run` fail, which is `Fail`.

The `MC` modules carry the configurations. `CoordinatorProofs`, `MeetingProofs`,
`HubProofs`, `ArtifactProofs`, `SupervisionProofs`, `ReviewProofs`, `StoreProofs`
(about `EventStore`, `Projects` and `Maintenance`) and `RealityProofs` hold the
theorems. `Projects` and `Maintenance` extend the same `EventStore` and are proved
about in one module, so the behaviour of `Maintenance` has names of its own:
`InitGate`, `NextGate`, `SpecGate`.

## 3. Runs

Passing:

| run | instance | shows |
|---|---|---|
| `MCCoordinator` | 3 Meetings, 2 handlers | `AcceptedOnce`, `NoLostWakeup`, refinement of `RunQueue` with liveness (`QueueSpec`), `BootIsRun` |
| `MCMeetingV1` | protocol 1, 2 designers, 2 rounds, 2 cycles, a crash, a conflict, a failure | sealed proposals, one owner, unanimity, verification after the Result, one open Conflict per cycle, final ends, refinement of `MeetingProtocol` (`ProtocolKept`) |
| `MCMeetingV2` | protocol 2, 2 designers, 2 rounds, 2 cycles; a crash, a shutdown, a failure and a disconnect together | one voice per seat and round, itemized Results, one owner, and every accepted cycle ends, under every kind of stop |
| `MCReview` | both protocols, 2 handlers, 2 texts, 2 Results, 2 candidates, 2 cycles, a torn command, a crash | what is approved is whole and handed over as approved, no Result is decided in part, a rejection reaches the seats, the Human always has a Review that is accepted, decisions stay |
| `MCSupervision` | a build with 1 and one with 3 migrations, 2 starts, a commit; both tools, 2 runs, 2 steps, a child that holds stdout | only whole answers are accepted, a daemon serves its schema, the socket leads to its owner, migrated work is backed up, a seat keeps its Session, a run ends |
| `MCHub` | 2 publishers, 1 connection used again, queue of 1, 3 events, cancelled contexts | no event in the gap, one closing per channel, nobody waits for ever |
| `MCWebWatch` | 1 tab, 1 connection, 2 refreshes under way, failures | the page ends at the last version or shows an error |
| `MCProjects` | 2 Projects, 2 directories, 1 branch that moves once, 2 handlers, 5 events | one owner per repository, rows and seal follow the events and a replay changes nothing, the Realities of a branch never go back |
| `MCMaintenance` | 2 Projects, 2 handlers, coordinator, every loss, clients that go away | the gate covers every visible drift, commands work on sound Projects, a replay repairs |
| `MCArtifactStore` | 3 goroutines, 2 contents, a kill, a loss of power | no object cut short; every committed reference has its artifact, unless it was committed before another goroutine had synced it |
| `MCReality` | 2 seats, 3 edits, a death | the bundle is one moment of the tree, the last observation misses no edit but a switch of branch, Workdirs are whole unless a process died in them |

The Meeting runs switch deadlock checking off: a concluded or failed Meeting,
and one that waits for a restart nobody makes, really have no next step. So do
a page whose Meeting is over, Projects whose streams have reached their bound, and
a maintenance run in the same state, a Meeting of `Reality` that has ended, a
daemon that refuses to start over a missing artifact, a concluded review whose
handlers have spent the bounds, and a directory nobody starts a daemon on any
more. `MCHub` and `MCCoordinator` check for deadlock.

One run finds a behaviour a document excludes (quoted in `PROJECT.json`):
`MCMeetingReconvene`. Further configurations are kept beside the runs; each of them
checks one property that states a sentence of a document or a comment, and TLC
finds it violated. `tlc -config <name>.cfg` takes the `MC` module the name begins
with (`MCWebWatch` for `MCWebTorn`).
Where the table names a listed configuration "with" a property, that property in
the place of its INVARIANTS and PROPERTIES lines is all that changes. The ones that
matter most to a user are `MCMeetingShutdown`, `Replayable` and `OneTool`.

| configuration | what the code does |
|---|---|
| `MCCoordinatorCommand` | a command that enqueues while the worker has committed but not yet forgotten its Meeting is dropped |
| `MCMeetingReconvene` | `Service.Run` enqueues its own Meeting, the coordinator drops it: a reconvened Meeting waits for a restart |
| `MCMeetingSameConflict` | the Human's input opens a new Conflict and leaves the old one open |
| `MCMeetingConflicts` | a crash between the resolved Conflict and `recording` opens a second Conflict of the cycle |
| `MCMeetingShutdown` | a graceful shutdown fails the Meeting in preparation, recording, verification and review |
| `MCMeetingShutdown` with `ConcludedStays` | the Human approves while a shutdown has sent `Service.Run` to `failMeeting`, which overwrites the concluded Meeting |
| `MCMeetingBlock` | a stream conflict in some steps strands the Meeting in a status of the daemon |
| `MCHubResume` | two publishers of one Meeting publish out of order; a peer that resumes from the later sequence misses the earlier event |
| `MCWebTorn` | the page shows rows older than the version it watches from |
| `MCProjects` with `Replayable` | a Project that left a repository another one then opened cannot be replayed |
| `MCProjects` with `HistoryAgrees`, `MaxLength` 6 | a relink between the binding and the version of a snapshot is not detected |
| `MCMaintenance` with `LossIsReported` | lost contents, runs and conflicts are in no digest: the daemon starts as ready |
| `MCMaintenanceWork` | the coordinator works in maintenance and seals the drift with its next append |
| `MCMaintenance` with `ReadyWhenRepaired` | two replays leave the gate closed on a repaired store |
| `MCMaintenance` with `OnlyDriftCloses` | a replay during normal work closes the gate on a sound store |
| `MCArtifactStore` with `ReferencesSurvive` | an object another goroutine has renamed but not synced is reused and referred to; after a loss of power the daemon refuses to start |
| `MCReality` with `BranchIsNoticed` | the Human switches to another branch of the same commit while a Meeting works; its Result is handed over, though `service.go:1238` says the source repository was left unchanged |
| `MCReality` with `WorkdirsExact` | a Workdir a dead process left half restored is taken as ready, and a seat works in a part of the tree |
| `MCReview` with `SomethingLeft` | two handlers decide the last two candidates on torn snapshots: neither concludes, the Meeting awaits the Human with nothing to decide (`docs/decisions/0004-sqlite-local-single-writer.md:57`) |
| `MCSupervisionEscaped` with `RunEnds` | a child that left the process group and holds the tool's stdout keeps the run, and the worker, for ever |
| `MCSupervisionQuiet` | a child in the group that ignores SIGTERM and has an output of its own survives the cancelled run, which `runner.go:149` says is terminated with the whole tree: `Wait` returns before the SIGKILL |
| `MCSupervision` with `OneTool` | a tool survives the death of its daemon, the next daemon starts a second one in the same Workdir and Session |

Four further configurations pass. `MCMeetingConflict` is `MCMeetingV2` with a
crash and a stream conflict in the place of the other troubles; `MCMeetingV1` with
`CycleEnds` has a stream conflict in a cycle of protocol 1. `MCHubSolo`: with one publisher a peer can resume
from what it has read (`ResumableSequence`), which `MCHubResume` refutes for two.
`MCMaintenanceQuiet`: with one handler and an idle coordinator the gate is exact
(`LossIsReported`, `ReadyWhenRepaired`, `OnlyDriftCloses`), which the four
configurations of `Maintenance` above refute when there is more.

`OneOwner` states two exceptions, both behaviour of the code: `ensureProposals`
does not wait for its goroutines when a commit fails, so a failed Meeting may
have runs that still start and stay `running`; and a shutdown that hits the read
after the last commit fails a Meeting that has just been handed over. `EndIsFinal`
has the second one too: the Meeting handed over may have been concluded before
`failMeeting` gets to it (`ConcludedStays` states it without the exception).
An exception of `NeverInTheGap` is of that kind too: events whose append was
cancelled between its commit and its read are never published (`unsent`).
`CycleEnds` accepts a stream conflict (what it may leave behind is
`MCMeetingBlock`) and `reconvening` (see `MCMeetingReconvene`).

### Bounds

Two designers are the least with parallel proposals and a disagreement; two
rounds let a round end open and the next one close; the second cycle is the
first in which something of an earlier one can be mistaken for the present.
`MaxContents` ends the review loop: no new review starts once that many contents
exist; a run of protocol 2 reaches a reconvened second cycle with its positions
below it. The budgets (`MaxCrashes`, ...) are what a counterexample may spend:
one crash, conflict and failure combined reach every pair of them, and a second
crash starts again from a state that one crash already produced. The constants
`Max...` are bounds of the model except `MaxRounds`, which is 3 in the code.

A queue of one message is full after one event (the code has 256), and
`MaxEvents` is larger than that, so a drop and a backlog longer than the queue both
happen; two publishers are the least with an order among them, and the connection
is used again when it ends. Two Projects with two directories can exchange them.
Five events of a stream (`MaxLength`) are a registration and a relink with a
capture, or two captures, and one move of the branch (`MaxMoves`) lets the slower
of two captures see the older commit; in `Maintenance` every stream starts with
five, so one more is appended during a Reconcile, which reads each Project once. A
further one would only repeat what the first does to a comparison with a version.

`Review`: two handlers are one that decides and one that overtakes it; two texts
are a Result and another one, two Results let the same text be published twice, two
candidates are the least that can be decided in part or be the last two; the second
cycle is the one a rejection has to reach. One command may commit on a torn view;
`ReviewIsPossible` and `DecisionsStay` say something of the behaviours in which one
has.

`Supervision`: builds with one and with three migrations, so the newer one can die
between two of its own and the older one finds a newer database; two starts, at once
or one after the other, and one commit to lose. Two runs are a run and its
correction or its successor, two steps an answer with a tool call before it, and a
child that holds the stdout of its tool.

Three goroutines with two contents have two that race for the same object and one
that does not. A look of seven reads that is torn needs one edit, one that looks twice
and is deceived would need two; there are three, and fourteen reads place them
everywhere.

### Fairness

`Coordinator`: a goroutine that is not blocked runs (`WF` of the worker, of both
halves of an enqueue, of the boot loop); a cancelled daemon exits, since the
servers get five seconds. `Meeting`: `WF_vars(Work)`, `WF_vars(Enqueue)`: the one
worker goroutine and the handlers run, and a Provider call ends because
`defaultRunTimeout` kills it. `Work` is one weakly fair action, not one per step:
the liveness properties need no more. Commands, troubles, crashes and restarts
are never promised.

`Hub`: a goroutine that is not blocked runs, and the mutex-guarded steps are
strongly fair because `sync.Mutex` hands the lock to a goroutine that has waited
a millisecond (its starvation mode). No peer has to read, no one has to commit.
`WebWatch`: a browser handles its events and requests are answered or fail; its
connections and the delivery of a message are strongly fair, which says no more
than that a socket opened again and again gets to deliver. `CaughtUp` has the
antecedent `Steady`: the network stops breaking sockets at some time.

`Supervision`: `WF_vars(Supervise)`, one weakly fair action of what a daemon that
is not dead does of itself about a run: its timer and its cancelled context end the
tool, the signals and the end of `Wait` follow. Nothing is promised of the tool or
its children, which may write, exit and linger as they like, nor of a daemon that
starts or commits. The other modules claim safety only, except `ReplayRepairs`,
an action property.

## 4. Proofs

`CoordinatorProofs`, for every set of Meetings and handlers: `TypeCorrect`,
`OnceCorrect` (`AcceptedOnce`), `WakeupCorrect` (`NoLostWakeup`) and
`QueueRefined` (the safety part of `RunQueue`). `AcceptedOnce` is inductive
together with the types and the place of the worker; a sleeping worker needs in
addition that whoever has put an identifier into the list and not yet sent is
at `signal`.

`MeetingProofs`, for every protocol, number of designers, rounds and troubles, from
`MeetingAssumption` on the constants alone. Each property speaks about what is
persisted and is not inductive by itself: nothing in it says why `Service.Run`, when it takes
the step that matters, has reason to. The invariants say that, one layer on another:

- `TypeCorrect`: the types, part by part (`Parts`), one part per action that
  touches it.
- `PlaceCorrect`: the place of `Service.Run` and the committed status agree
  (`Placed`); with `ByProtocol` (statuses and cycles only one protocol knows) this is
  `Control`, on which everything else rests.
- `BarrierCorrect` (`RevealBarrier`), by `Sealed`: at `reveal` and in every status
  beyond it all proposals are there, and a designer whose goroutine was not needed
  or is done has one.
- `OwnerCorrect` (`OneOwner`), by `Ownership`: which runs may be open at which place
  (`Runs`); that whoever is queued or about to be, without a shutdown, is a Meeting of
  the daemon, and that goroutines outlive `ensureProposals` only in a Meeting nobody
  runs again in this process (`Accepted`). `EndCorrect` (`EndIsFinal`) follows.
- `RoundsCorrect` (`RoundsAdvance`), by `Counted`: the local round is the committed
  one, and there is none before the deliberation.
- `ResultCorrect` (`ResultIsItemized`) and `VerdictCorrect` (`ClearedByVerifier`):
  the first is inductive with `Control`, because `Itemize` moves the pointer, the items
  and the status in one `Append`; the second adds that at `observe` a local verdict
  that agrees is the last one written.
- `VoicesCorrect` (`OneVoicePerRound`), by `Ordered`: positions of the current round
  come from the seats before the current one, positions of a later round do not
  exist, and no designer that is at work has proposed in this cycle.
- `ConsensusCorrect` (`ConsensusBeforeRecording`), by `Agreeing`: while all verdicts
  agree, all seats so far have accepted in this round of this cycle.
- `ConflictsCorrect` (`OneOpenConflict`), by `Discussed`: the Conflict under
  discussion is an open one of this cycle.
- `ProtocolCorrect` (`ProtocolKept`): `Meeting` implements `MeetingProtocol`. The
  invariant `Following` joins the barrier, ownership, voices, consensus and the verdict
  with `InTurn`, which adds what makes a step
  of the code the right turn: the seats before the current one have spoken, a Result
  to be itemized is the newest content and not one of a refused review, contents are
  not dated later than the cycle. `Arrives` lists how each place is reached. The step
  is then split into those a participant cannot see (`Unseen`, nearly all of the
  troubles) and one lemma for each turn (`OfferSeen`, `ProposalSeen`, ...).

`HubProofs`, for any publishers, connections, queue size and bound: `TypeCorrect`;
`ClosedOnceCorrect`; `GapCorrect` (`NeverInTheGap`, which itself leaves out the
events nobody will publish, `unsent`). The gap argument needs the invariant for
every connection from the moment `ServeReads` has the backlog, not only for
registered ones: between `reading` and `served` the mutex is held, so no event
can be published past it, and whatever was committed meanwhile is still to be
published.

`ArtifactProofs`, for any goroutines, contents and number of deaths: `TypeCorrect`,
`WholeCorrect` (`NeverTorn`) and `ReferencesCorrect` (`ReferencesHold`). The
invariant, `Ordered`, is what the order of the system calls of `Put` is for: bytes
are on the disk before the rename, the entry is before `Put` returns a `Record` of
its own. `Kept` carries it to the committed events.

`SupervisionProofs`, for any daemons, builds, tools, children, starts, commits, runs
and steps: `TypeCorrect`, `SchemaCorrect` (`ServesItsSchema`), `SocketCorrect`
(`SocketLeadsToOwner`), `BackupCorrect` (`MigratedIsBackedUp`), `WholeCorrect`
(`AcceptedIsWhole`) and `SessionCorrect` (`SessionKept`). One half of the invariant,
`DaemonInv`, is about the daemons: whoever is past the lock is alone, so what it has
read of the database is still true when it acts on it, and the name of the socket is
bound by nobody else until the lock is gone. The other half, `ProviderInv`, ties
what the parser has seen to how far the tool was when it wrote it, and the Session
of a run to that of its seat.

`ReviewProofs`, for any handlers and texts and any number of Results, candidates,
cycles, torn commands and crashes: `TypeCorrect`, `ReviewCorrect` (`ReviewIsPossible`),
`DecidedCorrect` (`DecidedAsAWhole`), `ApprovedCorrect` (`ApprovedIsWhole`),
`RejectionCorrect` (`RejectionReachesSwarm`) and `DecisionsCorrect`
(`DecisionsStay`). The invariant has two layers. `Basic` holds whatever a command has
read: a view that is not torn equals the rows, and even a torn one is of a Result
that has candidates, which is why no Review is empty (`Itemized`); and what is in
the project context was accepted (`Locks`), so that of the two locks on a candidate
one is always open. `ReviewCorrect` and `DecisionsCorrect` follow from it alone.
`Deep` holds as long as no
command has committed on a torn view: where the worker is (`Place`), that Results
and their candidates are numbered and dated in order (`Rows`, `Cycles`), what is
left to decide (`Left`), that a Result is reviewed at once (`Alike`), that nothing is
committed after the end (`Kept`), and that an open rejection blocks the next Result
until the cycle is over (`Owed`). `RejectionReachesSwarm` alone is not inductive: it
compares Results that exist, and `Later` is needed for the content that has no
candidates yet.

`StoreProofs`, for any Projects, directories, branches, handlers and bounds. The
reducers apply one event after the other, so what a stream amounts to has to be
proved over its length. They are recursive functions, not RECURSIVE operators, and
the induction is done by hand: `Least` takes the least element of a set of naturals
from the well-foundedness of `<`, `Induction` states it for sets, and `Reduced`,
`Grown` and `Replayed` are its uses. From them:

- of `Projects`: `StoreTyped`, `ProjectionCorrect` (`ProjectionFollows`),
  `OwnerCorrect` (`OneOwner`), `RealitiesCorrect` (`RealitiesAdvance`) and
  `ReplayIdle`. `RealitiesAdvance` needs `Caught`: as long as a Project has the version
  a command has read, no Reality is recorded that is later than the commit the command
  saw; the version check of `Append` turns that into order. `OneOwner` needs nothing of
  what `Open` and `Relink` read: the UNIQUE column decides.
- of `Maintenance` (`SpecGate`): `GateCorrect` (`GateCovers`), `CommandsCorrect`
  (`CommandOnSound`) and `ReplayCorrect` (`ReplayRepairs`). The invariant, `InvGate`,
  says of a Reconcile between its queries (`Covers`) that every Project that drifts was
  in the versions it read and has been found, or is still to be looked at, or is
  looked at; that no command is ever about a drifting Project (`Sees`); and that a
  seal is of the version of its stream while the rows are complete (`Kept`).

`RealityProofs`, for any parts, seats and edits: `TypeCorrect`, `BundleCorrect`
(`BundleIsReality`), `EditsCorrect` (`EditsAreNoticed`) and `WorkdirsCorrect`
(`WorkdirsRestored`). `Reading` says that the views of a capture were read in order
from some moment on. A part of the tree only grows, so a view that was the same at
two moments was the same in between, and the moment at which the first of two equal
captures ends is one at which all seven were true (`Frozen`). `EditsCorrect` is about
all of them but the branch, which the last look does not compare. `Environments` says in
which stage each Workdir may be.

Every safety property and every action property a passing run checks is stated by a
theorem. The rest, `BootIsRun`, `NobodyWaits`, `RunEnds`, `CaughtUp`, `CycleEnds` and the
liveness of `QueueSpec`, stays with TLC, for fairness and ENABLED are out of the
prover's reach. Also only model-checked: the web page; `ResumableSequence` for a single publisher; the exact gate of
`MCMaintenanceQuiet`; the findings, which are counterexamples.

## 5. Not modelled, and why

What keeps no state between calls or decides nothing about order: the prompts, the
encoding of events, envelopes and HTTP bodies, the parsing of Git's output, the
checks of paths and permissions, the catalog of models, the command line, and the
forms of the web interface. What a migration does to rows is SQL, and so are the
queries; a model of either would repeat them. The runners' streams are modelled up to
what decides whether an answer is complete and which Session it belongs to, not the
wording of events; the artifact store up to the durability of names and bytes, not
the hash.

## 6. Plan

1. `Coordinator`, `RunQueue`, `Meeting` with their proofs (done).
2. `Hub` with its proofs, `WebWatch`; `EventStore`, `Projects`, `Maintenance`,
   `ArtifactStore` with its proofs, `Reality` (done).
3. `Review`, `Daemon`, `Provider`, `Supervision` with their proofs; the observation
   of Git in `Projects` (done).
4. `MeetingProtocol`, which `Meeting` implements, with the proof; the proofs of
   ownership, rounds, Results, voices, consensus, verdicts and Conflicts of `Meeting`,
   of `Projects` and `Maintenance`, of `Reality` (done).
5. An event log that `Hub` implements for a single publisher, with the proof of
   `ResumableSequence`; a type invariant and the safety half of the page
   (`WebWatch`); the gate of `MCMaintenanceQuiet` for a single handler.
