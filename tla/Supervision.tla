---------------------------- MODULE Supervision ----------------------------
(***************************************************************************)
(* The daemons of one data directory (Daemon.tla) and the Provider runs of *)
(* one seat (Provider.tla): the coordinator of a daemon works from the     *)
(* moment its store is open until its context is cancelled, and a daemon   *)
(* that ends leaves the runs and the tools as they are.                    *)
(***************************************************************************)
EXTENDS Daemon, Provider

vars == <<daemonVars, providerVars>>

Init == InitDaemon /\ InitProvider

\* Steps of a daemon that do not concern its runs.
DaemonAlone(d) ==
    \/ Start(d) \/ PrepareSocket(d) \/ Connect(d) \/ Backup(d) \/ Verify(d)
    \/ Accept(d) \/ Migrate(d) \/ Commit(d) \/ Bind(d) \/ Serve(d)
    \/ Fail(d) \/ Unlink(d)

\* go coordinator.Run(ctx).
Resume(d) == Ready(d) /\ Boots

\* SIGINT or SIGTERM cancels the context at once; Run looks at it only when it
\* serves.
Signal(d) ==
    /\ at[d] \in {"ready", "bound", "serving"} /\ context = "live"
    /\ Stops
    /\ UNCHANGED daemonVars

Shutdown(d) == Stop(d) /\ context = "cancelled" /\ UNCHANGED providerVars

Leave(d) == Unlock(d) /\ Dies

Die(d) == Crash(d) /\ Dies

Next ==
    \/ \E d \in Daemons : DaemonAlone(d) /\ UNCHANGED providerVars
    \/ \E d \in Daemons : Resume(d) \/ Signal(d) \/ Shutdown(d) \/ Leave(d) \/ Die(d)
    \/ StepProvider /\ UNCHANGED daemonVars

\* Timers and goroutines of a running daemon.
Fairness == WF_vars(Supervise /\ UNCHANGED daemonVars)

Spec == Init /\ [][Next]_vars /\ Fairness
=============================================================================
