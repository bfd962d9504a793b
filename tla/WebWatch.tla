------------------------------ MODULE WebWatch ------------------------------
(***************************************************************************)
(* The Meeting page of the Web UI on top of the Hub: watchMeeting of       *)
(* webui/src/lib/api.ts and the refresh of webui/src/App.tsx, which reads  *)
(* the Meeting through Store.InspectMeeting.                               *)
(*                                                                         *)
(* A snapshot is what two queries returned: its content, the events the    *)
(* Meeting rows reflect, and its version, the stream sequence that is read *)
(* last and from which the page watches.  The queries of one InspectMeeting*)
(* are separate statements.  The event MaxEvents concludes the Meeting.    *)
(***************************************************************************)
EXTENDS Hub

CONSTANTS Tabs,         \* browser pages that show the Meeting
          MaxFetches,   \* bound: refreshes of a page under way
          Failures      \* a refresh may fail

ASSUME WebWatchAssumption ==
    /\ MaxFetches \in Nat \ {0}
    /\ Failures \in BOOLEAN

VARIABLES
    view,       \* the snapshot the page shows
    sock,       \* its current WebSocket
    pending,    \* pendingRefresh: the 40 ms timer is set
    asked,      \* refreshes that have not read the Meeting rows
    half,       \* refreshes that have: content of each
    answers,    \* snapshots on their way to the page
    error       \* the error banner; a Human closes it, no action does

tabs     == <<view, sock, pending, asked, half, answers, error>>
webVars  == <<vars, tabs>>

NoView == [content |-> 0, version |-> 0, shown |-> FALSE]

WebInit ==
    /\ Init
    /\ view = [t \in Tabs |-> NoView]
    /\ sock = [t \in Tabs |-> None]
    /\ pending = [t \in Tabs |-> FALSE]
    /\ asked = [t \in Tabs |-> 1]
    /\ half = [t \in Tabs |-> {}]
    /\ answers = [t \in Tabs |-> {}]
    /\ error = [t \in Tabs |-> FALSE]

-----------------------------------------------------------------------------
(* refresh: inspectMeeting and its answer.                                 *)

Fetching(t) == asked[t] + Cardinality(half[t]) + Cardinality(answers[t])

\* The first query of InspectMeeting.
ReadMeeting(t) ==
    /\ asked[t] > 0
    /\ asked' = [asked EXCEPT ![t] = @ - 1]
    /\ half' = [half EXCEPT ![t] = @ \cup {log}]
    /\ UNCHANGED <<vars, view, sock, pending, answers, error>>

\* The query of project_streams, and the response.
ReadVersion(t) ==
    /\ \E c \in half[t] :
         /\ half' = [half EXCEPT ![t] = @ \ {c}]
         /\ answers' = [answers EXCEPT ![t] =
                          @ \cup {[content |-> c, version |-> log]}]
    /\ UNCHANGED <<vars, view, sock, pending, asked, error>>

\* The request fails.  The page shows the error and does not ask again; the
\* first request of a page forgets the Meeting instead.
RefreshFails(t) ==
    /\ Failures
    /\ asked[t] > 0
    /\ asked' = [asked EXCEPT ![t] = @ - 1]
    /\ error' = [error EXCEPT ![t] = @ \/ view[t].shown]
    /\ UNCHANGED <<vars, view, sock, pending, half, answers>>

\* Mutant: the page keeps its socket and its timer is forgotten.
ShowKeepsSocket(t) ==
    /\ \E a \in answers[t] :
         /\ answers' = [answers EXCEPT ![t] = @ \ {a}]
         /\ view' = [view EXCEPT ![t] = [content |-> a.content,
                                         version |-> a.version,
                                         shown |-> TRUE]]
    /\ pending' = [pending EXCEPT ![t] = FALSE]
    /\ UNCHANGED <<vars, sock, asked, half, error>>

\* setSnapshot, and the cleanup of the effect: the socket of the snapshot
\* before is closed and its timer cleared, whatever order answers come in.
Show(t) ==
    /\ \E a \in answers[t] :
         /\ answers' = [answers EXCEPT ![t] = @ \ {a}]
         /\ view' = [view EXCEPT ![t] = [content |-> a.content,
                                         version |-> a.version,
                                         shown |-> TRUE]]
    /\ pending' = [pending EXCEPT ![t] = FALSE]
    /\ sock' = [sock EXCEPT ![t] = None]
    /\ open' = [k \in Conns |-> open[k] /\ k # sock[t]]
    /\ UNCHANGED <<writers, hub, room, phase, after, queue, capacity, seen,
                   pumping, closes, asked, half, error>>

-----------------------------------------------------------------------------
(* watchMeeting                                                            *)

Watching(t) == view[t].shown /\ view[t].content < MaxEvents

\* connect, by the effect or by the timer of a close event: from the
\* version of the snapshot the page shows.
Connect(t) ==
    /\ Watching(t)
    /\ sock[t] = None
    /\ \E k \in Conns \ {sock[u] : u \in Tabs} :
         /\ Upgrade(k, view[t].version)
         /\ sock' = [sock EXCEPT ![t] = k]
    /\ UNCHANGED <<view, pending, asked, half, answers, error>>

\* The close event.
Closed(t) ==
    /\ sock[t] # None
    /\ ~open[sock[t]]
    /\ sock' = [sock EXCEPT ![t] = None]
    /\ UNCHANGED <<vars, view, pending, asked, half, answers, error>>

\* The message event, if the connection is still the socket of a page: an
\* event sets the timer, a delta does not.
Message(k) ==
    /\ WritePump(k)
    /\ pending' = [t \in Tabs |->
                     pending[t] \/ (sock[t] = k /\ Head(queue[k]) # Delta)]
    /\ UNCHANGED <<view, sock, asked, half, answers, error>>

\* onCommitted after 40 ms.
Timer(t) ==
    /\ pending[t]
    /\ Fetching(t) < MaxFetches
    /\ pending' = [pending EXCEPT ![t] = FALSE]
    /\ asked' = [asked EXCEPT ![t] = @ + 1]
    /\ UNCHANGED <<vars, view, sock, half, answers, error>>

-----------------------------------------------------------------------------
Page(t) ==
    \/ ReadMeeting(t) \/ ReadVersion(t) \/ RefreshFails(t) \/ Show(t)
    \/ Connect(t) \/ Closed(t) \/ Timer(t)

Server ==
    /\ \/ Write
       \/ PublishDelta
       \/ \E k \in Conns : Serve(k) \/ WritePumpEnds(k) \/ Break(k)
                                    \/ ReadPumpEnds(k)
    /\ UNCHANGED tabs

WebNext ==
    \/ Server
    \/ \E k \in Conns : Message(k)
    \/ \E t \in Tabs : Page(t)

(* The fairness of the Hub; a page handles its own events, and a socket    *)
(* that is opened again and again hands it a message in the end.  Nothing  *)
(* need ever be committed.                                                 *)
WebFairness ==
    /\ \A p \in Publishers :
         /\ WF_webVars(ReadBatch(p) /\ UNCHANGED tabs)
         /\ SF_webVars(PublishEvent(p) /\ UNCHANGED tabs)
    /\ \A k \in Conns :
         /\ SF_webVars(ServeReads(k) /\ UNCHANGED tabs)
         /\ WF_webVars(ServeRegisters(k) /\ UNCHANGED tabs)
         /\ SF_webVars(ReadPumpEnds(k) /\ UNCHANGED tabs)
         /\ SF_webVars(Message(k))
    /\ \A t \in Tabs :
         /\ WF_webVars(ReadMeeting(t))
         /\ WF_webVars(ReadVersion(t))
         /\ WF_webVars(Show(t))
         /\ SF_webVars(Connect(t))
         /\ WF_webVars(Closed(t))
         /\ WF_webVars(Timer(t))

WebSpec == WebInit /\ [][WebNext]_webVars /\ WebFairness

-----------------------------------------------------------------------------
(* From some time on the network breaks no socket.                         *)
Steady == <>[][\A k \in Conns : ~Break(k) /\ ~WritePumpEnds(k)]_webVars

(* On a steady network a page that shows a snapshot ends with one whose    *)
(* version is the last commit, or with an error of a refresh that failed:  *)
(* no drop of a socket, no overtaken refresh and no full queue makes it    *)
(* miss the last event for good and look well.                             *)
CaughtUp ==
    Steady => <>[](\A t \in Tabs :
                     view[t].shown => view[t].version = log \/ error[t])

(* docs/design/milestone-1b-review-loop-webui.md:107 asks of the Web UI    *)
(* that its attention agrees with the daemon's state ("与 daemon 状态一致"). *)
(* What the page shows in the end is the last committed state.             *)
FreshView ==
    Steady => <>[](\A t \in Tabs : view[t].shown => view[t].content = log)
=============================================================================
