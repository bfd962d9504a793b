------------------------------ MODULE RunQueue ------------------------------
(***************************************************************************)
(* What the Meeting coordinator promises, without its mutex, its queued    *)
(* map and its wake channel: an accepted Meeting waits exactly once, in    *)
(* arrival order, a Meeting that is active is not accepted again, one      *)
(* Meeting is active at a time, and a waiting Meeting is eventually        *)
(* started.  A process exit forgets everything.                            *)
(* Coordinator.tla is shown to implement this specification.               *)
(***************************************************************************)
EXTENDS Sequences

CONSTANTS Meetings,     \* identifiers of the Meetings
          NoMeeting     \* "no Meeting is active"

VARIABLES waiting,      \* accepted Meetings in arrival order
          active        \* the Meeting being run, or NoMeeting

qvars == <<waiting, active>>

Waiting == {waiting[i] : i \in DOMAIN waiting}

Init == waiting = <<>> /\ active = NoMeeting

Accept(m) ==
    /\ m \notin Waiting
    /\ m # active
    /\ waiting' = Append(waiting, m)
    /\ UNCHANGED active

Begin ==
    /\ active = NoMeeting
    /\ waiting # <<>>
    /\ active' = Head(waiting)
    /\ waiting' = Tail(waiting)

Finish ==
    /\ active # NoMeeting
    /\ active' = NoMeeting
    /\ UNCHANGED waiting

Reset == waiting' = <<>> /\ active' = NoMeeting

Next ==
    \/ \E m \in Meetings : Accept(m)
    \/ Begin
    \/ Finish
    \/ Reset

Safety == Init /\ [][Next]_qvars

(* A waiting Meeting is started once nothing is active, and a run ends     *)
(* (the Provider call it makes is cut off after thirty minutes).           *)
Spec == Safety /\ WF_qvars(Begin) /\ WF_qvars(Finish)
=============================================================================
