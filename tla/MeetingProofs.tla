---------------------------- MODULE MeetingProofs ----------------------------
(***************************************************************************)
(* Proofs about Meeting.tla for every number of designers and rounds and   *)
(* every bound: type correctness, where Service.Run may be in which        *)
(* status, the reveal barrier, who owns the Meeting, what the record of    *)
(* the discussion says about its Result, and, from all of it, that a       *)
(* Meeting implements MeetingProtocol.tla.                                 *)
(***************************************************************************)
EXTENDS Meeting, SequenceTheorems, TLAPS

-----------------------------------------------------------------------------
(* Facts about sequences, as rows are inserted and updated.                *)

LEMMA AppendFacts ==
    ASSUME NEW S, NEW s \in Seq(S), NEW x \in S
    PROVE  /\ Append(s, x) \in Seq(S)
           /\ DOMAIN Append(s, x) = 1..(Len(s) + 1)
           /\ \A i \in 1..Len(s) : Append(s, x)[i] = s[i]
           /\ Append(s, x)[Len(s) + 1] = x
           /\ DOMAIN s = 1..Len(s)
           /\ Len(s) \in Nat
  OBVIOUS

LEMMA EmptyFacts == ASSUME NEW S PROVE <<>> \in Seq(S) /\ DOMAIN <<>> = {}
  OBVIOUS

LEMMA ExceptFacts ==
    ASSUME NEW S, NEW s \in Seq(S), NEW k, NEW x, k \in DOMAIN s => x \in S
    PROVE  [s EXCEPT ![k] = x] \in Seq(S)
<1>1. s \in [1..Len(s) -> S] /\ Len(s) \in Nat
  OBVIOUS
<1>2. [s EXCEPT ![k] = x] \in [1..Len(s) -> S]
  BY <1>1
<1>3. \A n \in Nat : \A f \in [1..n -> S] : f \in Seq(S)
  BY SeqDef
<1>4. QED
  BY <1>1, <1>2, <1>3

LEMMA ElementFacts ==
    ASSUME NEW S, NEW s \in Seq(S), NEW k \in DOMAIN s PROVE s[k] \in S
  OBVIOUS

-----------------------------------------------------------------------------
(* TypeOK, one part for each group of variables that change together.      *)
Budget == [{"crash", "shutdown", "conflict", "failure", "disconnect"} -> Nat]

RowTyped == status \in WorkerOwned \cup HumanOwned \cup Final
            /\ cycle \in Nat /\ round \in Nat
ResultTyped == result \in Nat
ContentsTyped == contents \in Seq(Content)
ItemsTyped == DOMAIN items \subseteq Nat /\ \A i \in DOMAIN items : items[i] \in Dispositions
ConflictsTyped == conflicts \in Seq([cycle : Nat, status : {"open", "resolved"}])
RunningTyped == running \subseteq Seats \X Phases
HostTyped == up \in BOOLEAN /\ queued \in BOOLEAN /\ caller \in {"none", "enqueue"}
CancelledTyped == cancelled \in BOOLEAN
PcTyped == pc \in Places
BatchTyped == batch \in [Designers -> {"out", "start", "run", "restart", "rerun",
                                      "ready", "kept", "failed"}]
Locals == [conflict : Nat, round : Nat, seat : 1..(NumDesigners + 1),
           agree : BOOLEAN, attempt : {1, 2}, busy : BOOLEAN]
LocalTyped == local \in Locals
LeftTyped == left \in Budget

Parts == /\ RowTyped /\ ResultTyped /\ ContentsTyped /\ ItemsTyped /\ ConflictsTyped
         /\ RunningTyped /\ HostTyped /\ CancelledTyped /\ PcTyped /\ BatchTyped
         /\ LocalTyped /\ LeftTyped

LEMMA TypeParts == TypeOK <=> Parts
  BY DEF TypeOK, Parts, RowTyped, ResultTyped, ContentsTyped, ItemsTyped, ConflictsTyped,
     RunningTyped, HostTyped, CancelledTyped, PcTyped, BatchTyped, LocalTyped, Locals, LeftTyped, Budget

\* A part whose variables do not change stays true.
LEMMA Kept ==
    ASSUME Parts
    PROVE  /\ UNCHANGED <<status, cycle, round>> => RowTyped'
           /\ UNCHANGED result => ResultTyped'
           /\ UNCHANGED contents => ContentsTyped'
           /\ UNCHANGED items => ItemsTyped'
           /\ UNCHANGED conflicts => ConflictsTyped'
           /\ UNCHANGED running => RunningTyped'
           /\ UNCHANGED <<up, queued, caller>> => HostTyped'
           /\ UNCHANGED cancelled => CancelledTyped'
           /\ UNCHANGED pc => PcTyped'
           /\ UNCHANGED batch => BatchTyped'
           /\ UNCHANGED local => LocalTyped'
           /\ UNCHANGED left => LeftTyped'
  BY DEF Parts, RowTyped, ResultTyped, ContentsTyped, ItemsTyped, ConflictsTyped,
     RunningTyped, HostTyped, CancelledTyped, PcTyped, BatchTyped, LocalTyped, LeftTyped

-----------------------------------------------------------------------------
(* Facts about the building blocks.                                        *)

LEMMA RowSet ==
    ASSUME NEW s \in WorkerOwned \cup HumanOwned \cup Final, NEW c \in Nat, NEW r \in Nat,
           SetStatus(s, c, r)
    PROVE  RowTyped'
  BY DEF RowTyped, SetStatus

LEMMA SpendTyped ==
    ASSUME Parts, NEW kind \in {"crash", "shutdown", "conflict", "failure", "disconnect"},
           Spend(kind)
    PROVE  LeftTyped'
  BY DEF Parts, LeftTyped, Spend, Budget

\* An error leaves Service.Run at once or by way of failMeeting.
LEMMA ErrorPlaces == \A loc, c : OnError(loc, c) \in {"exit", "failing"}
  BY DEF OnError

LEMMA ThenTyped ==
    ASSUME Parts, NEW next \in Places, Then(next)
    PROVE  /\ pc' \in {next, "exit", "failing"}
           /\ PcTyped' /\ CancelledTyped' /\ LeftTyped'
<1>1. CASE pc' = next /\ UNCHANGED <<cancelled, left>>
  BY <1>1, Kept DEF PcTyped
<1>2. CASE Spend("shutdown") /\ cancelled' = TRUE /\ pc' = OnError(pc, TRUE)
  BY <1>2, SpendTyped, ErrorPlaces DEF PcTyped, CancelledTyped, Places
<1>3. QED
  BY <1>1, <1>2 DEF Then

LEMMA ContentTyped ==
    ASSUME Parts, NEW kind \in Kinds, NEW seat \in Seats, NEW ok \in BOOLEAN,
           AddContent(kind, seat, ok)
    PROVE  ContentsTyped'
  BY AppendFacts DEF Parts, RowTyped, ContentsTyped, AddContent, Content

LEMMA SeatsTyped ==
    /\ \A d \in Designers : d \in Seats
    /\ {Human, Recorder, Verifier} \subseteq Seats
    /\ \A s \in 1..(NumDesigners + 1) : s \in Seats
    /\ 1 \in 1..(NumDesigners + 1)
  BY MeetingAssumption DEF Designers, Seats, Human, Recorder, Verifier

LEMMA RunTyped ==
    ASSUME Parts, pc \in Runners
    PROVE  TheRun \in Seats \X Phases
<1>1. local.seat \in 1..(NumDesigners + 1)
  BY DEF Parts, LocalTyped, Locals
<1>2. TheSeat \in Seats
  BY <1>1, SeatsTyped DEF TheSeat
<1>3. ThePhase \in Phases
  BY DEF Runners, ThePhase, Phases
<1>4. QED
  BY <1>2, <1>3 DEF TheRun

LEMMA RunEnds == Parts /\ EndRun => RunningTyped'
  BY DEF Parts, RunningTyped, EndRun

\* The updates of the local variables.
\* The local variables keep their types when a field is assigned in range.
LEMMA FieldSet ==
    ASSUME Parts
    PROVE  /\ \A b \in BOOLEAN : [local EXCEPT !.busy = b] \in Locals
           /\ \A l \in Locals, b \in BOOLEAN : [l EXCEPT !.agree = b] \in Locals
           /\ [local EXCEPT !.busy = FALSE, !.attempt = 1] \in Locals
           /\ [local EXCEPT !.attempt = 2, !.busy = FALSE] \in Locals
           /\ local.agree \in BOOLEAN /\ local.round \in Nat
           /\ local.seat \in 1..(NumDesigners + 1)
<1>1. local \in Locals
  BY DEF Parts, LocalTyped
<1>2. \A b \in BOOLEAN : [local EXCEPT !.busy = b] \in Locals
  BY <1>1 DEF Locals
<1>3. \A l \in Locals, b \in BOOLEAN : [l EXCEPT !.agree = b] \in Locals
  BY DEF Locals
<1>4. \A l \in Locals, b \in {1, 2} : [l EXCEPT !.attempt = b] \in Locals
  BY DEF Locals
<1>5. \A l \in Locals, b \in BOOLEAN : [l EXCEPT !.busy = b] \in Locals
  BY DEF Locals
<1>6. [local EXCEPT !.busy = FALSE, !.attempt = 1] \in Locals
  BY <1>1, <1>4, <1>5
<1>7. [local EXCEPT !.attempt = 2, !.busy = FALSE] \in Locals
  BY <1>1, <1>4, <1>5
<1>8. local.agree \in BOOLEAN /\ local.round \in Nat /\ local.seat \in 1..(NumDesigners + 1)
  BY <1>1 DEF Locals
<1>9. QED
  BY <1>2, <1>3, <1>6, <1>7, <1>8

LEMMA LocalSet ==
    ASSUME Parts
    PROVE  /\ local' = Fresh => LocalTyped'
           /\ local' = Idle(local) => LocalTyped'
           /\ \A b \in BOOLEAN : local' = [local EXCEPT !.busy = b] => LocalTyped'
           /\ \A b \in BOOLEAN : local' = [Idle(local) EXCEPT !.agree = b] => LocalTyped'
           /\ local' = [local EXCEPT !.attempt = 2, !.busy = FALSE] => LocalTyped'
<1>1. Fresh \in Locals
  BY SeatsTyped DEF Fresh, Locals
<1>2. Idle(local) \in Locals
  BY FieldSet DEF Idle
<1>3. QED
  BY <1>1, <1>2, FieldSet DEF LocalTyped

-----------------------------------------------------------------------------
(* Type correctness, action by action.                                     *)

LEMMA InitTyped == Init => Parts
<1> SUFFICES ASSUME Init PROVE Parts
  OBVIOUS
<1>1. RowTyped /\ ResultTyped /\ HostTyped /\ CancelledTyped /\ PcTyped
  BY DEF Init, RowTyped, ResultTyped, HostTyped, CancelledTyped, PcTyped, HumanOwned, Places
<1>2. ContentsTyped /\ ItemsTyped /\ ConflictsTyped /\ RunningTyped
  BY EmptyFacts DEF Init, ContentsTyped, ItemsTyped, ConflictsTyped, RunningTyped
<1>3. BatchTyped /\ LocalTyped
  BY SeatsTyped DEF Init, BatchTyped, LocalTyped, Locals, Out, Fresh
<1>4. LeftTyped
  BY MeetingAssumption DEF Init, LeftTyped, Budget
<1>5. QED
  BY <1>1, <1>2, <1>3, <1>4 DEF Parts

LEMMA NextTyped == Parts /\ [Next]_vars => Parts'
<1> SUFFICES ASSUME Parts, [Next]_vars PROVE Parts'
  OBVIOUS
<1> USE DEF Parts
<1>1. CASE Start
  <2>1. RowTyped' /\ HostTyped'
    BY <1>1, RowSet DEF Start, Commanded, RowTyped, HostTyped, WorkerOwned, HumanOwned, Final
  <2>2. QED
    BY <1>1, <2>1, Kept DEF Start, Commanded, host
<1>2. CASE Answer
  <2>1. RowTyped' /\ HostTyped'
    BY <1>2, RowSet DEF Answer, Commanded, RowTyped, HostTyped, WorkerOwned, HumanOwned, Final
  <2>2. ContentsTyped'
    BY <1>2, AppendFacts, SeatsTyped DEF Answer, RowTyped, ContentsTyped, Content, Kinds
  <2>3. QED
    BY <1>2, <2>1, <2>2, Kept DEF Answer, Commanded, host
<1>3. ASSUME NEW d \in {"selected", "rejected", "deferred"}, NEW i \in DOMAIN items,
          Disposition(i, d)
     PROVE Parts'
  <2>1. ItemsTyped'
    BY <1>3 DEF Disposition, ItemsTyped, Dispositions
  <2>2. RowTyped'
    BY <1>3, RowSet, Kept DEF Disposition, RowTyped, row, WorkerOwned, HumanOwned, Final
  <2>3. QED
    BY <1>3, <2>1, <2>2, Kept DEF Disposition, host
<1>4. CASE Approve
  <2>1. ItemsTyped'
    BY <1>4 DEF Approve, ItemsTyped, Dispositions
  <2>2. RowTyped'
    BY <1>4, RowSet, MeetingAssumption DEF Approve, RowTyped, WorkerOwned, HumanOwned, Final
  <2>3. QED
    BY <1>4, <2>1, <2>2, Kept DEF Approve, host
<1>5. ASSUME NEW d \in {"selected", "rejected", "deferred"}, Continue(d) PROVE Parts'
  <2>1. ItemsTyped'
    BY <1>5 DEF Continue, ItemsTyped, Dispositions
  <2>2. RowTyped' /\ HostTyped'
    BY <1>5, RowSet DEF Continue, Commanded, RowTyped, HostTyped, WorkerOwned, HumanOwned, Final
  <2>3. QED
    BY <1>5, <2>1, <2>2, Kept DEF Continue, Commanded, host
<1>6. CASE Enqueue
  <2>1. HostTyped'
    BY <1>6 DEF Enqueue, HostTyped
  <2>2. QED
    BY <1>6, <2>1, Kept DEF Enqueue, db
<1>7. CASE Disconnect
  <2>1. HostTyped' /\ LeftTyped'
    BY <1>7, SpendTyped DEF Disconnect, HostTyped
  <2>2. QED
    BY <1>7, <2>1, Kept DEF Disconnect, db
<1>8. CASE Crash \/ Exit
  <2>1. LeftTyped'
    BY <1>8, SpendTyped, Kept DEF Crash, Exit
  <2>2. HostTyped' /\ CancelledTyped' /\ PcTyped'
    BY <1>8 DEF Crash, Exit, Down, HostTyped, CancelledTyped, PcTyped, Places
  <2>3. BatchTyped' /\ LocalTyped'
    BY <1>8, LocalSet DEF Crash, Exit, Down, BatchTyped, Out
  <2>4. QED
    BY <1>8, <2>1, <2>2, <2>3, Kept DEF Crash, Exit, Down, db
<1>9. CASE Cancel
  <2>1. LeftTyped' /\ CancelledTyped'
    BY <1>9, SpendTyped DEF Cancel, CancelledTyped
  <2>2. PcTyped'
    BY <1>9, ErrorPlaces DEF Cancel, PcTyped, Places
  <2>3. QED
    BY <1>9, <2>1, <2>2, Kept DEF Cancel, db, host
<1>10. CASE Boot
  <2>1. HostTyped'
    BY <1>10 DEF Boot, HostTyped
  <2>2. QED
    BY <1>10, <2>1, Kept DEF Boot, db
<1>11. CASE Dequeue
  <2>1. PcTyped'
    BY <1>11 DEF Dequeue, PcTyped, Places
  <2>2. QED
    BY <1>11, <2>1, Kept DEF Dequeue, db, host
<1>12. CASE Interrupt
  <2>1. PcTyped' /\ CancelledTyped' /\ LeftTyped'
    BY <1>12, ThenTyped, Kept DEF Interrupt, PcTyped, Places
  <2>2. RunningTyped'
    BY <1>12 DEF Interrupt, RunningTyped
  <2>3. QED
    BY <1>12, <2>1, <2>2, Kept DEF Interrupt, row, host
<1>13. CASE Dispatch
  <2>1. PcTyped' /\ CancelledTyped' /\ LeftTyped'
    BY <1>13, ThenTyped, Kept DEF Dispatch, PcTyped, Places
  <2>2. RowTyped'
    BY <1>13, RowSet, Kept DEF Dispatch, RowTyped, row, WorkerOwned, HumanOwned, Final
  <2>3. QED
    BY <1>13, <2>1, <2>2, Kept DEF Dispatch, host
<1>14. CASE Prepare
  <2>1. PcTyped' /\ CancelledTyped' /\ LeftTyped'
    BY <1>14, ThenTyped, Kept DEF Prepare, PcTyped, Places
  <2>2. RowTyped'
    BY <1>14, RowSet, Kept DEF Prepare, RowTyped, row, WorkerOwned, HumanOwned, Final
  <2>3. QED
    BY <1>14, <2>1, <2>2, Kept DEF Prepare, host
<1>15. CASE PrepareFails \/ SourceChanged
  <2>1. PcTyped' /\ LeftTyped'
    BY <1>15, SpendTyped, ErrorPlaces DEF PrepareFails, SourceChanged, PcTyped, Places
  <2>2. QED
    BY <1>15, <2>1, Kept DEF PrepareFails, SourceChanged, db, host
<1>16. CASE OpenBatch
  <2>1. BatchTyped' /\ PcTyped'
    BY <1>16 DEF OpenBatch, BatchTyped, PcTyped, Places
  <2>2. QED
    BY <1>16, <2>1, Kept DEF OpenBatch, db, host
<1>17. ASSUME NEW d \in Designers,
          ProposalStarts(d) \/ ProposalValid(d) \/ ProposalInvalid(d)
          \/ ProposalFails(d) \/ ProposalConflicts(d)
     PROVE Parts'
  <2>1. <<d, "proposal">> \in Seats \X Phases
    BY SeatsTyped DEF Phases
  <2>2. RunningTyped'
    BY <1>17, <2>1 DEF RunningTyped, ProposalStarts, ProposalValid, ProposalInvalid,
       ProposalFails, ProposalConflicts
  <2>3. BatchTyped'
    BY <1>17 DEF BatchTyped, Move, ProposalStarts, ProposalValid, ProposalInvalid,
       ProposalFails, ProposalConflicts
  <2>4. LeftTyped'
    BY <1>17, SpendTyped, Kept DEF ProposalStarts, ProposalValid, ProposalInvalid,
       ProposalFails, ProposalConflicts
  <2>5. QED
    BY <1>17, <2>1, <2>2, <2>3, <2>4, Kept DEF ProposalStarts, ProposalValid, ProposalInvalid, ProposalFails, ProposalConflicts, Unfinished, row, host
<1>18. ASSUME NEW d \in Designers, KeepProposal(d) PROVE Parts'
  <2>1. PcTyped' /\ CancelledTyped' /\ LeftTyped'
    BY <1>18, ThenTyped DEF KeepProposal, Places
  <2>2. ContentsTyped'
    BY <1>18, ContentTyped, SeatsTyped DEF KeepProposal, Kinds
  <2>3. RunningTyped' /\ BatchTyped'
    BY <1>18 DEF KeepProposal, Move, RunningTyped, BatchTyped
  <2>4. QED
    BY <1>18, <2>1, <2>2, <2>3, Kept DEF KeepProposal, row, host
<1>19. CASE Collected
  <2>1. PcTyped'
    BY <1>19, ErrorPlaces DEF Collected, PcTyped, Places
  <2>2. QED
    BY <1>19, <2>1, Kept DEF Collected, db, host
<1>20. CASE Reveal
  <2>1. PcTyped' /\ CancelledTyped' /\ LeftTyped'
    BY <1>20, ThenTyped DEF Reveal, Places
  <2>2. RowTyped'
    BY <1>20, RowSet, MeetingAssumption DEF Reveal, RowTyped, WorkerOwned, HumanOwned, Final
  <2>3. QED
    BY <1>20, <2>1, <2>2, Kept DEF Reveal, host
<1>21. CASE EnsureConflict
  <2>1. DOMAIN conflicts \subseteq Nat /\ Len(conflicts) \in Nat
    BY AppendFacts DEF ConflictsTyped
  <2>2. PcTyped' /\ CancelledTyped' /\ LeftTyped'
    BY <1>21, ThenTyped, Kept DEF EnsureConflict, PcTyped, Places
  <2>3. ConflictsTyped'
    <3>1. CASE UNCHANGED conflicts
      BY <3>1, Kept
    <3>2. CASE conflicts' = Append(conflicts, [cycle |-> cycle, status |-> "open"])
      <4>1. [cycle |-> cycle, status |-> "open"] \in [cycle : Nat, status : {"open", "resolved"}]
        BY DEF RowTyped
      <4>2. QED
        BY <3>2, <4>1, AppendFacts DEF ConflictsTyped
    <3>3. QED
      BY <1>21, <3>1, <3>2 DEF EnsureConflict
  <2>4. LocalTyped'
    <3>a. OpenConflicts \subseteq Nat /\ Len(conflicts) + 1 \in Nat
      BY <2>1 DEF OpenConflicts
    <3>1. \E k \in Nat : local' = [local EXCEPT !.conflict = k, !.round = round]
      BY <1>21, <3>a DEF EnsureConflict
    <3>2. QED
      BY <3>1 DEF LocalTyped, Locals, RowTyped
  <2>5. QED
    BY <1>21, <2>1, <2>2, <2>3, <2>4, Kept DEF EnsureConflict, row, host
<1>22. CASE NextRound
  <2>1. PcTyped' /\ CancelledTyped' /\ LeftTyped'
    BY <1>22, ThenTyped DEF NextRound, Places
  <2>2. RowTyped'
    BY <1>22, RowSet, FieldSet DEF NextRound, RowTyped, WorkerOwned, HumanOwned, Final
  <2>3. local.round + 1 \in Nat
    BY FieldSet
  <2>4. LocalTyped'
    BY <1>22, <2>3, SeatsTyped DEF NextRound, LocalTyped, Locals
  <2>5. QED
    BY <1>22, <2>1, <2>2, <2>3, <2>4, Kept DEF NextRound, host
<1>23. CASE RoundsExhausted
  <2>1. PcTyped' /\ CancelledTyped' /\ LeftTyped'
    BY <1>23, ThenTyped DEF RoundsExhausted, Places
  <2>2. RowTyped'
    BY <1>23, RowSet, MeetingAssumption DEF RoundsExhausted, RowTyped, WorkerOwned, HumanOwned, Final
  <2>3. QED
    BY <1>23, <2>1, <2>2, Kept DEF RoundsExhausted, host
<1>24. CASE CloseRound
  <2>1. PcTyped' /\ CancelledTyped' /\ LeftTyped'
    BY <1>24, ThenTyped DEF CloseRound, Places
  <2>2. ConflictsTyped'
    <3> DEFINE R == [cycle : Nat, status : {"open", "resolved"}]
               k == local.conflict
               x == [conflicts[k] EXCEPT !.status = IF local.agree THEN "resolved" ELSE "open"]
    <3>1. conflicts \in Seq(R)
      BY DEF ConflictsTyped
    <3>2. k \in DOMAIN conflicts => conflicts[k] \in R
      <4> HIDE DEF R, k
      <4> QED
        BY <3>1, ElementFacts
    <3>3. k \in DOMAIN conflicts => x \in R
      BY <3>2
    <3>4. conflicts' = [conflicts EXCEPT ![k] = x]
      BY <1>24 DEF CloseRound
    <3>5. conflicts' \in Seq(R)
      <4> HIDE DEF R, k, x
      <4> QED
        BY <3>1, <3>3, <3>4, ExceptFacts
    <3>6. QED
      BY <3>5 DEF ConflictsTyped
  <2>3. QED
    BY <1>24, <2>1, <2>2, Kept DEF CloseRound, row, host
<1>25. CASE Adopt
  <2>1. PcTyped' /\ CancelledTyped' /\ LeftTyped'
    BY <1>25, ThenTyped DEF Adopt, Places
  <2>2. RowTyped'
    BY <1>25, RowSet, FieldSet DEF Adopt, RowTyped, WorkerOwned, HumanOwned, Final
  <2>3. QED
    BY <1>25, <2>1, <2>2, Kept DEF Adopt, host
<1>26. CASE RunStarts
  <2>1. PcTyped' /\ CancelledTyped' /\ LeftTyped'
    BY <1>26, ThenTyped DEF RunStarts, PcTyped
  <2>2. RunningTyped'
    BY <1>26, RunTyped DEF RunStarts, AtRun, RunningTyped
  <2>3. LocalTyped'
    BY <1>26, LocalSet DEF RunStarts
  <2>4. QED
    BY <1>26, <2>1, <2>2, <2>3, Kept DEF RunStarts, row, host
<1>27. CASE RunInvalid
  <2>1. PcTyped' /\ CancelledTyped' /\ LeftTyped'
    BY <1>27, ThenTyped, ErrorPlaces DEF RunInvalid, PcTyped, Places
  <2>2. RunningTyped' /\ LocalTyped'
    BY <1>27, RunEnds, LocalSet DEF RunInvalid
  <2>3. QED
    BY <1>27, <2>1, <2>2, Kept DEF RunInvalid, row, host
<1>28. CASE RunFails
  <2>1. PcTyped' /\ LeftTyped'
    BY <1>28, SpendTyped, ErrorPlaces DEF RunFails, PcTyped, Places
  <2>2. RunningTyped' /\ LocalTyped'
    BY <1>28, RunEnds, LocalSet DEF RunFails
  <2>3. QED
    BY <1>28, <2>1, <2>2, Kept DEF RunFails, row, host
<1>29. ASSUME NEW ok \in BOOLEAN, Position(ok) PROVE Parts'
  <2>1. local.seat \in 1..(NumDesigners + 1)
    BY FieldSet
  <2>2. PcTyped' /\ CancelledTyped' /\ LeftTyped'
    BY <1>29, ThenTyped DEF Position, Places
  <2>3. ContentsTyped'
    BY <1>29, <2>1, ContentTyped, SeatsTyped DEF Position, Kinds
  <2>4. RunningTyped'
    BY <1>29, RunEnds DEF Position
  <2>5. local.seat < NumDesigners => local.seat + 1 \in 1..(NumDesigners + 1)
    BY <2>1, MeetingAssumption
  <2>6. LocalTyped'
    BY <1>29, <2>5 DEF Position, LocalTyped, Locals, Idle
  <2>7. QED
    BY <1>29, <2>1, <2>2, <2>3, <2>4, <2>5, <2>6, Kept DEF Position, row, host
<1>30. CASE Recorded
  <2>1. PcTyped' /\ CancelledTyped' /\ LeftTyped'
    BY <1>30, ThenTyped DEF Recorded, Places
  <2>2. ContentsTyped'
    BY <1>30, ContentTyped, SeatsTyped DEF Recorded, ResultKind, Kinds
  <2>3. RunningTyped' /\ LocalTyped'
    BY <1>30, RunEnds, LocalSet DEF Recorded
  <2>4. QED
    BY <1>30, <2>1, <2>2, <2>3, Kept DEF Recorded, row, host
<1>31. CASE Itemize
  <2>1. PcTyped' /\ CancelledTyped' /\ LeftTyped'
    BY <1>31, ThenTyped DEF Itemize, Places
  <2>2. RowTyped'
    BY <1>31, RowSet, MeetingAssumption DEF Itemize, RowTyped, WorkerOwned, HumanOwned, Final
  <2>3. DOMAIN contents \subseteq Nat
    BY AppendFacts DEF ContentsTyped
  <2>4. ResultTyped' /\ ItemsTyped'
    BY <1>31, <2>3 DEF Itemize, ResultTyped, ItemsTyped, Dispositions
  <2>5. QED
    BY <1>31, <2>1, <2>2, <2>3, <2>4, Kept DEF Itemize, host
<1>32. ASSUME NEW ok \in BOOLEAN, Verified(ok) PROVE Parts'
  <2>1. PcTyped' /\ CancelledTyped' /\ LeftTyped'
    BY <1>32, ThenTyped DEF Verified, Places
  <2>2. ContentsTyped'
    BY <1>32, ContentTyped, SeatsTyped DEF Verified, Kinds
  <2>3. RunningTyped' /\ LocalTyped'
    BY <1>32, RunEnds, LocalSet DEF Verified
  <2>4. QED
    BY <1>32, <2>1, <2>2, <2>3, Kept DEF Verified, row, host
<1>33. CASE Observe \/ BackToReview \/ Reconvene
  <2>1. PcTyped' /\ CancelledTyped' /\ LeftTyped'
    BY <1>33, ThenTyped DEF Observe, BackToReview, Reconvene, Places
  <2>2. RowTyped'
    BY <1>33, RowSet DEF Observe, BackToReview, Reconvene, RowTyped, WorkerOwned, HumanOwned, Final
  <2>3. QED
    BY <1>33, <2>1, <2>2, Kept DEF Observe, BackToReview, Reconvene, host
<1>34. ASSUME NEW kind \in {"recorder_answer", "meeting_result", "recorder_opening"},
          NEW next \in {"answered", "itemize", "reopen"}, Reviewed(kind, next)
     PROVE Parts'
  <2>1. PcTyped' /\ CancelledTyped' /\ LeftTyped'
    BY <1>34, ThenTyped DEF Reviewed, Places
  <2>2. ContentsTyped'
    BY <1>34, ContentTyped, SeatsTyped DEF Reviewed, Kinds
  <2>3. RunningTyped' /\ LocalTyped'
    BY <1>34, RunEnds, LocalSet DEF Reviewed
  <2>4. QED
    BY <1>34, <2>1, <2>2, <2>3, Kept DEF Reviewed, row, host
<1>35. CASE Conflict
  <2>1. PcTyped' /\ LeftTyped'
    BY <1>35, SpendTyped, ErrorPlaces DEF Conflict, PcTyped, Places
  <2>2. QED
    BY <1>35, <2>1, Kept DEF Conflict, db, host
<1>36. CASE Fail
  <2>1. RowTyped'
    BY <1>36, RowSet, MeetingAssumption DEF Fail, RowTyped, WorkerOwned, HumanOwned, Final
  <2>2. PcTyped'
    BY <1>36 DEF Fail, PcTyped, Places
  <2>3. QED
    BY <1>36, <2>1, <2>2, Kept DEF Fail, host
<1>37. CASE Return
  <2>1. PcTyped' /\ HostTyped'
    BY <1>37 DEF Return, PcTyped, HostTyped, Places
  <2>2. LocalTyped'
    BY <1>37, LocalSet DEF Return
  <2>3. QED
    BY <1>37, <2>1, <2>2, Kept DEF Return, db
<1>38. CASE UNCHANGED vars
  BY <1>38, Kept DEF vars, db, row, host
<1>39. QED
  BY <1>1, <1>2, <1>3, <1>4, <1>5, <1>6, <1>7, <1>8, <1>9, <1>10, <1>11,
     <1>12, <1>13, <1>14, <1>15, <1>16, <1>17, <1>18, <1>19, <1>20, <1>21,
     <1>22, <1>23, <1>24, <1>25, <1>26, <1>27, <1>28, <1>29, <1>30, <1>31,
     <1>32, <1>33, <1>34, <1>35, <1>36, <1>37, <1>38
     DEF Next, Command, Work, Trouble

(* Every variable of a Meeting keeps its type.                             *)
THEOREM TypeCorrect == Spec => []TypeOK
  BY InitTyped, NextTyped, TypeParts, PTL DEF Spec

-----------------------------------------------------------------------------
(* The inductive invariant behind the reveal barrier.                      *)

(* Where Service.Run is tells which status the Meeting has: no command, no *)
(* crash and no late error can move one without the other.                 *)
StatusAt(loc) ==
    CASE loc \in {"prepare", "batch", "collect", "reveal"} -> {"preparing", "sealed_proposals"}
      [] loc \in {"conflict", "round", "seat", "close", "adopt"} -> {"revealed", "deliberating"}
      [] loc = "record" -> {"recording"}
      [] loc = "itemize" -> {"recording", "recorder_reviewing"}
      [] loc \in {"verify", "observe"} -> {"verifying"}
      [] loc \in {"review", "answered", "giveup", "reopen"} -> {"recorder_reviewing"}
      [] OTHER -> WorkerOwned \cup HumanOwned \cup Final

Placed == status \in StatusAt(pc)

(* Protocol v2 has no Verifier and never asks the Human a question;        *)
(* protocol v1 never reconvenes and proposes in its first cycle only.      *)
ByProtocol ==
    /\ Protocol = 2 => status \notin {"needs_user_input", "verifying", "awaiting_human"}
    /\ Protocol = 1 => status \notin {"reconvening", "recorder_reviewing", "awaiting_user_review"}
    /\ Protocol = 1 /\ status \in {"draft", "preparing", "sealed_proposals"} => cycle = 1

Round1 == IF Protocol = 2 THEN cycle ELSE 1

AllProposed == \A d \in Designers : \E j \in DOMAIN contents : Proposes(j, d, Round1)

(* From the reveal on, every designer has a proposal; a designer whose     *)
(* goroutine is done while they are collected has one of this cycle.       *)
Beyond ==
    \/ status \in {"revealed", "deliberating", "needs_user_input"}
    \/ Protocol = 1 /\ status \in {"recording", "verifying"}

Sealed ==
    /\ Beyond => AllProposed
    /\ pc = "reveal" => AllProposed
    /\ pc = "collect" =>
          \A d \in Designers : batch[d] \in {"out", "kept"} => HasProposal(d)

Control == Parts /\ Placed /\ ByProtocol

-----------------------------------------------------------------------------
(* Where Service.Run is.                                                   *)

LEMMA StatusSets ==
    /\ \A loc \in {"prepare", "batch", "collect", "reveal"} :
          StatusAt(loc) = {"preparing", "sealed_proposals"}
    /\ \A loc \in {"conflict", "round", "seat", "close", "adopt"} :
          StatusAt(loc) = {"revealed", "deliberating"}
    /\ StatusAt("record") = {"recording"}
    /\ StatusAt("itemize") = {"recording", "recorder_reviewing"}
    /\ \A loc \in {"verify", "observe"} : StatusAt(loc) = {"verifying"}
    /\ \A loc \in {"review", "answered", "giveup", "reopen"} :
          StatusAt(loc) = {"recorder_reviewing"}
    /\ \A loc \in {"idle", "interrupt", "dispatch", "failing", "exit"} :
          StatusAt(loc) = WorkerOwned \cup HumanOwned \cup Final
  BY DEF StatusAt

\* Between two Runs, before the dispatch and on the way out any status is possible.
LEMMA Leaves ==
    ASSUME Parts', pc' \in {"idle", "interrupt", "dispatch", "failing", "exit"}
    PROVE  Placed'
  BY StatusSets DEF Parts, RowTyped, Placed

LEMMA Lands ==
    ASSUME Parts, Parts', NEW next \in Places, Then(next), status' \in StatusAt(next)
    PROVE  Placed'
<1>1. pc' \in {next, "exit", "failing"}
  BY ThenTyped
<1>2. QED
  BY <1>1, Leaves DEF Placed

\* A command finds Service.Run outside of its steps.
LEMMA Free ==
    ASSUME Parts, Placed, status \in HumanOwned
    PROVE  pc \in {"idle", "interrupt", "dispatch", "failing", "exit"}
  BY StatusSets DEF Parts, PcTyped, Places, Placed, HumanOwned

LEMMA SamePlace ==
    ASSUME Placed, UNCHANGED <<status, pc>> PROVE Placed'
  BY DEF Placed

LEMMA InitControl == Init => Control
  BY InitTyped, StatusSets DEF Init, Control, Placed, ByProtocol, HumanOwned

LEMMA NextControl == Control /\ [Next]_vars => Control'
<1> SUFFICES ASSUME Control, [Next]_vars PROVE Placed' /\ ByProtocol'
  BY NextTyped DEF Control
<1>t. Parts /\ Parts'
  BY NextTyped DEF Control
<1> USE DEF Control, ByProtocol
<1>1. CASE Start \/ Answer \/ Approve
  <2>1. Placed'
    BY <1>t, <1>1, Free, Leaves DEF Start, Answer, Approve, Commanded, HumanOwned
  <2>2. QED
    BY <1>1, <2>1 DEF Start, Answer, Approve, Commanded, SetStatus
<1>2. ASSUME NEW d \in {"selected", "rejected", "deferred"},
          Continue(d) \/ \E i \in DOMAIN items : Disposition(i, d)
     PROVE Placed' /\ ByProtocol'
  <2>1. Placed'
    BY <1>t, <1>2, Free, Leaves DEF Continue, Disposition, Commanded, HumanOwned
  <2>2. QED
    BY <1>2, <2>1 DEF Continue, Disposition, Commanded, SetStatus, row
<1>3. CASE Enqueue \/ Disconnect \/ Boot
  <2>1. Placed'
    BY <1>3, SamePlace DEF Enqueue, Disconnect, Boot, db
  <2>2. QED
    BY <1>3, <2>1 DEF Enqueue, Disconnect, Boot, db
<1>4. CASE Crash \/ Exit
  <2>1. Placed'
    BY <1>t, <1>4, Leaves DEF Crash, Exit, Down
  <2>2. QED
    BY <1>4, <2>1 DEF Crash, Exit, Down, db
<1>5. CASE Cancel \/ Conflict \/ PrepareFails \/ SourceChanged \/ RunFails
  <2>1. pc' \in {"idle", "failing", "exit"}
    BY <1>5, ErrorPlaces DEF Cancel, Conflict, PrepareFails, SourceChanged, RunFails
  <2>2. Placed'
    BY <1>t, <2>1, Leaves
  <2>3. QED
    BY <1>5, <2>1, <2>2 DEF Cancel, Conflict, PrepareFails, SourceChanged, RunFails, db, row
<1>6. CASE Dequeue \/ Return \/ Fail
  <2>1. Placed'
    BY <1>t, <1>6, Leaves DEF Dequeue, Return, Fail
  <2>2. QED
    BY <1>6, <2>1 DEF Dequeue, Return, Fail, db, SetStatus
<1>7. CASE Interrupt
  <2>1. pc' \in {"interrupt", "dispatch", "failing", "exit"}
    BY <1>t, <1>7, ThenTyped DEF Interrupt, Places
  <2>2. Placed'
    BY <1>t, <2>1, Leaves
  <2>3. QED
    BY <1>7, <2>1, <2>2 DEF Interrupt, row
<1>8. CASE Dispatch
  <2>1. CASE status = "reconvening"
    <3>1. Then("prepare") /\ status' = "sealed_proposals" /\ cycle' = cycle
      BY <1>8, <2>1 DEF Dispatch, SetStatus
    <3>2. Placed'
      BY <1>t, <3>1, Lands, StatusSets DEF Places
    <3>3. QED
      BY <2>1, <3>1, <3>2
  <2>2. CASE status # "reconvening"
    <3>1. status' = status /\ cycle' = cycle
      BY <1>8, <2>2 DEF Dispatch, row
    <3>2. Placed'
      BY <1>t, <1>8, <2>2, <3>1, Leaves, StatusSets DEF Dispatch, Placed
    <3>3. QED
      BY <3>1, <3>2
  <2>3. QED
    BY <1>8, <2>1, <2>2 DEF Dispatch, row, SetStatus
<1>9. CASE Prepare
  <2>1. status' \in {"preparing", "sealed_proposals"}
    BY <1>9, StatusSets DEF Prepare, At, SetStatus, row, Placed
  <2>2. Placed'
    BY <1>t, <1>9, <2>1, Lands, StatusSets DEF Prepare, Places, Placed
  <2>3. QED
    BY <1>9, <2>1, <2>2 DEF Prepare, row, SetStatus
<1>10. CASE OpenBatch \/ Collected
  <2>1. pc' \in {"collect", "reveal", "failing", "exit"}
    BY <1>10, ErrorPlaces DEF OpenBatch, Collected
  <2>2. Placed'
    <3>1. status' = status /\ (OpenBatch => status \in StatusAt("collect"))
          /\ (Collected => status \in StatusAt("reveal"))
      BY <1>10, StatusSets DEF OpenBatch, Collected, At, db, Placed
    <3>2. CASE pc' \in {"failing", "exit"}
      BY <1>t, <3>2, Leaves
    <3>3. CASE pc' \in {"collect", "reveal"}
      BY <1>10, <3>1, <3>3, StatusSets DEF Placed
    <3>4. QED
      BY <2>1, <3>2, <3>3
  <2>3. QED
    BY <1>10, <2>1, <2>2 DEF OpenBatch, Collected, db
<1>11. ASSUME NEW d \in Designers,
          ProposalStarts(d) \/ ProposalValid(d) \/ ProposalInvalid(d)
          \/ ProposalFails(d) \/ ProposalConflicts(d)
     PROVE Placed' /\ ByProtocol'
  <2>1. Placed'
    BY <1>11, SamePlace DEF ProposalStarts, ProposalValid, ProposalInvalid, ProposalFails,
       ProposalConflicts, Unfinished, row
  <2>2. QED
    BY <1>11, <2>1 DEF ProposalStarts, ProposalValid, ProposalInvalid, ProposalFails, ProposalConflicts, Unfinished, row
<1>12. ASSUME NEW d \in Designers, KeepProposal(d) PROVE Placed' /\ ByProtocol'
  <2>1. Placed'
    BY <1>t, <1>12, Lands DEF KeepProposal, row, Placed, At, PcTyped, Parts
  <2>2. QED
    BY <1>12, <2>1 DEF KeepProposal, row
<1>13. CASE Reveal
  <2>1. Placed'
    BY <1>t, <1>13, Lands, StatusSets DEF Reveal, SetStatus, Places
  <2>2. QED
    BY <1>13, <2>1 DEF Reveal, SetStatus
<1>14. CASE EnsureConflict
  <2>1. status' = status /\ cycle' = cycle /\ status \in {"revealed", "deliberating"}
    BY <1>14, StatusSets DEF EnsureConflict, row, At, Placed
  <2>2. Placed'
    <3>1. CASE pc' = "round"
      BY <2>1, <3>1, StatusSets DEF Placed
    <3>2. CASE Then("round")
      BY <1>t, <2>1, <3>2, Lands, StatusSets DEF Places
    <3>3. QED
      BY <1>14, <3>1, <3>2 DEF EnsureConflict
  <2>3. QED
    BY <1>14, <2>1, <2>2 DEF EnsureConflict, row
<1>15. CASE NextRound \/ CloseRound \/ Adopt \/ RoundsExhausted
  <2>1. status \in {"revealed", "deliberating"}
    BY <1>15, StatusSets DEF NextRound, CloseRound, Adopt, RoundsExhausted, At, Placed
  <2>2. Placed'
    <3>1. CASE NextRound
      BY <1>t, <3>1, Lands, StatusSets DEF NextRound, SetStatus, Places
    <3>2. CASE CloseRound
      BY <1>t, <2>1, <3>2, Lands, StatusSets DEF CloseRound, row, Places
    <3>3. CASE Adopt
      BY <1>t, <3>3, Lands, StatusSets DEF Adopt, SetStatus, Places
    <3>4. CASE RoundsExhausted
      <4>1. CASE Protocol = 2
        BY <1>t, <3>4, <4>1, Lands, StatusSets DEF RoundsExhausted, SetStatus, Places
      <4>2. CASE Protocol # 2
        <5>1. pc' \in {"exit", "failing"}
          BY <1>t, <3>4, <4>2, ThenTyped DEF RoundsExhausted, Places
        <5>2. QED
          BY <1>t, <5>1, Leaves
      <4>3. QED
        BY <4>1, <4>2
    <3>5. QED
      BY <1>15, <3>1, <3>2, <3>3, <3>4
  <2>3. ByProtocol'
    BY <1>15, <2>1, MeetingAssumption DEF NextRound, CloseRound, Adopt, RoundsExhausted, SetStatus, row
  <2>4. QED
    BY <1>15, <2>1, <2>2, <2>3 DEF NextRound, CloseRound, Adopt, RoundsExhausted, row, SetStatus
<1>16. CASE RunStarts \/ RunInvalid
  <2>1. Placed'
    <3>1. PICK next \in {pc, "giveup", "exit", "failing"} : Then(next) /\ (next = "giveup" => pc = "review")
      BY <1>16, ErrorPlaces DEF RunStarts, RunInvalid, AtRun, Runners
    <3>2. next \in Places
      BY <1>t DEF Parts, PcTyped, Places
    <3>3. status' \in StatusAt(next)
      BY <1>t, <1>16, <3>1, StatusSets DEF RunStarts, RunInvalid, row, Placed, Parts, RowTyped
    <3>4. QED
      BY <1>t, <3>1, <3>2, <3>3, Lands
  <2>2. QED
    BY <1>16, <2>1 DEF RunStarts, RunInvalid, row
<1>17. ASSUME NEW ok \in BOOLEAN, Position(ok) \/ Verified(ok) PROVE Placed' /\ ByProtocol'
  <2>1. Placed'
    BY <1>t, <1>17, Lands, StatusSets DEF Position, Verified, At, row, Placed, Places
  <2>2. QED
    BY <1>17, <2>1 DEF Position, Verified, row
<1>18. CASE Recorded
  <2>1. Placed'
    BY <1>t, <1>18, Lands, StatusSets DEF Recorded, At, row, Placed, Places
  <2>2. QED
    BY <1>18, <2>1 DEF Recorded, row
<1>19. CASE Itemize
  <2>1. status \in {"recording", "recorder_reviewing"}
    BY <1>19, StatusSets DEF Itemize, At, Placed
  <2>2. Placed'
    BY <1>t, <1>19, Lands, StatusSets, Leaves DEF Itemize, SetStatus, Places, Parts, RowTyped
  <2>3. ByProtocol'
    BY <1>19, MeetingAssumption DEF Itemize, SetStatus
  <2>4. QED
    BY <1>19, <2>1, <2>2, <2>3 DEF Itemize, row
<1>20. CASE Observe \/ BackToReview \/ Reconvene
  <2>1. Observe => status = "verifying"
    BY StatusSets DEF Observe, At, Placed
  <2>2. BackToReview \/ Reconvene => status = "recorder_reviewing"
    BY StatusSets DEF BackToReview, Reconvene, At, Placed
  <2>3. pc' \in {"exit", "failing"}
    BY <1>t, <1>20, ThenTyped DEF Observe, BackToReview, Reconvene, Places
  <2>4. Placed'
    BY <1>t, <2>3, Leaves
  <2>5. ByProtocol'
    BY <1>20, <2>1, <2>2, MeetingAssumption DEF Observe, BackToReview, Reconvene, SetStatus
  <2>6. QED
    BY <1>20, <2>1, <2>2, <2>3, <2>4, <2>5
<1>21. ASSUME NEW k \in {"answer", "patch", "reconvene"},
          \/ k = "answer" /\ Reviewed("recorder_answer", "answered")
          \/ k = "patch" /\ Reviewed("meeting_result", "itemize")
          \/ k = "reconvene" /\ Reviewed("recorder_opening", "reopen")
     PROVE Placed' /\ ByProtocol'
  <2>1. Placed'
    BY <1>t, <1>21, Lands, StatusSets DEF Reviewed, At, row, Placed, Places
  <2>2. QED
    BY <1>21, <2>1 DEF Reviewed, row
<1>22. CASE UNCHANGED vars
  <2>1. Placed' /\ ByProtocol'
    BY <1>22 DEF vars, db, Placed
  <2>2. QED
    BY <1>22, <2>1
<1>23. QED
  BY <1>1, <1>2, <1>3, <1>4, <1>5, <1>6, <1>7, <1>8, <1>9, <1>10, <1>11,
     <1>12, <1>13, <1>14, <1>15, <1>16, <1>17, <1>18, <1>19, <1>20, <1>21,
     <1>22
     DEF Next, Command, Work, Trouble

(* In every reachable state the place of Service.Run and the status agree. *)
THEOREM PlaceCorrect == Spec => []Placed
<1>1. Control => Placed
  BY DEF Control
<1>2. QED
  BY InitControl, NextControl, <1>1, PTL DEF Spec

-----------------------------------------------------------------------------
(* The reveal barrier.                                                     *)

Barrier == Control /\ Sealed /\ RevealBarrier

\* The contents a step leaves: the same, or one more.
Grown == \/ contents' = contents
         \/ \E x \in Content : contents' = Append(contents, x)

\* What has been proposed stays proposed.
LEMMA Persists ==
    ASSUME Parts, Grown
    PROVE  /\ DOMAIN contents \subseteq DOMAIN contents'
           /\ \A j \in DOMAIN contents : contents'[j] = contents[j]
<1>1. contents \in Seq(Content)
  BY DEF Parts, ContentsTyped
<1>2. CASE contents' = contents
  BY <1>2
<1>3. ASSUME NEW x \in Content, contents' = Append(contents, x)
      PROVE  /\ DOMAIN contents \subseteq DOMAIN contents'
             /\ \A j \in DOMAIN contents : contents'[j] = contents[j]
  BY <1>1, <1>3, AppendFacts
<1>4. QED
  BY <1>2, <1>3 DEF Grown

LEMMA KeepProposed ==
    ASSUME Parts, Grown, AllProposed, cycle' = cycle \/ Protocol # 2
    PROVE  AllProposed'
<1>1. Round1' = Round1
  BY DEF Round1
<1>2. SUFFICES ASSUME NEW d \in Designers PROVE \E j \in DOMAIN contents' : Proposes(j, d, Round1)'
  BY DEF AllProposed
<1>3. PICK j \in DOMAIN contents : Proposes(j, d, Round1)
  BY DEF AllProposed
<1>4. j \in DOMAIN contents' /\ contents'[j] = contents[j]
  BY Persists
<1>5. QED
  BY <1>1, <1>3, <1>4 DEF Proposes

LEMMA KeepHas ==
    ASSUME Parts, Grown, NEW d, HasProposal(d), cycle' = cycle
    PROVE  HasProposal(d)'
<1>1. PICK j \in DOMAIN contents : /\ contents[j].kind = "proposal" /\ contents[j].seat = d
                                  /\ contents[j].cycle = cycle
  BY DEF HasProposal
<1>2. j \in DOMAIN contents' /\ contents'[j] = contents[j]
  BY Persists
<1>3. QED
  BY <1>1, <1>2 DEF HasProposal

LEMMA AddedContent ==
    ASSUME Parts, NEW kind \in Kinds, NEW seat \in Seats, NEW ok \in BOOLEAN,
           AddContent(kind, seat, ok)
    PROVE  \E x \in Content : /\ contents' = Append(contents, x)
                              /\ x.kind = kind /\ x.seat = seat /\ x.cycle = cycle
                              /\ x.round = round /\ x.ok = ok
<1> DEFINE new == [kind |-> kind, seat |-> seat, cycle |-> cycle, round |-> round, ok |-> ok]
<1>1. new \in Content
  BY DEF Parts, RowTyped, Content
<1>2. contents' = Append(contents, new)
  BY DEF AddContent
<1>3. /\ new.kind = kind /\ new.seat = seat /\ new.cycle = cycle
      /\ new.round = round /\ new.ok = ok
  OBVIOUS
<1> HIDE DEF new
<1>4. QED
  BY <1>1, <1>2, <1>3

\* A new content keeps the barrier unless it is a position that comes too early.
LEMMA KeepBarrier ==
    ASSUME Parts, RevealBarrier,
           \/ contents' = contents
           \/ \E x \in Content :
                 /\ contents' = Append(contents, x)
                 /\ x.kind = "position" => x.cycle = cycle /\ AllProposed
    PROVE  RevealBarrier'
<1>1. contents \in Seq(Content)
  BY DEF Parts, ContentsTyped
<1>2. CASE contents' = contents
  BY <1>2 DEF RevealBarrier, Proposes
<1>3. ASSUME NEW x \in Content, contents' = Append(contents, x),
             x.kind = "position" => x.cycle = cycle /\ AllProposed
      PROVE  RevealBarrier'
  <2>1. /\ DOMAIN contents = 1..Len(contents) /\ Len(contents) \in Nat
        /\ DOMAIN contents' = 1..(Len(contents) + 1)
        /\ \A i \in 1..Len(contents) : contents'[i] = contents[i]
        /\ contents'[Len(contents) + 1] = x
    BY <1>1, <1>3, AppendFacts
  <2>2. SUFFICES ASSUME NEW i \in DOMAIN contents', contents'[i].kind = "position",
                        NEW d \in Designers
                 PROVE  \E j \in 1..(i - 1) :
                           Proposes(j, d, IF Protocol = 2 THEN contents[i].cycle ELSE 1)'
    BY DEF RevealBarrier
  <2>3. CASE i \in 1..Len(contents)
    <3>1. contents[i].kind = "position" /\ i \in DOMAIN contents
      BY <2>1, <2>2, <2>3
    <3>2. PICK j \in 1..(i - 1) :
             Proposes(j, d, IF Protocol = 2 THEN contents[i].cycle ELSE 1)
      BY <3>1 DEF RevealBarrier
    <3>3. j \in 1..Len(contents)
      BY <2>1, <2>3, <3>2
    <3>4. QED
      BY <2>1, <2>3, <3>2, <3>3 DEF Proposes
  <2>4. CASE i = Len(contents) + 1
    <3>1. x.cycle = cycle /\ AllProposed
      BY <1>3, <2>1, <2>2, <2>4
    <3>2. PICK j \in DOMAIN contents : Proposes(j, d, Round1)
      BY <3>1 DEF AllProposed
    <3>3. j \in 1..(i - 1)
      BY <2>1, <2>4
    <3>4. QED
      BY <2>1, <2>4, <3>1, <3>2, <3>3 DEF Proposes, Round1
  <2>5. QED
    BY <2>1, <2>3, <2>4
<1>4. QED
  BY <1>2, <1>3

\* A step that neither collects nor enters the reveal from elsewhere.
LEMMA KeepSealed ==
    ASSUME Parts, Sealed, Grown,
           Beyond' => (Beyond \/ pc = "reveal") /\ (cycle' = cycle \/ Protocol # 2),
           pc' = "reveal" => pc = "reveal" /\ cycle' = cycle,
           pc' = "collect" =>
              /\ pc = "collect" /\ cycle' = cycle
              /\ \A d \in Designers : batch'[d] \in {"out", "kept"} => batch[d] \in {"out", "kept"}
    PROVE  Sealed'
<1>1. Beyond' => AllProposed'
  BY KeepProposed DEF Sealed
<1>2. pc' = "reveal" => AllProposed'
  BY KeepProposed DEF Sealed
<1>3. ASSUME pc' = "collect", NEW d \in Designers, batch'[d] \in {"out", "kept"}
      PROVE  HasProposal(d)'
  <2>1. HasProposal(d) /\ cycle' = cycle
    BY <1>3 DEF Sealed
  <2>2. QED
    BY <2>1, KeepHas
<1>4. QED
  BY <1>1, <1>2, <1>3 DEF Sealed

LEMMA InitBarrier == Init => Barrier
<1> SUFFICES ASSUME Init PROVE Barrier
  OBVIOUS
<1>1. Control
  BY InitControl
<1>2. Sealed
  BY DEF Init, Sealed, Beyond
<1>3. RevealBarrier
  BY EmptyFacts DEF Init, RevealBarrier
<1>4. QED
  BY <1>1, <1>2, <1>3 DEF Barrier

LEMMA NextBarrier == Barrier /\ [Next]_vars => Barrier'
<1> SUFFICES ASSUME Barrier, [Next]_vars PROVE Sealed' /\ RevealBarrier'
  BY NextControl DEF Barrier
<1>t. /\ Parts /\ Placed /\ ByProtocol /\ Sealed /\ RevealBarrier /\ ByProtocol'
  BY NextControl DEF Barrier, Control
\* Most steps leave the contents alone.
<1>k. ASSUME contents' = contents, cycle' = cycle,
             Beyond' => Beyond \/ pc = "reveal",
             pc' = "reveal" => pc = "reveal",
             pc' = "collect" => pc = "collect" /\ UNCHANGED batch
      PROVE  Sealed' /\ RevealBarrier'
  BY <1>t, <1>k, KeepSealed, KeepBarrier DEF Grown
<1>1. CASE Start \/ Approve
  <2>1. pc \in {"idle", "interrupt", "dispatch", "failing", "exit"} /\ UNCHANGED pc
    BY <1>t, <1>1, Free DEF Start, Approve, Commanded, HumanOwned
  <2>2. cycle' = cycle /\ contents' = contents /\ (Beyond' => Beyond)
    BY <1>1 DEF Start, Approve, Commanded, SetStatus, row, Beyond
  <2>3. Sealed' /\ RevealBarrier'
    BY <1>k, <2>1, <2>2
  <2>4. QED
    BY <2>3
<1>2. ASSUME NEW d \in {"selected", "rejected", "deferred"},
          Continue(d) \/ \E i \in DOMAIN items : Disposition(i, d)
     PROVE Sealed' /\ RevealBarrier'
  <2>1. pc \in {"idle", "interrupt", "dispatch", "failing", "exit"} /\ UNCHANGED pc
    BY <1>t, <1>2, Free DEF Continue, Disposition, Commanded, HumanOwned
  <2>2. cycle' = cycle /\ contents' = contents /\ (Beyond' => Beyond)
    BY <1>2 DEF Continue, Disposition, Commanded, SetStatus, row, Beyond
  <2>3. Sealed' /\ RevealBarrier'
    BY <1>k, <2>1, <2>2
  <2>4. QED
    BY <2>3
<1>3. CASE Answer
  <2>1. pc \in {"idle", "interrupt", "dispatch", "failing", "exit"} /\ UNCHANGED pc
    BY <1>t, <1>3, Free DEF Answer, Commanded, HumanOwned
  <2>2. Protocol # 2 /\ Beyond
    BY <1>t, <1>3 DEF Answer, ByProtocol, Beyond
  <2>3. \E x \in Content : contents' = Append(contents, x) /\ x.kind # "position"
    <3> DEFINE new == [kind |-> "human_input", seat |-> Human, cycle |-> cycle + 1,
                        round |-> 0, ok |-> TRUE]
    <3>1. contents' = Append(contents, new)
      BY <1>3 DEF Answer
    <3>2. new \in Content
      BY <1>t, SeatsTyped DEF Parts, RowTyped, Content, Kinds
    <3>3. new.kind # "position"
      OBVIOUS
    <3> HIDE DEF new
    <3>4. QED
      BY <3>1, <3>2, <3>3
  <2>4. RevealBarrier'
    BY <1>t, <2>3, KeepBarrier
  <2>5. Sealed'
    BY <1>t, <2>1, <2>2, <2>3, KeepSealed DEF Grown
  <2>6. QED
    BY <2>4, <2>5
<1>4. CASE Enqueue \/ Disconnect \/ Boot
  BY <1>t, <1>k, <1>4 DEF Enqueue, Disconnect, Boot, db, Beyond
<1>5. CASE Crash \/ Exit
  BY <1>t, <1>k, <1>5 DEF Crash, Exit, Down, db, Beyond
<1>6. CASE Cancel \/ Conflict \/ PrepareFails \/ SourceChanged \/ RunFails
  <2>1. pc' \in {"idle", "failing", "exit"}
    BY <1>6, ErrorPlaces DEF Cancel, Conflict, PrepareFails, SourceChanged, RunFails
  <2>2. Sealed' /\ RevealBarrier'
    BY <1>k, <1>6, <2>1 DEF Cancel, Conflict, PrepareFails, SourceChanged, RunFails, db, row, Beyond
  <2>3. QED
    BY <2>2
<1>7. CASE Dequeue \/ Return \/ Fail
  BY <1>t, <1>k, <1>7 DEF Dequeue, Return, Fail, db, SetStatus, Beyond
<1>8. CASE Interrupt
  <2>1. pc' \in {"interrupt", "dispatch", "failing", "exit"}
    BY <1>t, <1>8, ThenTyped DEF Interrupt, Places
  <2>2. Sealed' /\ RevealBarrier'
    BY <1>k, <1>8, <2>1 DEF Interrupt, row, Beyond
  <2>3. QED
    BY <2>2
<1>9. CASE Dispatch
  <2>1. pc' \notin {"collect", "reveal"}
    BY <1>t, <1>9, ThenTyped DEF Dispatch, Places
  <2>2. cycle' = cycle /\ contents' = contents /\ (Beyond' => Beyond)
    BY <1>9 DEF Dispatch, SetStatus, row, Beyond
  <2>3. Sealed' /\ RevealBarrier'
    BY <1>k, <2>1, <2>2
  <2>4. QED
    BY <2>3
<1>10. CASE Prepare
  <2>1. pc' \notin {"collect", "reveal"}
    BY <1>t, <1>10, ThenTyped DEF Prepare, Places
  <2>2. cycle' = cycle /\ contents' = contents /\ (Beyond' => Beyond)
    BY <1>10 DEF Prepare, SetStatus, row, Beyond
  <2>3. Sealed' /\ RevealBarrier'
    BY <1>k, <2>1, <2>2
  <2>4. QED
    BY <2>3
<1>11. CASE OpenBatch
  <2>1. UNCHANGED <<status, cycle, contents>> /\ pc' = "collect"
    BY <1>11 DEF OpenBatch, db
  <2>2. RevealBarrier'
    BY <1>t, <2>1, KeepBarrier
  <2>3. \A d \in Designers : batch'[d] \in {"out", "kept"} => HasProposal(d)
    BY <1>11 DEF OpenBatch
  <2>4. \A d \in Designers : HasProposal(d) => HasProposal(d)'
    BY <1>t, <2>1, KeepHas DEF Grown
  <2>5. Beyond' => AllProposed'
    BY <1>t, <2>1, KeepProposed DEF Sealed, Grown, Beyond
  <2>6. Sealed'
    BY <2>1, <2>3, <2>4, <2>5 DEF Sealed
  <2>7. QED
    BY <2>2, <2>6
<1>12. ASSUME NEW d \in Designers,
          ProposalStarts(d) \/ ProposalValid(d) \/ ProposalInvalid(d)
          \/ ProposalFails(d) \/ ProposalConflicts(d)
     PROVE Sealed' /\ RevealBarrier'
  <2>1. UNCHANGED <<status, cycle, contents, pc>>
    BY <1>12 DEF ProposalStarts, ProposalValid, ProposalInvalid, ProposalFails,
       ProposalConflicts, Unfinished, row
  <2>2. \A e \in Designers : batch'[e] \in {"out", "kept"} => batch[e] \in {"out", "kept"}
    BY <1>t, <1>12 DEF ProposalStarts, ProposalValid, ProposalInvalid, ProposalFails,
       ProposalConflicts, Move, Parts, BatchTyped
  <2>3. RevealBarrier'
    BY <1>t, <2>1, KeepBarrier
  <2>4. Sealed'
    BY <1>t, <2>1, <2>2, KeepSealed DEF Grown, Beyond
  <2>5. QED
    BY <2>3, <2>4
<1>13. ASSUME NEW d \in Designers, KeepProposal(d) PROVE Sealed' /\ RevealBarrier'
  <2>1. status' = status /\ cycle' = cycle /\ pc = "collect"
    BY <1>13 DEF KeepProposal, row, At
  <2>2. PICK x \in Content : /\ contents' = Append(contents, x) /\ x.kind = "proposal"
                             /\ x.seat = d /\ x.cycle = cycle
    <3> DEFINE new == [kind |-> "proposal", seat |-> d, cycle |-> cycle,
                      round |-> round, ok |-> TRUE]
    <3>1. contents' = Append(contents, new)
      BY <1>13 DEF KeepProposal, AddContent
    <3>2. new \in Content
      BY <1>t, SeatsTyped DEF Parts, RowTyped, Content, Kinds
    <3>3. new.kind = "proposal" /\ new.seat = d /\ new.cycle = cycle
      OBVIOUS
    <3> HIDE DEF new
    <3>4. QED
      BY <3>1, <3>2, <3>3
  <2>3. RevealBarrier'
    BY <1>t, <2>2, KeepBarrier
  <2>4. Grown
    BY <2>2 DEF Grown
  <2>5. HasProposal(d)'
    <3>1. contents \in Seq(Content)
      BY <1>t DEF Parts, ContentsTyped
    <3>2. Len(contents) + 1 \in DOMAIN contents' /\ contents'[Len(contents) + 1] = x
      BY <2>2, <3>1, AppendFacts
    <3>3. QED
      BY <2>1, <2>2, <3>2 DEF HasProposal
  <2>6. ASSUME NEW e \in Designers, batch'[e] \in {"out", "kept"} PROVE HasProposal(e)'
    <3>1. CASE e = d
      BY <2>5, <3>1
    <3>2. CASE e # d
      <4>1. batch[e] \in {"out", "kept"}
        BY <1>t, <1>13, <2>6, <3>2 DEF KeepProposal, Move, Parts, BatchTyped
      <4>2. QED
        BY <1>t, <2>1, <2>4, <4>1, KeepHas DEF Sealed
    <3>3. QED
      BY <3>1, <3>2
  <2>7. Beyond' => AllProposed'
    BY <1>t, <2>1, <2>4, KeepProposed DEF Sealed, Beyond
  <2>8. pc' # "reveal"
    BY <1>t, <1>13, ThenTyped DEF KeepProposal, Places
  <2>9. Sealed'
    BY <2>6, <2>7, <2>8 DEF Sealed
  <2>10. QED
    BY <2>3, <2>9
<1>14. CASE Collected
  <2>1. UNCHANGED <<status, cycle, contents>> /\ pc' # "collect"
    BY <1>14, ErrorPlaces DEF Collected, db
  <2>2. pc' = "reveal" => \A d \in Designers : HasProposal(d)
    BY <1>t, <1>14, ErrorPlaces DEF Collected, At, Sealed
  <2>3. cycle = Round1
    BY <1>t, <1>14, StatusSets, MeetingAssumption DEF Collected, At, Placed, ByProtocol, Round1
  <2>4. pc' = "reveal" => AllProposed
    BY <2>2, <2>3 DEF AllProposed, HasProposal, Proposes
  <2>5. RevealBarrier' /\ (AllProposed => AllProposed')
    BY <1>t, <2>1, KeepBarrier, KeepProposed DEF Grown
  <2>6. Beyond' => Beyond
    BY <2>1 DEF Beyond
  <2>7. Sealed'
    BY <1>t, <2>1, <2>4, <2>5, <2>6 DEF Sealed
  <2>8. QED
    BY <2>5, <2>7
<1>15. CASE Reveal
  <2>1. pc' \notin {"collect", "reveal"} /\ pc = "reveal"
    BY <1>t, <1>15, ThenTyped DEF Reveal, At, Places
  <2>2. cycle' = cycle /\ contents' = contents
    BY <1>15 DEF Reveal, SetStatus
  <2>3. Sealed' /\ RevealBarrier'
    BY <1>k, <2>1, <2>2
  <2>4. QED
    BY <2>3
<1>16. CASE EnsureConflict
  <2>1. pc' \in {"round", "exit", "failing"}
    BY <1>t, <1>16, ThenTyped DEF EnsureConflict, Places
  <2>2. Sealed' /\ RevealBarrier'
    BY <1>k, <1>16, <2>1 DEF EnsureConflict, row, Beyond
  <2>3. QED
    BY <2>2
<1>17. CASE NextRound \/ CloseRound \/ Adopt \/ RoundsExhausted
  <2>1. Beyond
    BY <1>t, <1>17, StatusSets DEF NextRound, CloseRound, Adopt, RoundsExhausted, At, Placed, Beyond
  <2>2. pc' \notin {"collect", "reveal"}
    BY <1>t, <1>17, ThenTyped DEF NextRound, CloseRound, Adopt, RoundsExhausted, Places
  <2>3. cycle' = cycle /\ contents' = contents
    BY <1>17 DEF NextRound, CloseRound, Adopt, RoundsExhausted, SetStatus, row
  <2>4. Sealed' /\ RevealBarrier'
    BY <1>k, <2>1, <2>2, <2>3
  <2>5. QED
    BY <2>4
<1>18. CASE RunStarts \/ RunInvalid
  <2>1. pc \in Runners /\ pc' \in Runners \cup {"giveup", "exit", "failing"}
    BY <1>t, <1>18, ThenTyped, ErrorPlaces DEF RunStarts, RunInvalid, AtRun, Runners, Places
  <2>2. Sealed' /\ RevealBarrier'
    BY <1>k, <1>18, <2>1 DEF RunStarts, RunInvalid, row, Beyond, Runners
  <2>3. QED
    BY <2>2
<1>19. ASSUME NEW ok \in BOOLEAN, Position(ok) PROVE Sealed' /\ RevealBarrier'
  <2>1. UNCHANGED <<status, cycle>> /\ pc' \notin {"collect", "reveal"}
    BY <1>t, <1>19, ThenTyped DEF Position, row, Places
  <2>2. Beyond
    BY <1>t, <1>19, StatusSets DEF Position, At, Placed, Beyond
  <2>3. local.seat \in Seats
    BY <1>t, FieldSet, SeatsTyped
  <2>4. \E x \in Content : contents' = Append(contents, x) /\ x.cycle = cycle
    BY <1>t, <1>19, <2>3, AddedContent DEF Position, Kinds
  <2>5. AllProposed
    BY <1>t, <2>2 DEF Sealed
  <2>6. RevealBarrier'
    BY <1>t, <2>4, <2>5, KeepBarrier
  <2>7. Sealed'
    BY <1>t, <2>1, <2>2, <2>4, KeepSealed DEF Grown, Beyond
  <2>8. QED
    BY <2>6, <2>7
<1>20. ASSUME NEW ok \in BOOLEAN, Recorded \/ Verified(ok) PROVE Sealed' /\ RevealBarrier'
  <2>1. UNCHANGED <<status, cycle>> /\ pc' \notin {"collect", "reveal"}
    BY <1>t, <1>20, ThenTyped DEF Recorded, Verified, row, Places
  <2>2. \E x \in Content : contents' = Append(contents, x) /\ x.kind # "position"
    <3>1. PICK kind \in Kinds \ {"position"}, seat \in Seats, b \in BOOLEAN :
             AddContent(kind, seat, b)
      BY <1>20, SeatsTyped DEF Recorded, Verified, ResultKind, Kinds
    <3>2. QED
      BY <1>t, <3>1, AddedContent
  <2>3. RevealBarrier'
    BY <1>t, <2>2, KeepBarrier
  <2>4. Sealed'
    BY <1>t, <2>1, <2>2, KeepSealed DEF Grown, Beyond
  <2>5. QED
    BY <2>3, <2>4
<1>21. CASE Itemize
  <2>1. pc' \notin {"collect", "reveal"}
    BY <1>t, <1>21, ThenTyped DEF Itemize, Places
  <2>2. Beyond' => Beyond
    BY <1>t, <1>21, StatusSets, MeetingAssumption DEF Itemize, At, Placed, ByProtocol, Beyond, SetStatus
  <2>3. cycle' = cycle /\ contents' = contents
    BY <1>21 DEF Itemize, SetStatus
  <2>4. Sealed' /\ RevealBarrier'
    BY <1>k, <2>1, <2>2, <2>3
  <2>5. QED
    BY <2>4
<1>22. CASE Observe \/ BackToReview
  <2>1. pc' \notin {"collect", "reveal"}
    BY <1>t, <1>22, ThenTyped DEF Observe, BackToReview, Places
  <2>2. Beyond' => Beyond
    BY <1>t, <1>22, StatusSets, MeetingAssumption DEF Observe, BackToReview, At, Placed, ByProtocol, Beyond, SetStatus
  <2>3. cycle' = cycle /\ contents' = contents
    BY <1>22 DEF Observe, BackToReview, SetStatus
  <2>4. Sealed' /\ RevealBarrier'
    BY <1>k, <2>1, <2>2, <2>3
  <2>5. QED
    BY <2>4
<1>23. CASE Reconvene
  <2>1. pc' \notin {"collect", "reveal"} /\ contents' = contents
    BY <1>t, <1>23, ThenTyped DEF Reconvene, Places
  <2>2. ~Beyond'
    BY <1>23 DEF Reconvene, SetStatus, Beyond
  <2>3. Sealed' /\ RevealBarrier'
    BY <1>t, <2>1, <2>2, KeepSealed, KeepBarrier DEF Grown
  <2>4. QED
    BY <2>3
<1>24. ASSUME NEW kind \in {"recorder_answer", "meeting_result", "recorder_opening"},
          NEW next \in {"answered", "itemize", "reopen"}, Reviewed(kind, next)
     PROVE Sealed' /\ RevealBarrier'
  <2>1. UNCHANGED <<status, cycle>> /\ pc' \notin {"collect", "reveal"}
    BY <1>t, <1>24, ThenTyped DEF Reviewed, row, Places
  <2>2. \E x \in Content : contents' = Append(contents, x) /\ x.kind # "position"
    <3>1. kind \in Kinds \ {"position"} /\ Recorder \in Seats /\ AddContent(kind, Recorder, TRUE)
      BY <1>24, SeatsTyped DEF Reviewed, Kinds
    <3>2. QED
      BY <1>t, <3>1, AddedContent
  <2>3. RevealBarrier'
    BY <1>t, <2>2, KeepBarrier
  <2>4. Sealed'
    BY <1>t, <2>1, <2>2, KeepSealed DEF Grown, Beyond
  <2>5. QED
    BY <2>3, <2>4
<1>25. CASE UNCHANGED vars
  BY <1>t, <1>k, <1>25 DEF vars, db, Beyond
<1>26. QED
  BY <1>1, <1>2, <1>3, <1>4, <1>5, <1>6, <1>7, <1>8, <1>9, <1>10, <1>11,
     <1>12, <1>13, <1>14, <1>15, <1>16, <1>17, <1>18, <1>19, <1>20, <1>21,
     <1>22, <1>23, <1>24, <1>25
     DEF Next, Command, Work, Trouble

(* Sealed proposals, for every number of designers: no position is ever    *)
(* persisted before a proposal of every designer.                          *)
THEOREM BarrierCorrect == Spec => []RevealBarrier
<1>1. Barrier => RevealBarrier
  BY DEF Barrier
<1>2. QED
  BY InitBarrier, NextBarrier, <1>1, PTL DEF Spec

-----------------------------------------------------------------------------
(* Who owns the Meeting.                                                   *)

(* Places between two Runs, and on the way out of one; a goroutine of      *)
(* ensureProposals that is still going; the places at which no Provider    *)
(* run is open.                                                            *)
Between == {"idle", "failing", "exit"}
Live    == \E d \in Designers : batch[d] \in {"start", "restart", "run", "rerun", "ready"}
Settled == Places \ (Runners \cup Between \cup {"interrupt", "collect"})

Stranded == /\ caller = "none" /\ (pc = "idle" => ~queued)
            /\ status \notin HumanOwned \cup {"concluded"}

(* What the coordinator takes up is a Meeting of the worker; goroutines    *)
(* that outlive ensureProposals are left with a Meeting nobody will run    *)
(* again in this process.                                                  *)
Accepted ==
    /\ cancelled => pc \in Between
    /\ ~up => pc = "idle" /\ ~queued /\ caller = "none" /\ ~cancelled /\ ~Live
    /\ pc = "idle" /\ queued => status \in WorkerOwned \/ cancelled
    /\ caller = "enqueue" => \/ cancelled
                             \/ /\ status \in WorkerOwned /\ pc \in {"idle", "exit"}
                                /\ (pc = "idle" => ~queued)
    /\ Live /\ pc # "collect" /\ ~cancelled => pc \in Between /\ Stranded

(* Which Provider runs are open.                                           *)
Proposing == {<<d, "proposal">> :
                 d \in {e \in Designers : batch[e] \in {"run", "rerun", "ready", "failed"}}}
Runs ==
    /\ pc \in Settled => running = {}
    /\ pc \in Runners => running \subseteq IF local.busy THEN {TheRun} ELSE {}
    /\ pc = "collect" => running \subseteq Proposing

Ownership == Control /\ Accepted /\ Runs /\ OneOwner

LEMMA PlaceSets ==
    /\ Places = Settled \cup Runners \cup Between \cup {"interrupt", "collect"}
    /\ Settled = {"dispatch", "prepare", "batch", "reveal", "conflict", "round", "close",
                  "adopt", "itemize", "observe", "answered", "giveup", "reopen"}
    /\ Runners \subseteq Places /\ Between \subseteq Places
  BY DEF Places, Settled, Runners, Between

\* A commit, with what became of the context.
LEMMA ThenFacts ==
    ASSUME NEW next, Then(next)
    PROVE  \/ pc' = next /\ cancelled' = cancelled
           \/ pc' \in {"exit", "failing"} /\ cancelled' = TRUE
  BY ErrorPlaces DEF Then

\* While Service.Run is in a step, the Meeting is its own.
LEMMA Working ==
    ASSUME Ownership, pc \notin Between
    PROVE  /\ up /\ ~cancelled /\ caller = "none"
           /\ status \in WorkerOwned
           /\ pc # "collect" => ~Live
  BY DEF Ownership, Control, Parts, RowTyped, HostTyped, Accepted, OneOwner, Between

\* A step leaves Service.Run with a Meeting that is still the worker's.
LEMMA LeaveRun ==
    ASSUME Ownership, pc \notin Between,
           pc' \in {"exit", "failing"}, status' \in WorkerOwned, UNCHANGED <<up, queued, caller>>
    PROVE  Accepted' /\ Runs' /\ OneOwner'
<1>1. up' /\ caller' = "none"
  BY Working
<1>2. status' \notin HumanOwned \cup Final
  BY DEF WorkerOwned, HumanOwned, Final
<1>3. Accepted'
  BY <1>1, <1>2 DEF Accepted, Between, Stranded, Final
<1>4. Runs' /\ OneOwner'
  BY <1>2 DEF Runs, Settled, Runners, Between, OneOwner
<1>5. QED
  BY <1>3, <1>4

\* A step of Service.Run that leads to another one.
LEMMA NextStep ==
    ASSUME Ownership, pc \notin Between, UNCHANGED <<up, queued, caller>>, cancelled' = cancelled,
           status' \in WorkerOwned, pc' \notin Between, Runs', pc' # "collect" => ~Live'
    PROVE  Accepted' /\ Runs' /\ OneOwner'
<1>1. up' /\ caller' = "none" /\ ~cancelled'
  BY Working
<1>2. Accepted'
  BY <1>1 DEF Accepted, Between
<1>3. OneOwner'
  BY DEF OneOwner, WorkerOwned, HumanOwned, Final
<1>4. QED
  BY <1>2, <1>3

LEMMA Commits ==
    ASSUME Ownership, pc \notin Between, NEW next \in Places, Then(next),
           UNCHANGED <<up, queued, caller>>, status' \in WorkerOwned, next \notin {"idle"},
           next \in Settled => running' = {},
           pc' = next /\ next \notin Settled => Runs',
           next # "collect" => ~Live'
    PROVE  Accepted' /\ Runs' /\ OneOwner'
<1>1. CASE pc' \in {"exit", "failing"}
  BY <1>1, LeaveRun
<1>2. CASE pc' = next /\ cancelled' = cancelled /\ pc' \notin {"exit", "failing"}
  <2>1. pc' \notin Between
    BY <1>2 DEF Between
  <2>2. Runs'
    BY <1>2, PlaceSets DEF Runs, Runners
  <2>3. QED
    BY <1>2, <2>1, <2>2, NextStep
<1>3. QED
  BY <1>1, <1>2, ThenFacts

\* The last step hands the Meeting over.
LEMMA HandsOver ==
    ASSUME Ownership, pc \notin Between, Then("exit"), running' = {}, ~Live',
           UNCHANGED <<up, queued, caller>>, status' \in HumanOwned
    PROVE  Accepted' /\ Runs' /\ OneOwner'
<1>1. up' /\ caller' = "none" /\ ~cancelled
  BY Working
<1>2. pc' = "exit" \/ (pc' \in {"exit", "failing"} /\ cancelled')
  BY ThenFacts
<1>3. Accepted' /\ Runs'
  BY <1>1, <1>2 DEF Accepted, Runs, Between, Settled, Runners
<1>4. OneOwner'
  BY <1>2 DEF OneOwner
<1>5. QED
  BY <1>3, <1>4

\* Where no Provider run is open, none is after a step that opens none.
LEMMA Empty ==
    ASSUME Ownership, pc \in Settled PROVE running = {} /\ ~Live /\ pc \notin Between
<1>1. pc \notin Between /\ pc # "collect"
  BY PlaceSets DEF Between
<1>2. QED
  BY <1>1, Working DEF Ownership, Runs

LEMMA Ended ==
    ASSUME Ownership, pc \in Runners, local.busy, EndRun
    PROVE running' = {} /\ ~Live /\ pc \notin Between
<1>1. pc \notin Between /\ pc # "collect"
  BY DEF Runners, Between
<1>2. running \subseteq {TheRun}
  BY DEF Ownership, Runs
<1>3. QED
  BY <1>1, <1>2, Working DEF EndRun

LEMMA InitOwnership == Init => Ownership
<1> SUFFICES ASSUME Init PROVE Accepted /\ Runs /\ OneOwner
  BY InitControl DEF Ownership
<1>1. ~Live
  BY DEF Init, Live, Out
<1>2. Accepted
  BY <1>1 DEF Init, Accepted, Between, HumanOwned, WorkerOwned
<1>3. Runs /\ OneOwner
  BY DEF Init, Runs, OneOwner
<1>4. QED
  BY <1>2, <1>3

LEMMA NextOwnership == Ownership /\ [Next]_vars => Ownership'
<1> SUFFICES ASSUME Ownership, [Next]_vars PROVE Accepted' /\ Runs' /\ OneOwner'
  BY NextControl DEF Ownership
<1>c. Control /\ Control' /\ Accepted /\ Runs /\ OneOwner
  BY NextControl DEF Ownership
<1>t. Parts /\ Parts' /\ Placed
  BY <1>c DEF Control
\* Steps of a process that is not in Service.Run's steps, or goes down.
<1>1. CASE Start \/ Answer
  <2>1. /\ status \in HumanOwned /\ status' \in WorkerOwned /\ caller' = "enqueue" /\ up
        /\ UNCHANGED <<running, up, queued, cancelled, pc, batch, local>>
    BY <1>1 DEF Start, Answer, Commanded, SetStatus, HumanOwned, WorkerOwned
  <2>2. /\ pc \in {"idle", "exit"} \/ (cancelled /\ pc = "failing")
        /\ running = {}
    BY <1>c, <2>1 DEF OneOwner, HumanOwned
  <2>3. Live' <=> Live
    BY <2>1 DEF Live
  <2>4. Live => cancelled
    BY <1>c, <2>1, <2>2 DEF Accepted, Stranded
  <2>5. pc = "idle" => ~queued \/ cancelled
    BY <1>c, <2>1 DEF Accepted, HumanOwned, WorkerOwned
  <2>6. Accepted'
    BY <1>c, <2>1, <2>2, <2>3, <2>4, <2>5 DEF Accepted, Between
  <2>7. Runs' /\ OneOwner'
    BY <2>1, <2>2 DEF Runs, OneOwner, WorkerOwned, HumanOwned, Final, Settled, Runners, Between
  <2>8. QED
    BY <2>6, <2>7
<1>2. ASSUME NEW d \in {"selected", "rejected", "deferred"}, Continue(d)
     PROVE Accepted' /\ Runs' /\ OneOwner'
  <2>1. /\ status \in HumanOwned /\ status' \in WorkerOwned /\ caller' = "enqueue" /\ up
        /\ UNCHANGED <<running, up, queued, cancelled, pc, batch, local>>
    BY <1>2 DEF Continue, Commanded, SetStatus, HumanOwned, WorkerOwned
  <2>2. /\ pc \in {"idle", "exit"} \/ (cancelled /\ pc = "failing")
        /\ running = {}
    BY <1>c, <2>1 DEF OneOwner, HumanOwned
  <2>3. Live' <=> Live
    BY <2>1 DEF Live
  <2>4. Live => cancelled
    BY <1>c, <2>1, <2>2 DEF Accepted, Stranded
  <2>5. pc = "idle" => ~queued \/ cancelled
    BY <1>c, <2>1 DEF Accepted, HumanOwned, WorkerOwned
  <2>6. Accepted'
    BY <1>c, <2>1, <2>2, <2>3, <2>4, <2>5 DEF Accepted, Between
  <2>7. Runs' /\ OneOwner'
    BY <2>1, <2>2 DEF Runs, OneOwner, WorkerOwned, HumanOwned, Final, Settled, Runners, Between
  <2>8. QED
    BY <2>6, <2>7
<1>3. CASE Approve \/ \E d \in {"selected", "rejected", "deferred"}, i \in DOMAIN items : Disposition(i, d)
  <2>1. /\ status \in HumanOwned /\ status' \in {status, "concluded"} /\ up /\ caller = "none"
        /\ UNCHANGED <<running, up, queued, caller, cancelled, pc, batch, local>>
    BY <1>3 DEF Approve, Disposition, SetStatus, HumanOwned, host, row
  <2>2. /\ pc \in {"idle", "exit"} \/ (cancelled /\ pc = "failing")
        /\ running = {}
    BY <1>c, <2>1 DEF OneOwner, HumanOwned
  <2>3. Live' <=> Live
    BY <2>1 DEF Live
  <2>4. Live => cancelled
    BY <1>c, <2>1, <2>2 DEF Accepted, Stranded
  <2>5. pc = "idle" => ~queued \/ cancelled
    BY <1>c, <2>1 DEF Accepted, HumanOwned, WorkerOwned
  <2>6. Accepted'
    BY <1>c, <2>1, <2>2, <2>3, <2>4, <2>5 DEF Accepted, Between
  <2>7. Runs' /\ OneOwner'
    BY <2>1, <2>2 DEF Runs, OneOwner, Settled, Runners, Between
  <2>8. QED
    BY <2>6, <2>7
<1>4. CASE Enqueue \/ Disconnect
  <2>1. /\ caller = "enqueue" /\ caller' = "none" /\ up
        /\ UNCHANGED <<status, running, up, cancelled, pc, batch, local>>
        /\ (queued' = queued \/ queued' = TRUE)
    BY <1>4 DEF Enqueue, Disconnect, db
  <2>2. Live' <=> Live
    BY <2>1 DEF Live
  <2>3. cancelled \/ (status \in WorkerOwned /\ pc \in {"idle", "exit"} /\ ~Live)
    BY <1>c, <2>1 DEF Accepted, Stranded
  <2>4. Accepted'
    BY <1>c, <1>4, <2>1, <2>2, <2>3 DEF Accepted, Disconnect, Between
  <2>5. Runs' /\ OneOwner'
    BY <1>c, <2>1 DEF Runs, OneOwner, TheRun, TheSeat, ThePhase, Proposing
  <2>6. QED
    BY <2>4, <2>5
<1>5. CASE Crash \/ Exit
  <2>1. ~Live'
    BY <1>5 DEF Crash, Exit, Down, Live, Out
  <2>2. Accepted'
    BY <1>5, <2>1 DEF Crash, Exit, Down, Accepted, Between
  <2>3. Runs' /\ OneOwner'
    BY <1>c, <1>5 DEF Crash, Exit, Down, db, Runs, OneOwner, Settled, Runners, Between
  <2>4. QED
    BY <2>2, <2>3
<1>6. CASE Boot
  <2>1. ~up /\ UNCHANGED <<status, running, caller, cancelled, pc, batch, local>> /\ up'
        /\ (queued' => status \in WorkerOwned)
    BY <1>6 DEF Boot, db
  <2>2. Live' <=> Live
    BY <2>1 DEF Live
  <2>3. Accepted'
    BY <1>c, <2>1, <2>2 DEF Accepted, Between
  <2>4. Runs' /\ OneOwner'
    BY <1>c, <2>1 DEF Runs, OneOwner, Accepted, Settled, Runners, Between
  <2>5. QED
    BY <2>3, <2>4
<1>7. CASE Cancel
  <2>1. /\ up /\ ~cancelled /\ cancelled' = TRUE
        /\ UNCHANGED <<status, running, up, queued, caller, batch, local>>
        /\ IF pc \in Between THEN pc' = pc ELSE pc' \in {"exit", "failing"}
    BY <1>7, ErrorPlaces DEF Cancel, Entering, Between, db, host
  <2>2. Accepted'
    BY <1>t, <2>1 DEF Accepted, Between, Parts, HostTyped
  <2>3. Runs' /\ OneOwner'
    BY <1>c, <2>1 DEF Runs, OneOwner, Settled, Runners, Between
  <2>4. QED
    BY <2>2, <2>3
<1>8. CASE Dequeue
  <2>1. /\ up /\ ~cancelled /\ pc = "idle" /\ queued /\ pc' = "interrupt"
        /\ UNCHANGED <<status, running, up, queued, caller, cancelled, batch, local>>
    BY <1>8 DEF Dequeue, At, db, host
  <2>2. status \in WorkerOwned /\ caller = "none" /\ ~Live
    BY <1>c, <1>t, <2>1 DEF Accepted, Stranded, Parts, HostTyped
  <2>3. Live' <=> Live
    BY <2>1 DEF Live
  <2>4. Accepted'
    BY <2>1, <2>2, <2>3 DEF Accepted
  <2>5. Runs' /\ OneOwner'
    BY <2>1, <2>2 DEF Runs, OneOwner, Settled, Runners, Between, WorkerOwned, HumanOwned, Final
  <2>6. QED
    BY <2>4, <2>5
<1>9. CASE Return
  <2>1. /\ up /\ pc = "exit" /\ pc' = "idle" /\ queued' = FALSE
        /\ UNCHANGED <<status, running, up, caller, cancelled, batch>>
    BY <1>9 DEF Return, db
  <2>2. Live' <=> Live
    BY <2>1 DEF Live
  <2>3. Accepted'
    BY <1>c, <2>1, <2>2 DEF Accepted, Between, Stranded
  <2>4. Runs' /\ OneOwner'
    BY <1>c, <2>1 DEF Runs, OneOwner, Settled, Runners, Between
  <2>5. QED
    BY <2>3, <2>4
<1>10. CASE Fail
  <2>1. /\ up /\ pc = "failing" /\ pc' = "exit" /\ status' = "failed"
        /\ UNCHANGED <<running, up, queued, caller, cancelled, batch, local>>
    BY <1>10 DEF Fail, SetStatus, host
  <2>2. Live' <=> Live
    BY <2>1 DEF Live
  <2>3. Accepted'
    BY <1>c, <2>1, <2>2 DEF Accepted, Between, Stranded, HumanOwned
  <2>4. Runs' /\ OneOwner'
    BY <2>1 DEF Runs, OneOwner, Settled, Runners, Between
  <2>5. QED
    BY <2>3, <2>4
<1>11. CASE Conflict
  <2>1. /\ up /\ pc \notin {"idle", "exit"} /\ pc' \in {"exit", "failing"}
        /\ (pc = "failing" => pc' = "exit")
        /\ UNCHANGED <<status, running, up, queued, caller, cancelled, batch, local>>
    BY <1>11, ErrorPlaces DEF Conflict, Appends, OnError, db, host
  <2>2. CASE pc \notin Between
    <3>1. status' \in WorkerOwned
      BY <2>1, <2>2, Working
    <3>2. QED
      BY <2>1, <2>2, <3>1, LeaveRun
  <2>3. CASE pc = "failing"
    <3>1. Live' <=> Live
      BY <2>1 DEF Live
    <3>2. Accepted'
      BY <1>c, <2>1, <2>3, <3>1 DEF Accepted, Between, Stranded
    <3>3. Runs' /\ OneOwner'
      BY <1>c, <2>1, <2>3 DEF Runs, OneOwner, Settled, Runners, Between
    <3>4. QED
      BY <3>2, <3>3
  <2>4. QED
    BY <2>1, <2>2, <2>3 DEF Between
\* The steps of Service.Run.
<1>12. CASE Interrupt
  <2>1. /\ pc = "interrupt" /\ UNCHANGED <<status, up, queued, caller, batch, local>>
        /\ \/ running = {} /\ running' = running /\ pc' = "dispatch" /\ cancelled' = cancelled
           \/ Then("interrupt")
    BY <1>12 DEF Interrupt, At, row, host
  <2>2. pc \notin Between /\ status' \in WorkerOwned /\ ~Live /\ (Live' <=> Live)
    BY <2>1, Working DEF Between, Live
  <2>3. CASE running = {} /\ running' = running /\ pc' = "dispatch" /\ cancelled' = cancelled
    <3>1. Runs' /\ pc' \notin Between
      BY <2>3 DEF Runs, Between, Runners
    <3>2. QED
      BY <2>1, <2>2, <2>3, <3>1, NextStep
  <2>4. CASE Then("interrupt")
    <3>1. pc' = "interrupt" => Runs'
      BY DEF Runs, Settled, Runners
    <3>2. QED
      BY <2>1, <2>2, <2>4, <3>1, Commits, PlaceSets DEF Settled
  <2>5. QED
    BY <2>1, <2>3, <2>4
<1>13. CASE Dispatch
  <2>1. /\ pc = "dispatch" /\ UNCHANGED <<running, up, queued, caller, batch, local>>
        /\ \/ Then("prepare") /\ status' = "sealed_proposals"
           \/ /\ pc' \in {"review", "prepare", "conflict", "record", "verify", "exit"}
              /\ cancelled' = cancelled /\ status' = status
    BY <1>13 DEF Dispatch, At, SetStatus, row, host
  <2>2. pc \in Settled /\ pc \notin Between
    BY <2>1, PlaceSets DEF Between
  <2>3. running' = {} /\ ~Live /\ (Live' <=> Live) /\ status \in WorkerOwned
    BY <2>1, <2>2, Empty, Working DEF Live
  <2>4. status' \in WorkerOwned
    BY <2>1, <2>3 DEF WorkerOwned
  <2>5. CASE Then("prepare")
    BY <2>1, <2>2, <2>3, <2>4, <2>5, Commits, PlaceSets
  <2>6. CASE pc' = "exit"
    BY <2>1, <2>2, <2>4, <2>6, LeaveRun
  <2>7. CASE /\ pc' \in {"review", "prepare", "conflict", "record", "verify"}
             /\ cancelled' = cancelled
    <3>1. Runs' /\ pc' \notin Between
      BY <2>3, <2>7 DEF Runs, Between
    <3>2. QED
      BY <2>1, <2>2, <2>3, <2>4, <2>7, <3>1, NextStep
  <2>8. QED
    BY <2>1, <2>5, <2>6, <2>7
<1>14. CASE Prepare
  <2>1. /\ pc = "prepare" /\ UNCHANGED <<running, up, queued, caller, batch, local>>
        /\ \/ Then("batch") /\ status' = "sealed_proposals"
           \/ pc' = "batch" /\ cancelled' = cancelled /\ status' = status
    BY <1>14 DEF Prepare, At, SetStatus, row, host
  <2>2. pc \in Settled /\ pc \notin Between
    BY <2>1, PlaceSets DEF Between
  <2>3. running' = {} /\ ~Live /\ (Live' <=> Live) /\ status \in WorkerOwned
    BY <2>1, <2>2, Empty, Working DEF Live
  <2>4. status' \in WorkerOwned
    BY <2>1, <2>3 DEF WorkerOwned
  <2>5. CASE Then("batch")
    BY <2>1, <2>2, <2>3, <2>4, <2>5, Commits, PlaceSets
  <2>6. CASE pc' = "batch" /\ cancelled' = cancelled
    <3>1. Runs' /\ pc' \notin Between
      BY <2>3, <2>6 DEF Runs, Between
    <3>2. QED
      BY <2>1, <2>2, <2>3, <2>4, <2>6, <3>1, NextStep
  <2>7. QED
    BY <2>1, <2>5, <2>6
<1>15. CASE PrepareFails \/ SourceChanged \/ RunFails
  <2>1. /\ pc \notin Between /\ pc' \in {"exit", "failing"}
        /\ UNCHANGED <<status, up, queued, caller>>
    BY <1>15, ErrorPlaces
       DEF PrepareFails, SourceChanged, RunFails, At, AtRun, Runners, Between, db, row, host
  <2>2. status' \in WorkerOwned
    BY <2>1, Working
  <2>3. QED
    BY <2>1, <2>2, LeaveRun
<1>16. CASE OpenBatch
  <2>1. /\ pc = "batch" /\ pc' = "collect"
        /\ UNCHANGED <<status, running, up, queued, caller, cancelled>>
    BY <1>16 DEF OpenBatch, At, db, host
  <2>2. pc \in Settled /\ pc \notin Between
    BY <2>1, PlaceSets DEF Between
  <2>3. running' = {} /\ status' \in WorkerOwned
    BY <2>1, <2>2, Empty, Working
  <2>4. Runs' /\ pc' \notin Between
    BY <2>1, <2>3 DEF Runs, Settled, Runners, Between
  <2>5. QED
    BY <2>1, <2>2, <2>3, <2>4, NextStep
<1>17. ASSUME NEW d \in Designers,
          ProposalStarts(d) \/ ProposalValid(d) \/ ProposalInvalid(d)
          \/ ProposalFails(d) \/ ProposalConflicts(d)
     PROVE Accepted' /\ Runs' /\ OneOwner'
  <2>1. /\ up /\ ~cancelled /\ batch[d] \in {"start", "restart", "run", "rerun"}
        /\ UNCHANGED <<status, up, queued, caller, cancelled, pc, local>>
    BY <1>17 DEF ProposalStarts, ProposalValid, ProposalInvalid, ProposalFails,
       ProposalConflicts, Designing, Unfinished, row, host
  <2>2. Live
    BY <2>1 DEF Live
  <2>3. pc = "collect" \/ (pc \in Between /\ Stranded)
    BY <1>c, <2>1, <2>2 DEF Accepted
  <2>4. Accepted'
    BY <1>c, <2>1, <2>2, <2>3 DEF Accepted, Stranded, Between
  <2>5. OneOwner'
    BY <1>c, <2>1, <2>3 DEF OneOwner, Stranded, Between, HumanOwned, Final, WorkerOwned
  <2>6. CASE pc \in Between
    BY <2>1, <2>4, <2>5, <2>6 DEF Runs, Settled, Runners, Between
  <2>7. CASE pc = "collect"
    <3> DEFINE Opens == {"run", "rerun", "ready", "failed"}
    <3>1. running \subseteq Proposing
      BY <1>c, <2>7 DEF Runs
    <3>2. batch \in [Designers -> {"out", "start", "run", "restart", "rerun", "ready",
                                   "kept", "failed"}]
      BY <1>t DEF Parts, BatchTyped
    <3>3. \A e \in Designers : e # d => batch'[e] = batch[e]
      BY <1>17, <3>2 DEF ProposalStarts, ProposalValid, ProposalInvalid, ProposalFails,
         ProposalConflicts, Move
    <3>4. \/ batch'[d] \in Opens /\ running' \subseteq running \cup {<<d, "proposal">>}
          \/ running' = running \ {<<d, "proposal">>}
      BY <1>17, <3>2 DEF ProposalStarts, ProposalValid, ProposalInvalid, ProposalFails,
         ProposalConflicts, Move
    <3>5. running' \subseteq Proposing'
      <4>1. ASSUME NEW r \in running' PROVE r \in Proposing'
        <5>1. CASE r = <<d, "proposal">>
          BY <3>4, <5>1, <4>1 DEF Proposing
        <5>2. CASE r # <<d, "proposal">>
          <6>1. r \in running
            BY <3>4, <4>1, <5>2
          <6>2. PICK e \in Designers : batch[e] \in Opens /\ r = <<e, "proposal">>
            BY <3>1, <6>1 DEF Proposing
          <6>3. e # d /\ batch'[e] = batch[e]
            BY <3>3, <5>2, <6>2
          <6>4. QED
            BY <6>2, <6>3 DEF Proposing
        <5>3. QED
          BY <5>1, <5>2
      <4>2. QED
        BY <4>1
    <3>6. QED
      BY <2>1, <2>4, <2>5, <2>7, <3>5 DEF Runs, Settled, Runners
  <2>8. QED
    BY <2>3, <2>4, <2>5, <2>6, <2>7
<1>18. ASSUME NEW d \in Designers, KeepProposal(d) PROVE Accepted' /\ Runs' /\ OneOwner'
  <2>1. /\ pc = "collect" /\ Then("collect") /\ running' = running \ {<<d, "proposal">>}
        /\ UNCHANGED <<status, up, queued, caller>>
    BY <1>18 DEF KeepProposal, At, row, host
  <2>2. pc \notin Between /\ status' \in WorkerOwned
    BY <2>1, Working DEF Between
  <2>3. \A e \in Designers : e # d => batch'[e] = batch[e]
    BY <1>18, <1>t DEF KeepProposal, Move, Parts, BatchTyped
  <2>4. running' \subseteq Proposing'
    BY <1>c, <2>1, <2>3 DEF Runs, Proposing
  <2>5. pc' = "collect" => Runs'
    BY <2>4 DEF Runs, Settled, Runners
  <2>6. QED
    BY <2>1, <2>2, <2>5, Commits, PlaceSets DEF Settled
<1>19. CASE Collected
  <2>1. /\ pc = "collect" /\ UNCHANGED <<status, running, up, queued, caller, cancelled, batch>>
        /\ \/ pc' \in {"exit", "failing"}
           \/ pc' = "reveal" /\ \A d \in Designers : batch[d] \in {"out", "kept"}
    BY <1>19, ErrorPlaces DEF Collected, At, db, host
  <2>2. pc \notin Between /\ status' \in WorkerOwned
    BY <2>1, Working DEF Between
  <2>3. CASE pc' \in {"exit", "failing"}
    BY <2>1, <2>2, <2>3, LeaveRun
  <2>4. CASE pc' = "reveal" /\ \A d \in Designers : batch[d] \in {"out", "kept"}
    <3>1. running' = {} /\ ~Live'
      BY <1>c, <2>1, <2>4 DEF Runs, Proposing, Live
    <3>2. Runs' /\ pc' \notin Between
      BY <2>4, <3>1 DEF Runs, Between
    <3>3. QED
      BY <2>1, <2>2, <3>1, <3>2, NextStep
  <2>5. QED
    BY <2>1, <2>3, <2>4
<1>20. CASE Reveal \/ NextRound \/ CloseRound \/ Adopt
  <2>1. /\ pc \in {"reveal", "round", "close", "adopt"}
        /\ UNCHANGED <<running, up, queued, caller, batch>>
        /\ status' \in {status, "recording", "revealed", "deliberating"}
        /\ \E next \in {"record", "conflict", "close", "seat", "adopt", "round"} : Then(next)
    BY <1>20 DEF Reveal, NextRound, CloseRound, Adopt, At, SetStatus, row, host
  <2>2. pc \in Settled
    BY <2>1, PlaceSets
  <2>3. running' = {} /\ ~Live' /\ pc \notin Between /\ status' \in WorkerOwned
    BY <2>1, <2>2, Empty, Working DEF Live, WorkerOwned
  <2>4. PICK next \in {"record", "conflict", "close", "seat", "adopt", "round"} : Then(next)
    BY <2>1
  <2>5. Runs'
    BY <2>3, <2>4, ThenFacts DEF Runs
  <2>6. next \in Places /\ next # "idle"
    BY <2>4 DEF Places
  <2>7. QED
    BY <2>1, <2>3, <2>4, <2>5, <2>6, Commits
<1>21. CASE EnsureConflict
  <2>1. /\ pc = "conflict" /\ UNCHANGED <<status, running, up, queued, caller, batch>>
        /\ \/ pc' = "round" /\ cancelled' = cancelled
           \/ Then("round")
    BY <1>21 DEF EnsureConflict, At, row, host
  <2>2. pc \in Settled
    BY <2>1, PlaceSets
  <2>3. running' = {} /\ ~Live' /\ pc \notin Between /\ status' \in WorkerOwned
    BY <2>1, <2>2, Empty, Working DEF Live
  <2>4. CASE Then("round")
    BY <2>1, <2>3, <2>4, Commits, PlaceSets
  <2>5. CASE pc' = "round" /\ cancelled' = cancelled
    <3>1. Runs' /\ pc' \notin Between
      BY <2>3, <2>5 DEF Runs, Between
    <3>2. QED
      BY <2>1, <2>3, <2>5, <3>1, NextStep
  <2>6. QED
    BY <2>1, <2>4, <2>5
<1>22. CASE RoundsExhausted \/ Itemize \/ Observe \/ BackToReview \/ Reconvene
  <2>1. /\ pc \in {"round", "itemize", "observe", "answered", "giveup", "reopen"}
        /\ UNCHANGED <<running, up, queued, caller, batch>>
        /\ \/ Then("exit") /\ status' \in HumanOwned
           \/ Then("exit") /\ status' = "reconvening"
           \/ Then("record") /\ status' = "recording"
           \/ Then("verify") /\ status' = "verifying"
    BY <1>22 DEF RoundsExhausted, Itemize, Observe, BackToReview, Reconvene, At, SetStatus,
       HumanOwned, host
  <2>2. pc \in Settled
    BY <2>1, PlaceSets
  <2>3. running' = {} /\ ~Live' /\ pc \notin Between
    BY <2>1, <2>2, Empty DEF Live
  <2>4. CASE Then("exit") /\ status' \in HumanOwned
    BY <2>1, <2>3, <2>4, HandsOver
  <2>5. CASE Then("exit") /\ status' = "reconvening"
    <3>1. pc' \in {"exit", "failing"} /\ status' \in WorkerOwned
      BY <2>5, ThenFacts DEF WorkerOwned
    <3>2. QED
      BY <2>1, <2>3, <3>1, LeaveRun
  <2>6. ASSUME NEW next \in {"record", "verify"}, Then(next), status' \in WorkerOwned
        PROVE  Accepted' /\ Runs' /\ OneOwner'
    <3>1. Runs'
      BY <2>3, <2>6, ThenFacts DEF Runs
    <3>2. next \in Places /\ next # "idle"
      BY <2>6 DEF Places
    <3>3. QED
      BY <2>1, <2>3, <2>6, <3>1, <3>2, Commits
  <2>7. QED
    BY <2>1, <2>4, <2>5, <2>6 DEF WorkerOwned
<1>23. CASE RunStarts
  <2>1. /\ pc \in Runners /\ ~local.busy /\ running' = running \cup {TheRun} /\ Then(pc)
        /\ local' = [local EXCEPT !.busy = TRUE]
        /\ UNCHANGED <<status, up, queued, caller, batch>>
    BY <1>23 DEF RunStarts, AtRun, row, host
  <2>2. pc \notin Between /\ status' \in WorkerOwned /\ ~Live' /\ pc \in Places /\ pc # "idle"
    BY <2>1, Working, PlaceSets DEF Between, Runners, Live
  <2>3. local'.busy /\ local'.seat = local.seat
    BY <1>t, <2>1 DEF Parts, LocalTyped, Locals
  <2>4. pc' = pc => TheRun' = TheRun
    BY <2>1, <2>3 DEF TheRun, TheSeat, ThePhase, Runners
  <2>5. running' \subseteq {TheRun}
    BY <1>c, <2>1 DEF Runs
  <2>6. pc' = pc => Runs'
    BY <2>1, <2>3, <2>4, <2>5 DEF Runs, Settled, Runners
  <2>7. pc \notin Settled
    BY <2>1 DEF Settled
  <2>8. QED
    BY <2>1, <2>2, <2>6, <2>7, Commits
<1>24. CASE RunInvalid
  <2>1. /\ pc \in Runners /\ local.busy /\ EndRun
        /\ UNCHANGED <<status, up, queued, caller, batch>>
        /\ \E next \in {pc, "giveup", "exit", "failing"} : Then(next)
    BY <1>24, ErrorPlaces DEF RunInvalid, AtRun, row, host
  <2>2. running' = {} /\ ~Live' /\ pc \notin Between /\ status' \in WorkerOwned
    BY <2>1, Ended, Working DEF Live
  <2>3. PICK next \in {pc, "giveup", "exit", "failing"} : Then(next)
    BY <2>1
  <2>4. Runs'
    BY <2>2, <2>3 DEF Runs
  <2>5. next \in Places /\ next # "idle"
    BY <2>1, <2>3 DEF Places, Runners
  <2>6. QED
    BY <2>1, <2>2, <2>3, <2>4, <2>5, Commits
<1>25. ASSUME NEW ok \in BOOLEAN,
          \/ Position(ok) \/ Verified(ok) \/ Recorded
          \/ Reviewed("recorder_answer", "answered")
          \/ Reviewed("meeting_result", "itemize")
          \/ Reviewed("recorder_opening", "reopen")
     PROVE Accepted' /\ Runs' /\ OneOwner'
  <2>1. /\ pc \in Runners /\ local.busy /\ EndRun
        /\ UNCHANGED <<status, up, queued, caller, batch>>
        /\ \E next \in {"seat", "close", "observe", "itemize", "answered", "reopen"} : Then(next)
    BY <1>25 DEF Position, Verified, Recorded, Reviewed, At, Runners, row, host
  <2>2. running' = {} /\ ~Live' /\ pc \notin Between /\ status' \in WorkerOwned
    BY <2>1, Ended, Working DEF Live
  <2>3. PICK next \in {"seat", "close", "observe", "itemize", "answered", "reopen"} : Then(next)
    BY <2>1
  <2>4. Runs'
    BY <2>2, <2>3 DEF Runs
  <2>5. next \in Places /\ next # "idle"
    BY <2>3 DEF Places
  <2>6. QED
    BY <2>1, <2>2, <2>3, <2>4, <2>5, Commits
<1>26. CASE UNCHANGED vars
  <2>1. UNCHANGED <<status, running, up, queued, caller, cancelled, pc, batch, local>>
    BY <1>26 DEF vars, db, host
  <2>2. Accepted'
    BY <1>c, <2>1 DEF Accepted, Live, Stranded
  <2>3. Runs' /\ OneOwner'
    BY <1>c, <2>1 DEF Runs, OneOwner, TheRun, TheSeat, ThePhase, Proposing
  <2>4. QED
    BY <2>2, <2>3
<1>27. QED
  BY <1>1, <1>2, <1>3, <1>4, <1>5, <1>6, <1>7, <1>8, <1>9, <1>10, <1>11,
     <1>12, <1>13, <1>14, <1>15, <1>16, <1>17, <1>18, <1>19, <1>20, <1>21,
     <1>22, <1>23, <1>24, <1>25, <1>26
     DEF Next, Command, Work, Trouble

(* While the Human owns a Meeting the daemon leaves it alone: a command    *)
(* never races with Service.Run, and no Provider run is open.              *)
THEOREM OwnerCorrect == Spec => []OneOwner
<1>1. Ownership => OneOwner
  BY DEF Ownership
<1>2. QED
  BY InitOwnership, NextOwnership, <1>1, PTL DEF Spec

-----------------------------------------------------------------------------
(* Most steps leave the record of the discussion alone.                    *)
Deciding == {"round", "seat", "close", "adopt", "observe"}
Busy == {"start", "restart", "run", "rerun", "ready"}
Outside == {"idle", "interrupt", "dispatch", "failing", "exit"}

SameTurn == /\ pc' = pc
            /\ local'.conflict = local.conflict /\ local'.round = local.round
            /\ local'.seat = local.seat /\ local'.agree = local.agree
            /\ \A d \in Designers : batch'[d] \in Busy => batch[d] \in Busy

Quiet == /\ UNCHANGED <<row, result, contents, items, conflicts>>
         /\ pc' \notin Deciding \cup {"collect"} \/ SameTurn

LEMMA SameLocal == UNCHANGED <<pc, local, batch>> => SameTurn
  BY DEF SameTurn

LEMMA QuietHost ==
    ASSUME \/ Enqueue \/ Disconnect \/ Boot \/ Crash \/ Exit \/ Cancel \/ Conflict
           \/ PrepareFails \/ SourceChanged \/ RunFails \/ Dequeue \/ Return
           \/ UNCHANGED vars
    PROVE  Quiet
<1>1. CASE Enqueue \/ Disconnect \/ Boot \/ UNCHANGED vars
  BY <1>1, SameLocal DEF Enqueue, Disconnect, Boot, vars, db, row, Quiet
<1>2. CASE Crash \/ Exit \/ Cancel \/ Conflict \/ PrepareFails \/ SourceChanged \/ RunFails
  <2>1. pc' \in {"idle", "failing", "exit"}
    BY <1>2, ErrorPlaces DEF Crash, Exit, Down, Cancel, Conflict, PrepareFails, SourceChanged, RunFails
  <2>2. UNCHANGED <<row, result, contents, items, conflicts>>
    BY <1>2 DEF Crash, Exit, Down, Cancel, Conflict, PrepareFails, SourceChanged, RunFails, db, row
  <2>3. QED
    BY <2>1, <2>2 DEF Quiet, Deciding
<1>3. CASE Dequeue \/ Return
  BY <1>3 DEF Dequeue, Return, db, row, Quiet, Deciding
<1>4. QED
  BY <1>1, <1>2, <1>3

LEMMA QuietRun ==
    ASSUME Parts, Interrupt \/ Collected \/ RunStarts \/ RunInvalid
    PROVE  Quiet
<1>1. CASE Interrupt \/ Collected
  <2>1. pc' \in Outside \cup {"reveal"}
    BY <1>1, ErrorPlaces, ThenFacts DEF Interrupt, Collected, Outside
  <2>2. QED
    BY <1>1, <2>1 DEF Interrupt, Collected, Quiet, Outside, Deciding, db, row
<1>2. CASE RunStarts \/ RunInvalid
  <2>1. UNCHANGED <<row, result, contents, items, conflicts, batch>>
    BY <1>2 DEF RunStarts, RunInvalid, row
  <2>2. local \in Locals
    BY DEF Parts, LocalTyped
  <2>3. /\ local'.conflict = local.conflict /\ local'.round = local.round
        /\ local'.seat = local.seat /\ local'.agree = local.agree
    BY <1>2, <2>2 DEF RunStarts, RunInvalid, Idle, Locals
  <2>4. pc' = pc \/ pc' \in {"giveup", "exit", "failing"}
    BY <1>2, ErrorPlaces, ThenFacts DEF RunStarts, RunInvalid
  <2>5. QED
    BY <2>1, <2>3, <2>4 DEF Quiet, SameTurn, Deciding
<1>3. QED
  BY <1>1, <1>2

LEMMA QuietDesigner ==
    ASSUME Parts, NEW d \in Designers,
           \/ ProposalStarts(d) \/ ProposalValid(d) \/ ProposalInvalid(d)
           \/ ProposalFails(d) \/ ProposalConflicts(d)
    PROVE  Quiet
<1>1. UNCHANGED <<row, result, contents, items, conflicts, pc, local>>
  BY DEF ProposalStarts, ProposalValid, ProposalInvalid, ProposalFails, ProposalConflicts, Unfinished
<1>2. batch[d] \in Busy /\ \E to : Move(d, to)
  BY DEF ProposalStarts, ProposalValid, ProposalInvalid, ProposalFails, ProposalConflicts,
     Designing, Busy
<1>3. \A e \in Designers : e # d => batch'[e] = batch[e]
  BY <1>2 DEF Parts, BatchTyped, Move
<1>4. QED
  BY <1>1, <1>2, <1>3 DEF Quiet, SameTurn

\* The commands find Service.Run outside its steps and leave it there.
Commands == \/ Start \/ Answer \/ Approve
            \/ \E d \in {"selected", "rejected", "deferred"} :
                  Continue(d) \/ \E i \in DOMAIN items : Disposition(i, d)

\* The steps that add a content of the Recorder or the Verifier.
Writes == \/ Recorded \/ (\E ok \in BOOLEAN : Verified(ok))
          \/ Reviewed("recorder_answer", "answered")
          \/ Reviewed("meeting_result", "itemize")
          \/ Reviewed("recorder_opening", "reopen")

\* The steps that change the meetings row, outside a round.
Turns == \/ Dispatch \/ Prepare \/ Reveal \/ RoundsExhausted \/ Itemize \/ Observe
         \/ BackToReview \/ Reconvene \/ Fail

LEMMA Steps ==
    ASSUME Control, [Next]_vars
    PROVE  \/ Quiet \/ Commands \/ Writes \/ Turns
           \/ OpenBatch \/ (\E d \in Designers : KeepProposal(d))
           \/ EnsureConflict \/ NextRound \/ CloseRound \/ Adopt
           \/ \E ok \in BOOLEAN : Position(ok)
<1>1. Parts
  BY DEF Control
<1>2. CASE UNCHANGED vars
  BY <1>2, QuietHost
<1>3. CASE Next
  BY <1>1, <1>3, QuietHost, QuietRun, QuietDesigner DEF Next, Command, Work, Trouble, Commands, Writes, Turns
<1>4. QED
  BY <1>2, <1>3

LEMMA CommandsFree ==
    ASSUME Control, Commands
    PROVE  /\ UNCHANGED <<pc, batch, local, result, conflicts>> /\ pc \in Outside
           /\ status \in HumanOwned
           /\ \/ status \in {"draft", "awaiting_user_review", "awaiting_human"}
                 /\ contents' = contents /\ cycle' = cycle
              \/ Answer
<1>1. /\ UNCHANGED <<pc, batch, local, result, conflicts>> /\ status \in HumanOwned
      /\ \/ status \in {"draft", "awaiting_user_review", "awaiting_human"}
            /\ contents' = contents /\ cycle' = cycle
         \/ Answer
  BY DEF Commands, Start, Answer, Approve, Continue, Disposition, Commanded, SetStatus, HumanOwned, row
<1>2. QED
  BY <1>1, Free DEF Control, Outside

LEMMA WritesFacts ==
    ASSUME Control, Writes
    PROVE  /\ UNCHANGED <<row, result, items, conflicts, batch>>
           /\ pc' \notin Deciding \cup {"collect"} \/ (\E ok \in BOOLEAN : Verified(ok))
           /\ \E x \in Content : /\ contents' = Append(contents, x)
                                 /\ x.kind \notin {"proposal", "position"}
           /\ status \in {"recording", "verifying", "recorder_reviewing"}
<1>1. Parts /\ Placed
  BY DEF Control
<1>2. UNCHANGED <<row, result, items, conflicts, batch>>
  BY DEF Writes, Recorded, Verified, Reviewed
<1>3. pc' \notin Deciding \cup {"collect"} \/ (\E ok \in BOOLEAN : Verified(ok))
  BY ThenFacts DEF Writes, Recorded, Reviewed, Deciding
<1>4. \E x \in Content : /\ contents' = Append(contents, x)
                         /\ x.kind \notin {"proposal", "position"}
  <2>1. PICK kind \in Kinds \ {"proposal", "position"}, seat \in Seats, ok \in BOOLEAN :
           AddContent(kind, seat, ok)
    BY SeatsTyped DEF Writes, Recorded, Verified, Reviewed, ResultKind, Kinds
  <2>2. QED
    BY <1>1, <2>1, AddedContent
<1>5. status \in {"recording", "verifying", "recorder_reviewing"}
  BY <1>1, StatusSets DEF Writes, Recorded, Verified, Reviewed, At, Placed
<1>6. QED
  BY <1>2, <1>3, <1>4, <1>5

LEMMA TurnsFacts ==
    ASSUME Turns
    PROVE  /\ pc' \notin Deciding \cup {"collect"}
           /\ UNCHANGED <<contents, conflicts>>
           /\ (Itemize \/ UNCHANGED <<result, items>>)
<1>1. pc' \notin Deciding \cup {"collect"}
  BY ThenFacts DEF Turns, Dispatch, Prepare, Reveal, RoundsExhausted, Itemize, Observe,
     BackToReview, Reconvene, Fail, Deciding
<1>2. QED
  BY <1>1 DEF Turns, Dispatch, Prepare, Reveal, RoundsExhausted, Itemize, Observe,
     BackToReview, Reconvene, Fail

-----------------------------------------------------------------------------
(* Rounds.                                                                 *)
Before == {"draft", "preparing", "sealed_proposals", "revealed", "reconvening"}
Counted ==
    /\ round <= MaxRounds
    /\ status \in Before => round = 0
    /\ pc \in {"round", "seat", "close", "adopt"} => local.round = round
    /\ pc = "seat" => local.seat \in Designers

Rounds == Control /\ Counted

LEMMA InitRounds == Init => Rounds
  BY InitControl, MeetingAssumption DEF Init, Rounds, Counted

\* A position: where it leads, and what it adds.
LEMMA PositionFacts ==
    ASSUME Control, NEW ok \in BOOLEAN, Position(ok)
    PROVE  /\ UNCHANGED <<row, result, items, conflicts, batch>> /\ pc = "seat"
           /\ local'.conflict = local.conflict /\ local'.round = local.round
           /\ local'.agree = (local.agree /\ ok)
           /\ pc' \in {"seat", "close", "exit", "failing"}
           /\ pc' = "seat" => local.seat < NumDesigners /\ local'.seat = local.seat + 1
           /\ pc' = "close" => ~(local.seat < NumDesigners)
           /\ \E x \in Content : /\ contents' = Append(contents, x)
                                 /\ x.kind = "position" /\ x.seat = local.seat
                                 /\ x.cycle = cycle /\ x.round = round /\ x.ok = ok
<1>1. Parts /\ local \in Locals
  BY DEF Control, Parts, LocalTyped
<1>2. local.seat \in Seats
  BY <1>1, FieldSet, SeatsTyped
<1>3. \E x \in Content : /\ contents' = Append(contents, x)
                         /\ x.kind = "position" /\ x.seat = local.seat
                         /\ x.cycle = cycle /\ x.round = round /\ x.ok = ok
  <2>1. AddContent("position", local.seat, ok)
    BY DEF Position
  <2>2. QED
    BY <1>1, <1>2, <2>1, AddedContent DEF Kinds
<1>4. /\ UNCHANGED <<row, result, items, conflicts, batch>> /\ pc = "seat"
  BY DEF Position, At
<1>5. CASE local.seat < NumDesigners
  <2>1. local' = [Idle(local) EXCEPT !.seat = @ + 1, !.agree = @ /\ ok] /\ Then("seat")
    BY <1>5 DEF Position
  <2>2. /\ local'.conflict = local.conflict /\ local'.round = local.round
        /\ local'.agree = (local.agree /\ ok) /\ local'.seat = local.seat + 1
    BY <1>1, <2>1 DEF Idle, Locals
  <2>3. pc' \in {"seat", "exit", "failing"}
    BY <2>1, ThenFacts
  <2>4. QED
    BY <1>3, <1>4, <1>5, <2>2, <2>3
<1>6. CASE ~(local.seat < NumDesigners)
  <2>1. local' = [Idle(local) EXCEPT !.agree = @ /\ ok] /\ Then("close")
    BY <1>6 DEF Position
  <2>2. /\ local'.conflict = local.conflict /\ local'.round = local.round
        /\ local'.agree = (local.agree /\ ok)
    BY <1>1, <2>1 DEF Idle, Locals
  <2>3. pc' \in {"close", "exit", "failing"}
    BY <2>1, ThenFacts
  <2>4. QED
    BY <1>3, <1>4, <1>6, <2>2, <2>3
<1>7. QED
  BY <1>5, <1>6

\* A proposal: of a designer that was at work, while proposals are collected.
LEMMA ProposalFacts ==
    ASSUME Control, NEW d \in Designers, KeepProposal(d)
    PROVE  /\ UNCHANGED <<row, result, items, conflicts, local>>
           /\ pc = "collect" /\ batch[d] = "ready" /\ batch'[d] = "kept"
           /\ \A e \in Designers : e # d => batch'[e] = batch[e]
           /\ pc' \in {"collect", "exit", "failing"}
           /\ \E x \in Content : /\ contents' = Append(contents, x)
                                 /\ x.kind = "proposal" /\ x.seat = d /\ x.cycle = cycle
<1>1. Parts
  BY DEF Control
<1>2. "proposal" \in Kinds /\ d \in Seats /\ TRUE \in BOOLEAN
  BY SeatsTyped DEF Kinds
<1>3. AddContent("proposal", d, TRUE)
  BY DEF KeepProposal
<1>4. \E x \in Content : /\ contents' = Append(contents, x)
                         /\ x.kind = "proposal" /\ x.seat = d /\ x.cycle = cycle
                         /\ x.round = round /\ x.ok = TRUE
  BY <1>1, <1>2, <1>3, AddedContent
<1>5. /\ UNCHANGED <<row, result, items, conflicts, local>>
      /\ pc = "collect" /\ batch[d] = "ready" /\ batch' = [batch EXCEPT ![d] = "kept"]
      /\ pc' \in {"collect", "exit", "failing"}
  BY ThenFacts DEF KeepProposal, At, Move
<1>6. batch'[d] = "kept" /\ \A e \in Designers : e # d => batch'[e] = batch[e]
  BY <1>1, <1>5 DEF Parts, BatchTyped
<1>7. QED
  BY <1>4, <1>5, <1>6

\* The next round: one more than the last, and the first seat.
LEMMA RoundFacts ==
    ASSUME Rounds, NextRound
    PROVE  /\ UNCHANGED <<result, contents, items, conflicts, batch>> /\ pc = "round"
           /\ status' = "deliberating" /\ cycle' = cycle /\ round' = round + 1
           /\ round' <= MaxRounds
           /\ local'.conflict = local.conflict /\ local'.round = round'
           /\ local'.seat = 1 /\ local'.agree = TRUE
           /\ pc' \in {"seat", "close", "exit", "failing"}
           /\ pc' = "seat" => 1 \in Designers
           /\ pc' = "close" => Designers = {}
<1>1. Parts /\ local \in Locals /\ round \in Nat
  BY DEF Rounds, Control, Parts, LocalTyped, RowTyped
<1>2. pc = "round" /\ local.round = round /\ local.round < MaxRounds
  BY DEF NextRound, At, Rounds, Counted
<1>3. /\ local' = [local EXCEPT !.round = @ + 1, !.seat = 1, !.agree = TRUE]
      /\ status' = "deliberating" /\ cycle' = cycle /\ round' = local.round + 1
      /\ UNCHANGED <<result, contents, items, conflicts, batch>>
  BY DEF NextRound, SetStatus
<1>4. /\ local'.conflict = local.conflict /\ local'.round = round'
      /\ local'.seat = 1 /\ local'.agree = TRUE
  BY <1>1, <1>2, <1>3 DEF Locals
<1>5. Then(IF NumDesigners = 0 THEN "close" ELSE "seat")
  BY DEF NextRound
<1>6. /\ pc' \in {"seat", "close", "exit", "failing"}
      /\ pc' = "seat" => NumDesigners # 0
      /\ pc' = "close" => NumDesigners = 0
  BY <1>5, ThenFacts
<1>7. round' <= MaxRounds
  BY <1>1, <1>2, <1>3, MeetingAssumption
<1>8. QED
  BY <1>2, <1>3, <1>4, <1>6, <1>7, MeetingAssumption DEF Designers

LEMMA EnsureFacts ==
    ASSUME Control, EnsureConflict
    PROVE  /\ UNCHANGED <<row, result, contents, items, batch>> /\ pc = "conflict"
           /\ local'.round = round
           /\ pc' \in {"round", "exit", "failing"}
  BY ThenFacts DEF EnsureConflict, At, Control, Parts, LocalTyped, Locals, row

LEMMA CloseFacts ==
    ASSUME CloseRound
    PROVE  /\ UNCHANGED <<row, result, contents, items, batch, local>> /\ pc = "close"
           /\ pc' \in {"round", "adopt", "exit", "failing"}
           /\ pc' = "adopt" => local.agree
           /\ pc' = "round" => ~local.agree
  BY ThenFacts DEF CloseRound, At

LEMMA AdoptFacts ==
    ASSUME Rounds, Adopt
    PROVE  /\ UNCHANGED <<cycle, round, result, contents, items, conflicts, batch>>
           /\ status' = "recording" /\ pc = "adopt"
           /\ pc' \in {"record", "exit", "failing"}
<1>1. pc = "adopt" /\ local.round = round
  BY DEF Adopt, At, Rounds, Counted
<1>2. QED
  BY <1>1, ThenFacts DEF Adopt, SetStatus

\* A step outside the rounds that keeps the round, or begins with none.
LEMMA KeepCounted ==
    ASSUME Counted, pc' \notin Deciding \cup {"collect"},
           round' = round \/ round' = 0 \/ round' = MaxRounds,
           status' \in Before => round' = 0
    PROVE  Counted'
  BY MeetingAssumption DEF Counted, Deciding

LEMMA TurnsRow ==
    ASSUME Rounds, Turns
    PROVE  /\ status' \in Before => round' = 0
           /\ \/ round' = round /\ (cycle' = cycle \/ ~Reconvene)
              \/ Reconvene /\ cycle' = cycle + 1 /\ round' = 0
              \/ RoundsExhausted /\ cycle' = cycle /\ round' = MaxRounds
           /\ cycle' = cycle \/ Reconvene
<1>1. Counted /\ Placed
  BY DEF Rounds, Control
<1>2. CASE Dispatch \/ Prepare
  BY <1>1, <1>2 DEF Dispatch, Prepare, SetStatus, row, Counted, Before
<1>3. CASE Reveal
  <2>1. status \in Before
    BY <1>1, <1>3, StatusSets DEF Reveal, At, Placed, Before
  <2>2. QED
    BY <1>1, <1>3, <2>1 DEF Reveal, SetStatus, Counted
<1>4. CASE RoundsExhausted \/ Itemize \/ Observe \/ BackToReview \/ Fail \/ Reconvene
  BY <1>4 DEF RoundsExhausted, Itemize, Observe, BackToReview, Fail, Reconvene, SetStatus, Before
<1>5. QED
  BY <1>2, <1>3, <1>4 DEF Turns

LEMMA NextRounds == Rounds /\ [Next]_vars => Rounds'
<1> SUFFICES ASSUME Rounds, [Next]_vars PROVE Counted'
  BY NextControl DEF Rounds
<1>t. Control /\ Counted /\ Parts /\ Placed
  BY DEF Rounds, Control
<1>1. CASE Quiet
  BY <1>t, <1>1 DEF Quiet, SameTurn, Counted, row, Deciding
<1>2. CASE Commands
  <2>1. pc' \in Outside
    BY <1>t, <1>2, CommandsFree
  <2>2. round' \in {0, round} /\ (status' \in Before => round' = 0)
    BY <1>2 DEF Commands, Start, Answer, Approve, Continue, Disposition, SetStatus, row, Before,
       Counted
  <2>3. QED
    BY <1>t, <2>1, <2>2, KeepCounted DEF Outside, Deciding
<1>3. CASE Writes
  <2>1. UNCHANGED row /\ pc' \notin {"round", "seat", "close", "adopt"}
    <3>1. UNCHANGED row
      BY <1>t, <1>3, WritesFacts
    <3>2. \A ok \in BOOLEAN : Verified(ok) => pc' \in {"observe", "exit", "failing"}
      BY ThenFacts DEF Verified
    <3>3. QED
      BY <1>t, <1>3, <3>1, <3>2, WritesFacts DEF Deciding
  <2>2. QED
    BY <1>t, <2>1 DEF Counted, row
<1>4. CASE Turns
  BY <1>t, <1>4, TurnsFacts, TurnsRow, KeepCounted
<1>5. CASE OpenBatch \/ \E d \in Designers : KeepProposal(d)
  <2>1. UNCHANGED row /\ pc' \in {"collect", "exit", "failing"}
    BY <1>5, ThenFacts DEF OpenBatch, KeepProposal, db, row
  <2>2. QED
    BY <1>t, <2>1 DEF Counted, row
<1>6. CASE EnsureConflict
  BY <1>t, <1>6, EnsureFacts DEF Counted, row
<1>7. CASE NextRound
  BY <1>7, RoundFacts DEF Counted, Before
<1>8. CASE CloseRound
  BY <1>t, <1>8, CloseFacts DEF Counted, row
<1>9. CASE Adopt
  BY <1>t, <1>9, AdoptFacts DEF Counted, Before
<1>10. ASSUME NEW ok \in BOOLEAN, Position(ok) PROVE Counted'
  <2>1. local.seat \in Designers /\ local.round = round
    BY <1>t, <1>10, PositionFacts DEF Counted
  <2>2. pc' = "seat" => local'.seat \in Designers
    BY <1>t, <1>10, <2>1, PositionFacts, MeetingAssumption DEF Designers
  <2>3. QED
    BY <1>t, <1>10, <2>1, <2>2, PositionFacts DEF Counted, row
<1>11. QED
  BY <1>t, <1>1, <1>2, <1>3, <1>4, <1>5, <1>6, <1>7, <1>8, <1>9, <1>10, Steps

(* Rounds and cycles only advance.                                         *)
THEOREM RoundsCorrect == Spec => RoundsAdvance
<1> DEFINE Advance == cycle' > cycle \/ (cycle' = cycle /\ round' >= round)
<1>1. ASSUME Rounds, [Next]_vars PROVE Advance
  <2>t. Control /\ Counted /\ cycle \in Nat /\ round \in Nat
    BY <1>1 DEF Rounds, Control, Parts, RowTyped
  <2>1. CASE Quiet \/ Writes \/ OpenBatch \/ EnsureConflict \/ CloseRound
             \/ (\E d \in Designers : KeepProposal(d)) \/ (\E ok \in BOOLEAN : Position(ok))
    <3>1. UNCHANGED row
      BY <2>t, <2>1, WritesFacts, EnsureFacts, CloseFacts, PositionFacts
         DEF Quiet, OpenBatch, KeepProposal, db, row
    <3>2. QED
      BY <2>t, <3>1 DEF row
  <2>2. CASE Commands
    BY <2>t, <2>2 DEF Commands, Start, Answer, Approve, Continue, Disposition, SetStatus, row,
       Counted, Before
  <2>3. CASE Turns
    BY <1>1, <2>t, <2>3, TurnsRow, MeetingAssumption DEF Counted
  <2>4. CASE NextRound
    BY <1>1, <2>t, <2>4, RoundFacts
  <2>5. CASE Adopt
    BY <1>1, <2>t, <2>5, AdoptFacts
  <2> HIDE DEF Advance
  <2>6. QED
    BY <1>1, <2>t, <2>1, <2>2, <2>3, <2>4, <2>5, Steps
<1>2. QED
  BY <1>1, InitRounds, NextRounds, PTL DEF Spec, RoundsAdvance

-----------------------------------------------------------------------------
(* The Result.                                                             *)
Itemized == Control /\ ResultIsItemized

LEMMA InitItemized == Init => Itemized
  BY InitControl DEF Init, Itemized, ResultIsItemized

\* What is there stays there.
LEMMA KeepItemized ==
    ASSUME Itemized, Grown, result' = result, DOMAIN items \subseteq DOMAIN items',
           status' \in {"awaiting_user_review", "recorder_reviewing", "reconvening",
                        "verifying", "awaiting_human", "concluded"} =>
           status \in {"awaiting_user_review", "recorder_reviewing", "reconvening",
                       "verifying", "awaiting_human", "concluded"}
    PROVE  ResultIsItemized'
<1>1. Parts
  BY DEF Itemized, Control
<1>2. QED
  BY <1>1, Persists DEF Itemized, ResultIsItemized

LEMMA NextItemized == Itemized /\ [Next]_vars => Itemized'
<1> SUFFICES ASSUME Itemized, [Next]_vars PROVE ResultIsItemized'
  BY NextControl DEF Itemized
<1>t. Control /\ Parts /\ Placed
  BY DEF Itemized, Control
<1>1. CASE Quiet
  BY <1>1, KeepItemized DEF Quiet, row, Grown
<1>2. CASE Commands
  <2>1. Grown
    <3>1. [kind |-> "human_input", seat |-> Human, cycle |-> cycle + 1, round |-> 0, ok |-> TRUE]
             \in Content
      BY <1>t, SeatsTyped DEF Parts, RowTyped, Content, Kinds
    <3>2. QED
      BY <1>2, <3>1 DEF Commands, Start, Answer, Approve, Continue, Disposition, Grown
  <2>2. result' = result /\ DOMAIN items' = DOMAIN items
    BY <1>2 DEF Commands, Start, Answer, Approve, Continue, Disposition
  <2>3. QED
    BY <1>2, <2>1, <2>2, KeepItemized
       DEF Commands, Start, Answer, Approve, Continue, Disposition, SetStatus, row
<1>3. CASE Writes
  BY <1>t, <1>3, WritesFacts, KeepItemized DEF row, Grown
<1>4. CASE Turns /\ ~Itemize
  <2>1. contents' = contents /\ result' = result /\ items' = items
    BY <1>4, TurnsFacts
  <2>2. CASE Dispatch \/ Prepare \/ Reveal \/ RoundsExhausted \/ Fail
    BY <2>1, <2>2, KeepItemized
       DEF Dispatch, Prepare, Reveal, RoundsExhausted, Fail, SetStatus, row, Grown
  <2>3. CASE Observe \/ BackToReview \/ Reconvene
    <3>1. status \in {"verifying", "recorder_reviewing"}
      BY <1>t, <2>3, StatusSets DEF Observe, BackToReview, Reconvene, At, Placed
    <3>2. QED
      BY <2>1, <3>1, KeepItemized DEF Grown
  <2>4. QED
    BY <1>4, <2>2, <2>3 DEF Turns
<1>5. CASE Itemize
  BY <1>5 DEF Itemize, ResultIsItemized
<1>6. CASE OpenBatch \/ EnsureConflict \/ CloseRound \/ NextRound \/ Adopt
  BY <1>6, KeepItemized
     DEF OpenBatch, EnsureConflict, CloseRound, NextRound, Adopt, SetStatus, db, row, Grown
<1>7. ASSUME NEW d \in Designers, KeepProposal(d) PROVE ResultIsItemized'
  BY <1>t, <1>7, ProposalFacts, KeepItemized DEF row, Grown
<1>8. ASSUME NEW ok \in BOOLEAN, Position(ok) PROVE ResultIsItemized'
  BY <1>t, <1>8, PositionFacts, KeepItemized DEF row, Grown
<1>9. QED
  BY <1>t, <1>1, <1>2, <1>3, <1>4, <1>5, <1>6, <1>7, <1>8, Steps

(* The Result the Human is shown exists and is itemized.                   *)
THEOREM ResultCorrect == Spec => []ResultIsItemized
<1>1. Itemized => ResultIsItemized
  BY DEF Itemized
<1>2. QED
  BY InitItemized, NextItemized, <1>1, PTL DEF Spec

-----------------------------------------------------------------------------
(* One voice per seat and round.                                           *)

\* Positions of the current round are taken in roster order; no designer
\* that is at work while proposals are collected has proposed in this cycle.
Ordered ==
    /\ \A i \in DOMAIN contents : contents[i].kind = "position" =>
          \/ contents[i].cycle < cycle
          \/ contents[i].cycle = cycle /\ contents[i].round <= round
    /\ pc = "seat" => \A i \in DOMAIN contents : Spoke(i) => contents[i].seat < local.seat
    /\ pc = "collect" => \A d \in Designers : batch[d] \in Busy => ~HasProposal(d)

Voices == Rounds /\ Ordered /\ OneVoicePerRound

LEMMA InitVoices == Init => Voices
<1> SUFFICES ASSUME Init PROVE Voices
  OBVIOUS
<1>1. DOMAIN contents = {}
  BY EmptyFacts DEF Init
<1>2. Ordered /\ OneVoicePerRound
  BY <1>1 DEF Init, Ordered, OneVoicePerRound
<1>3. QED
  BY <1>2, InitRounds DEF Voices

\* A content as the rows say it: what was there, and the one that is new.
LEMMA Extended ==
    ASSUME Parts, NEW x \in Content, contents' = Append(contents, x)
    PROVE  /\ \A i \in DOMAIN contents : /\ i \in DOMAIN contents' /\ contents'[i] = contents[i]
                                         /\ i < Len(contents) + 1
           /\ Len(contents) + 1 \in DOMAIN contents'
           /\ contents'[Len(contents) + 1] = x
           /\ \A i \in DOMAIN contents' : i \in DOMAIN contents \/ i = Len(contents) + 1
           /\ DOMAIN contents \subseteq Nat /\ Len(contents) \in Nat
           /\ \A i \in DOMAIN contents : contents[i] \in Content
<1>1. contents \in Seq(Content)
  BY DEF Parts, ContentsTyped
<1>2. \A i \in DOMAIN contents : contents[i] \in Content
  BY <1>1, ElementFacts
<1>3. QED
  BY <1>1, <1>2, AppendFacts

LEMMA ContentsKnown ==
    ASSUME Parts
    PROVE  \A i \in DOMAIN contents : /\ contents[i].cycle \in Nat /\ contents[i].round \in Nat
                                      /\ contents[i].seat \in Seats
<1>1. contents \in Seq(Content)
  BY DEF Parts, ContentsTyped
<1>2. \A i \in DOMAIN contents : contents[i] \in Content
  BY <1>1, ElementFacts
<1>3. QED
  BY <1>2 DEF Content

\* What OneVoicePerRound forbids of two contents.
Repeats(a, b) == /\ a.kind \in {"proposal", "position"} /\ a.kind = b.kind
                 /\ a.seat = b.seat /\ a.cycle = b.cycle
                 /\ a.kind = "position" => a.round = b.round

LEMMA NoneRepeats ==
    OneVoicePerRound <=> \A i, j \in DOMAIN contents : i # j => ~Repeats(contents[i], contents[j])
  BY DEF OneVoicePerRound, Repeats

LEMMA NoneRepeatsNext ==
    (\A i, j \in DOMAIN contents' : i # j => ~Repeats(contents'[i], contents'[j]))
        => OneVoicePerRound'
  BY DEF OneVoicePerRound, Repeats

LEMMA KeepSingle ==
    ASSUME Parts, OneVoicePerRound, NEW x \in Content, contents' = Append(contents, x),
           \A i \in DOMAIN contents : ~Repeats(contents[i], x)
    PROVE  OneVoicePerRound'
<1>1. SUFFICES ASSUME NEW i \in DOMAIN contents', NEW j \in DOMAIN contents', i # j
               PROVE  ~Repeats(contents'[i], contents'[j])
  BY NoneRepeatsNext
<1>2. CASE i \in DOMAIN contents /\ j \in DOMAIN contents
  <2>1. contents'[i] = contents[i] /\ contents'[j] = contents[j]
    BY <1>2, Extended
  <2>2. QED
    BY <1>1, <1>2, <2>1, NoneRepeats
<1>3. CASE i \in DOMAIN contents /\ contents'[j] = x
  <2>1. contents'[i] = contents[i]
    BY <1>3, Extended
  <2>2. QED
    BY <1>3, <2>1
<1>4. CASE j \in DOMAIN contents /\ contents'[i] = x
  <2>1. contents'[j] = contents[j]
    BY <1>4, Extended
  <2>2. ~Repeats(contents[j], x)
    BY <1>4
  <2>3. QED
    BY <1>4, <2>1, <2>2 DEF Repeats
<1>5. QED
  <2>1. \A k \in DOMAIN contents' : k \in DOMAIN contents \/ k = Len(contents) + 1
    BY Extended
  <2>2. contents'[Len(contents) + 1] = x
    BY Extended
  <2>3. QED
    BY <1>1, <1>2, <1>3, <1>4, <2>1, <2>2

\* Nothing is said: the cycle and the round may go on.
LEMMA KeepVoices ==
    ASSUME Voices,
           \/ contents' = contents
           \/ \E x \in Content : /\ contents' = Append(contents, x)
                                 /\ x.kind \notin {"proposal", "position"},
           cycle' = cycle + 1 \/ (cycle' = cycle /\ round' \in Nat /\ round' >= round),
           pc' = "seat" => SameTurn /\ UNCHANGED row,
           pc' = "collect" => SameTurn /\ UNCHANGED row
    PROVE  Ordered' /\ OneVoicePerRound'
<1>t. /\ Parts /\ Ordered /\ OneVoicePerRound /\ cycle \in Nat /\ round \in Nat
      /\ \A i \in DOMAIN contents : contents[i].cycle \in Nat /\ contents[i].round \in Nat
  BY ContentsKnown DEF Voices, Rounds, Control, Parts, RowTyped
<1>1. \A i \in DOMAIN contents' : contents'[i].kind \in {"proposal", "position"} =>
         i \in DOMAIN contents /\ contents'[i] = contents[i]
  <2>1. CASE contents' = contents
    BY <2>1
  <2>2. ASSUME NEW x \in Content, contents' = Append(contents, x),
               x.kind \notin {"proposal", "position"}
        PROVE  \A i \in DOMAIN contents' : contents'[i].kind \in {"proposal", "position"} =>
                  i \in DOMAIN contents /\ contents'[i] = contents[i]
    BY <1>t, <2>2, Extended
  <2>3. QED
    BY <2>1, <2>2
<1>2. OneVoicePerRound'
  BY <1>t, <1>1 DEF OneVoicePerRound
<1>3. \A i \in DOMAIN contents' : contents'[i].kind = "position" =>
          \/ contents'[i].cycle < cycle'
          \/ contents'[i].cycle = cycle' /\ contents'[i].round <= round'
  BY <1>t, <1>1 DEF Ordered
<1>4. pc' = "seat" =>
         \A i \in DOMAIN contents' : Spoke(i)' => contents'[i].seat < local'.seat
  BY <1>t, <1>1 DEF Ordered, Spoke, SameTurn, row
<1>5. ASSUME pc' = "collect", NEW d \in Designers, batch'[d] \in Busy PROVE ~HasProposal(d)'
  BY <1>t, <1>1, <1>5 DEF Ordered, HasProposal, SameTurn, row
<1>6. QED
  BY <1>2, <1>3, <1>4, <1>5 DEF Ordered

LEMMA NextVoices == Voices /\ [Next]_vars => Voices'
<1> SUFFICES ASSUME Voices, [Next]_vars PROVE Ordered' /\ OneVoicePerRound'
  BY NextRounds DEF Voices
<1>t. /\ Rounds /\ Control /\ Counted /\ Parts /\ Parts' /\ Ordered /\ OneVoicePerRound
      /\ cycle \in Nat /\ round \in Nat /\ round' \in Nat
      /\ \A i \in DOMAIN contents : contents[i].cycle \in Nat /\ contents[i].round \in Nat
                                    /\ contents[i].seat \in Seats
  BY NextRounds, ContentsKnown DEF Voices, Rounds, Control, Parts, RowTyped
<1>1. CASE Quiet
  BY <1>t, <1>1, KeepVoices DEF Quiet, row, Deciding
<1>2. CASE Commands
  <2>1. pc' \notin {"seat", "collect"}
    BY <1>t, <1>2, CommandsFree DEF Outside
  <2>2. \/ contents' = contents
        \/ \E x \in Content : /\ contents' = Append(contents, x)
                              /\ x.kind \notin {"proposal", "position"}
    <3> DEFINE new == [kind |-> "human_input", seat |-> Human, cycle |-> cycle + 1,
                        round |-> 0, ok |-> TRUE]
    <3>1. contents' = contents \/ contents' = Append(contents, new)
      BY <1>2 DEF Commands, Start, Answer, Approve, Continue, Disposition
    <3>2. new \in Content
      BY <1>t, SeatsTyped DEF Content, Kinds
    <3>3. new.kind \notin {"proposal", "position"}
      OBVIOUS
    <3> HIDE DEF new
    <3>4. QED
      BY <3>1, <3>2, <3>3
  <2>3. cycle' = cycle + 1 \/ (cycle' = cycle /\ round' >= round)
    BY <1>t, <1>2 DEF Commands, Start, Answer, Approve, Continue, Disposition, SetStatus, row,
       Counted, Before
  <2>4. QED
    BY <1>t, <2>1, <2>2, <2>3, KeepVoices
<1>3. CASE Writes
  <2>1. /\ UNCHANGED row /\ pc' \notin {"seat", "collect"}
        /\ \E x \in Content : /\ contents' = Append(contents, x)
                              /\ x.kind \notin {"proposal", "position"}
    BY <1>t, <1>3, WritesFacts, ThenFacts DEF Deciding, Verified
  <2>2. QED
    BY <1>t, <2>1, KeepVoices DEF row
<1>4. CASE Turns
  <2>1. contents' = contents /\ pc' \notin {"seat", "collect"}
    BY <1>4, TurnsFacts DEF Deciding
  <2>2. cycle' = cycle + 1 \/ (cycle' = cycle /\ round' >= round)
    BY <1>t, <1>4, TurnsRow, MeetingAssumption DEF Counted, Reconvene, SetStatus
  <2>3. QED
    BY <1>t, <2>1, <2>2, KeepVoices
<1>5. CASE OpenBatch
  <2>1. /\ UNCHANGED <<contents, cycle, round>> /\ pc' = "collect"
        /\ \A d \in Designers : batch'[d] \in Busy => ~HasProposal(d)
    BY <1>5 DEF OpenBatch, Busy, db
  <2>2. \A d \in Designers : HasProposal(d)' <=> HasProposal(d)
    BY <2>1 DEF HasProposal
  <2>3. Ordered' /\ OneVoicePerRound'
    BY <1>t, <2>1, <2>2 DEF Ordered, OneVoicePerRound
  <2>4. QED
    BY <2>3
<1>6. CASE EnsureConflict \/ CloseRound \/ Adopt
  <2>1. UNCHANGED <<contents, cycle, round>> /\ pc' \notin {"seat", "collect"}
    BY <1>t, <1>6, EnsureFacts, CloseFacts, AdoptFacts DEF row
  <2>2. QED
    BY <1>t, <2>1, KeepVoices
<1>7. CASE NextRound
  <2>1. /\ contents' = contents /\ cycle' = cycle /\ round' = round + 1 /\ pc' # "collect"
    BY <1>t, <1>7, RoundFacts
  <2>2. \A i \in DOMAIN contents' : ~Spoke(i)'
    BY <1>t, <2>1 DEF Ordered, Spoke
  <2>3. \A i \in DOMAIN contents' : contents'[i].kind = "position" =>
            \/ contents'[i].cycle < cycle'
            \/ contents'[i].cycle = cycle' /\ contents'[i].round <= round'
    BY <1>t, <2>1 DEF Ordered
  <2>4. OneVoicePerRound'
    BY <1>t, <2>1 DEF OneVoicePerRound
  <2>5. QED
    BY <2>1, <2>2, <2>3, <2>4 DEF Ordered
<1>8. ASSUME NEW d \in Designers, KeepProposal(d) PROVE Ordered' /\ OneVoicePerRound'
  <2>1. PICK x \in Content : /\ contents' = Append(contents, x)
                             /\ x.kind = "proposal" /\ x.seat = d /\ x.cycle = cycle
    BY <1>t, <1>8, ProposalFacts
  <2>2. /\ UNCHANGED <<cycle, round>> /\ pc' # "seat" /\ pc = "collect" /\ batch[d] \in Busy
        /\ batch'[d] \notin Busy /\ \A e \in Designers : e # d => batch'[e] = batch[e]
    BY <1>t, <1>8, ProposalFacts DEF row, Busy
  <2>3. ~HasProposal(d)
    BY <1>t, <2>2 DEF Ordered
  <2>4. \A i \in DOMAIN contents : contents[i].kind = "proposal" =>
           contents[i].seat # d \/ contents[i].cycle # cycle
    BY <2>3 DEF HasProposal
  <2>5. OneVoicePerRound'
    <3>1. \A i \in DOMAIN contents : ~Repeats(contents[i], x)
      BY <2>1, <2>4 DEF Repeats
    <3>2. QED
      BY <1>t, <2>1, <3>1, KeepSingle
  <2>6. \A i \in DOMAIN contents' : contents'[i].kind = "position" =>
            \/ contents'[i].cycle < cycle'
            \/ contents'[i].cycle = cycle' /\ contents'[i].round <= round'
    BY <1>t, <2>1, <2>2, Extended DEF Ordered
  <2>7. ASSUME NEW e \in Designers, batch'[e] \in Busy PROVE ~HasProposal(e)'
    <3>1. e # d /\ ~HasProposal(e)
      BY <1>t, <2>2, <2>7 DEF Ordered
    <3>2. QED
      BY <1>t, <2>1, <2>2, <3>1, Extended DEF HasProposal
  <2>8. QED
    BY <2>2, <2>5, <2>6, <2>7 DEF Ordered
<1>9. ASSUME NEW ok \in BOOLEAN, Position(ok) PROVE Ordered' /\ OneVoicePerRound'
  <2>1. PICK x \in Content : /\ contents' = Append(contents, x)
                             /\ x.kind = "position" /\ x.seat = local.seat
                             /\ x.cycle = cycle /\ x.round = round
    BY <1>t, <1>9, PositionFacts
  <2>2. /\ UNCHANGED <<cycle, round>> /\ pc = "seat" /\ pc' # "collect"
        /\ pc' = "seat" => local'.seat = local.seat + 1
    BY <1>t, <1>9, PositionFacts DEF row
  <2>3. \A i \in DOMAIN contents : Spoke(i) => contents[i].seat < local.seat
    BY <1>t, <2>2 DEF Ordered
  <2>4. local.seat \in Nat /\ \A i \in DOMAIN contents : contents[i].seat \in Nat
    BY <1>t, FieldSet, MeetingAssumption DEF Seats
  <2>5. OneVoicePerRound'
    <3>1. \A i \in DOMAIN contents : contents[i].kind = "position" =>
             \/ contents[i].seat # x.seat \/ contents[i].cycle # x.cycle
             \/ contents[i].round # x.round
      BY <2>1, <2>3, <2>4 DEF Spoke
    <3>2. \A i \in DOMAIN contents : ~Repeats(contents[i], x)
      BY <2>1, <3>1 DEF Repeats
    <3>3. QED
      BY <1>t, <2>1, <3>2, KeepSingle
  <2>6. \A i \in DOMAIN contents' : contents'[i].kind = "position" =>
            \/ contents'[i].cycle < cycle'
            \/ contents'[i].cycle = cycle' /\ contents'[i].round <= round'
    BY <1>t, <2>1, <2>2, Extended DEF Ordered
  <2>7. ASSUME pc' = "seat", NEW i \in DOMAIN contents', Spoke(i)'
        PROVE  contents'[i].seat < local'.seat
    BY <1>t, <2>1, <2>2, <2>3, <2>4, <2>7, Extended DEF Spoke
  <2>8. QED
    BY <2>2, <2>5, <2>6, <2>7 DEF Ordered
<1>10. QED
  BY <1>t, <1>1, <1>2, <1>3, <1>4, <1>5, <1>6, <1>7, <1>8, <1>9, Steps

(* Killing the daemon before or after any commit gives no seat a second    *)
(* proposal in a cycle and no second position in a round.                  *)
THEOREM VoicesCorrect == Spec => []OneVoicePerRound
<1>1. Voices => OneVoicePerRound
  BY DEF Voices
<1>2. QED
  BY InitVoices, NextVoices, <1>1, PTL DEF Spec

-----------------------------------------------------------------------------
(* Consensus.                                                              *)

\* The designer accepted in this round of this cycle.
Accepts(i, d, c, r) ==
    /\ contents[i].kind = "position" /\ contents[i].seat = d /\ contents[i].ok
    /\ contents[i].cycle = c /\ contents[i].round = r
AcceptedBy(d) == \E i \in DOMAIN contents : Accepts(i, d, cycle, round)

\* While every verdict so far agrees, the seats asked so far have accepted.
Agreeing ==
    /\ pc = "seat" /\ local.agree => \A d \in Designers : d < local.seat => AcceptedBy(d)
    /\ pc = "close" /\ local.agree => Unanimous
    /\ pc = "adopt" => Unanimous

Consensus == Rounds /\ Agreeing /\ ConsensusBeforeRecording

LEMMA UnanimousMeans == Unanimous <=> \A d \in Designers : AcceptedBy(d)
  BY DEF Unanimous, AcceptedBy, Accepts

LEMMA UnanimousStep == Unanimous' <=> \A d \in Designers : AcceptedBy(d)'
  BY DEF Unanimous, AcceptedBy, Accepts

LEMMA InitConsensus == Init => Consensus
  BY InitRounds DEF Init, Consensus, Agreeing, ConsensusBeforeRecording

LEMMA KeepAccepted ==
    ASSUME Parts, Grown, cycle' = cycle, round' = round, NEW d, AcceptedBy(d)
    PROVE  AcceptedBy(d)'
<1>1. PICK i \in DOMAIN contents : Accepts(i, d, cycle, round)
  BY DEF AcceptedBy
<1>2. i \in DOMAIN contents' /\ contents'[i] = contents[i]
  BY Persists
<1>3. QED
  BY <1>1, <1>2 DEF AcceptedBy, Accepts

LEMMA KeepUnanimous ==
    ASSUME Parts, Grown, cycle' = cycle, round' = round, Unanimous
    PROVE  Unanimous'
  BY KeepAccepted, UnanimousMeans, UnanimousStep

\* A step that decides nothing.
LEMMA KeepConsensus ==
    ASSUME Consensus, Grown, pc' \notin {"seat", "close", "adopt"} \/ SameTurn,
           status' = "recording" \/ pc' \in {"seat", "close", "adopt"} => UNCHANGED row
    PROVE  Agreeing' /\ ConsensusBeforeRecording'
<1>1. Parts /\ Agreeing /\ ConsensusBeforeRecording
  BY DEF Consensus, Rounds, Control
<1>2. CASE UNCHANGED row
  <2>1. /\ \A d \in Designers : AcceptedBy(d) => AcceptedBy(d)'
        /\ Unanimous => Unanimous'
    BY <1>1, <1>2, KeepAccepted, KeepUnanimous DEF row
  <2>2. ConsensusBeforeRecording'
    BY <1>1, <1>2, <2>1 DEF ConsensusBeforeRecording, row
  <2>3. Agreeing'
    BY <1>1, <2>1 DEF Agreeing, SameTurn
  <2>4. QED
    BY <2>2, <2>3
<1>3. CASE status' # "recording" /\ pc' \notin {"seat", "close", "adopt"}
  BY <1>3 DEF Agreeing, ConsensusBeforeRecording
<1>4. QED
  BY <1>2, <1>3

LEMMA NextConsensus == Consensus /\ [Next]_vars => Consensus'
<1> SUFFICES ASSUME Consensus, [Next]_vars PROVE Agreeing' /\ ConsensusBeforeRecording'
  BY NextRounds DEF Consensus
<1>t. /\ Rounds /\ Control /\ Counted /\ Parts /\ Placed /\ Agreeing /\ ConsensusBeforeRecording
      /\ Counted'
  BY NextRounds DEF Consensus, Rounds, Control
<1>1. CASE Quiet
  BY <1>1, KeepConsensus DEF Quiet, Grown, Deciding
<1>2. CASE Commands
  <2>1. pc' \notin {"seat", "close", "adopt"}
    BY <1>t, <1>2, CommandsFree DEF Outside
  <2>2. status' # "recording"
    BY <1>2 DEF Commands, Start, Answer, Approve, Continue, Disposition, SetStatus, row
  <2>3. QED
    BY <2>1, <2>2 DEF Agreeing, ConsensusBeforeRecording
<1>3. CASE Writes
  <2>1. UNCHANGED row /\ Grown /\ pc' \notin {"seat", "close", "adopt"}
    BY <1>t, <1>3, WritesFacts, ThenFacts DEF Deciding, Verified, Grown
  <2>2. QED
    BY <2>1, KeepConsensus
<1>4. CASE Turns
  <2>1. contents' = contents /\ pc' \notin {"seat", "close", "adopt"}
    BY <1>4, TurnsFacts DEF Deciding
  <2>2. CASE UNCHANGED row
    BY <2>1, <2>2, KeepConsensus DEF Grown
  <2>3. CASE Reveal /\ status' = "recording"
    <3>1. Designers = {}
      BY <2>3, MeetingAssumption DEF Reveal, SetStatus, Designers
    <3>2. Unanimous'
      BY <3>1 DEF Unanimous
    <3>3. QED
      BY <2>1, <3>2 DEF Agreeing, ConsensusBeforeRecording
  <2>4. CASE RoundsExhausted /\ status' = "recording"
    <3>1. Protocol = 2 /\ round' = MaxRounds
      BY <2>4 DEF RoundsExhausted, SetStatus
    <3>2. QED
      BY <2>1, <3>1 DEF Agreeing, ConsensusBeforeRecording
  <2>5. CASE status' # "recording"
    BY <2>1, <2>5 DEF Agreeing, ConsensusBeforeRecording
  <2>6. QED
    BY <1>4, <2>2, <2>3, <2>4, <2>5
       DEF Turns, Dispatch, Prepare, Itemize, Observe, BackToReview, Reconvene, Fail, SetStatus
<1>5. CASE OpenBatch \/ EnsureConflict \/ \E d \in Designers : KeepProposal(d)
  <2>1. UNCHANGED row /\ Grown /\ pc' \notin {"seat", "close", "adopt"}
    <3>1. CASE OpenBatch
      BY <3>1 DEF OpenBatch, db, row, Grown
    <3>2. CASE EnsureConflict
      BY <1>t, <3>2, EnsureFacts DEF Grown
    <3>3. ASSUME NEW d \in Designers, KeepProposal(d)
          PROVE  UNCHANGED row /\ Grown /\ pc' \notin {"seat", "close", "adopt"}
      BY <1>t, <3>3, ProposalFacts DEF Grown
    <3>4. QED
      BY <1>5, <3>1, <3>2, <3>3
  <2>2. QED
    BY <2>1, KeepConsensus
<1>6. CASE NextRound
  <2>1. /\ status' = "deliberating" /\ pc' # "adopt" /\ local'.seat = 1
        /\ pc' = "close" => Designers = {}
    BY <1>t, <1>6, RoundFacts
  <2>2. \A d \in Designers : ~(d < 1)
    BY MeetingAssumption DEF Designers
  <2>3. pc' = "close" => Unanimous'
    BY <2>1 DEF Unanimous
  <2>4. QED
    BY <2>1, <2>2, <2>3 DEF Agreeing, ConsensusBeforeRecording
<1>7. CASE CloseRound
  <2>1. /\ UNCHANGED <<status, cycle, round, contents>> /\ pc = "close"
        /\ pc' \notin {"seat", "close"} /\ (pc' = "adopt" => local.agree)
    BY <1>7, CloseFacts DEF row
  <2>2. Unanimous => Unanimous'
    BY <1>t, <2>1, KeepUnanimous DEF Grown
  <2>3. QED
    BY <1>t, <2>1, <2>2 DEF Agreeing, ConsensusBeforeRecording
<1>8. CASE Adopt
  <2>1. /\ UNCHANGED <<cycle, round, contents>> /\ pc = "adopt"
        /\ pc' \notin {"seat", "close", "adopt"}
    BY <1>t, <1>8, AdoptFacts
  <2>2. Unanimous'
    BY <1>t, <2>1, KeepUnanimous DEF Agreeing, Grown
  <2>3. QED
    BY <2>1, <2>2 DEF Agreeing, ConsensusBeforeRecording
<1>9. ASSUME NEW ok \in BOOLEAN, Position(ok) PROVE Agreeing' /\ ConsensusBeforeRecording'
  <2>1. PICK x \in Content : /\ contents' = Append(contents, x)
                             /\ x.kind = "position" /\ x.seat = local.seat
                             /\ x.cycle = cycle /\ x.round = round /\ x.ok = ok
    BY <1>t, <1>9, PositionFacts
  <2>2. /\ UNCHANGED <<status, cycle, round>> /\ pc = "seat" /\ Grown
        /\ local'.agree = (local.agree /\ ok)
        /\ pc' \in {"seat", "close", "exit", "failing"}
        /\ pc' = "seat" => local'.seat = local.seat + 1
        /\ pc' = "close" => ~(local.seat < NumDesigners)
    BY <1>t, <1>9, <2>1, PositionFacts DEF row, Grown
  <2>3. status' # "recording"
    BY <1>t, <2>2, StatusSets DEF Placed
  <2>4. local.seat \in Nat /\ local.agree \in BOOLEAN
    BY <1>t, FieldSet, MeetingAssumption
  <2>5. ASSUME local'.agree, NEW d \in Designers, d < local.seat \/ d = local.seat
        PROVE  AcceptedBy(d)'
    <3>1. local.agree /\ ok
      BY <2>2, <2>5
    <3>2. CASE d < local.seat
      BY <1>t, <2>2, <3>1, <3>2, KeepAccepted DEF Agreeing
    <3>3. CASE d = local.seat
      <4>1. Len(contents) + 1 \in DOMAIN contents' /\ contents'[Len(contents) + 1] = x
        BY <1>t, <2>1, Extended
      <4>2. QED
        BY <2>1, <2>2, <3>1, <3>3, <4>1 DEF AcceptedBy, Accepts
    <3>4. QED
      BY <2>5, <3>2, <3>3
  <2>6. ASSUME pc' = "seat", local'.agree, NEW d \in Designers, d < local'.seat
        PROVE  AcceptedBy(d)'
    BY <2>2, <2>4, <2>5, <2>6, MeetingAssumption DEF Designers
  <2>7. ASSUME pc' = "close", local'.agree PROVE Unanimous'
    <3>1. \A d \in Designers : d < local.seat \/ d = local.seat
      BY <2>2, <2>4, <2>7, MeetingAssumption DEF Designers
    <3>2. QED
      BY <2>5, <2>7, <3>1, UnanimousStep
  <2>8. QED
    BY <2>2, <2>3, <2>6, <2>7 DEF Agreeing, ConsensusBeforeRecording
<1>10. QED
  BY <1>t, <1>1, <1>2, <1>3, <1>4, <1>5, <1>6, <1>7, <1>8, <1>9, Steps

(* The Recorder is asked only after a unanimous round of this cycle, or,   *)
(* in protocol v2, when the rounds are exhausted.                          *)
THEOREM ConsensusCorrect == Spec => []ConsensusBeforeRecording
<1>1. Consensus => ConsensusBeforeRecording
  BY DEF Consensus
<1>2. QED
  BY InitConsensus, NextConsensus, <1>1, PTL DEF Spec

-----------------------------------------------------------------------------
(* The verdict of the Verifier.                                            *)

Verdict == Itemized /\ (pc = "observe" /\ local.agree => Cleared) /\ ClearedByVerifier

LEMMA ClearedStep == (UNCHANGED <<contents, result>> => (Cleared' <=> Cleared))
  BY DEF Cleared

LEMMA InitVerdict == Init => Verdict
  BY InitItemized DEF Init, Verdict, ClearedByVerifier

\* Nothing is added to what the Verifier has judged.
LEMMA KeepVerdict ==
    ASSUME Verdict,
           status' = "awaiting_human" =>
              (status = "awaiting_human" \/ (pc = "observe" /\ local.agree))
              /\ UNCHANGED <<contents, result>>,
           pc' = "observe" => SameTurn /\ UNCHANGED <<contents, result>>
    PROVE  (pc' = "observe" /\ local'.agree => Cleared') /\ ClearedByVerifier'
<1>1. status' = "awaiting_human" => Cleared'
  BY ClearedStep DEF Verdict, ClearedByVerifier, Cleared
<1>2. pc' = "observe" /\ local'.agree => Cleared'
  BY ClearedStep DEF Verdict, SameTurn
<1>3. QED
  BY <1>1, <1>2 DEF ClearedByVerifier, Cleared

LEMMA NextVerdict == Verdict /\ [Next]_vars => Verdict'
<1> SUFFICES ASSUME Verdict, [Next]_vars
             PROVE  (pc' = "observe" /\ local'.agree => Cleared') /\ ClearedByVerifier'
  BY NextItemized DEF Verdict
<1>t. Control /\ Parts /\ Placed /\ ResultIsItemized
  BY DEF Verdict, Itemized, Control
<1>1. CASE Quiet
  BY <1>1, KeepVerdict DEF Quiet, row, Deciding
<1>2. CASE Commands
  <2>1. pc' # "observe"
    BY <1>t, <1>2, CommandsFree DEF Outside
  <2>2. status' = "awaiting_human" => status = "awaiting_human" /\ UNCHANGED <<contents, result>>
    BY <1>2 DEF Commands, Start, Answer, Approve, Continue, Disposition, SetStatus, row
  <2>3. QED
    BY <2>1, <2>2, KeepVerdict
<1>3. ASSUME NEW clear \in BOOLEAN, Verified(clear)
      PROVE  (pc' = "observe" /\ local'.agree => Cleared') /\ ClearedByVerifier'
  <2>1. /\ UNCHANGED <<row, result>> /\ pc = "verify"
        /\ local' = [Idle(local) EXCEPT !.agree = clear]
        /\ AddContent("verification", Verifier, clear)
    BY <1>3 DEF Verified, At
  <2>2. status' # "awaiting_human"
    BY <1>t, <2>1, StatusSets DEF Placed, row
  <2>3. local'.agree = clear
    BY <1>t, <2>1 DEF Parts, LocalTyped, Locals, Idle
  <2>4. PICK x \in Content : /\ contents' = Append(contents, x)
                             /\ x.kind = "verification" /\ x.ok = clear
    <3>1. "verification" \in Kinds /\ Verifier \in Seats
      BY SeatsTyped DEF Kinds
    <3>2. QED
      BY <1>t, <2>1, <3>1, AddedContent
  <2>5. result \in DOMAIN contents
    BY <1>t, <2>1, StatusSets DEF Placed, ResultIsItemized
  <2>6. local'.agree => Cleared'
    <3>1. /\ Len(contents) + 1 \in DOMAIN contents' /\ contents'[Len(contents) + 1] = x
          /\ Len(contents) + 1 > result'
          /\ \A i \in DOMAIN contents' : ~(i > Len(contents) + 1)
      BY <1>t, <2>1, <2>4, <2>5, Extended
    <3>2. QED
      BY <2>3, <2>4, <3>1 DEF Cleared
  <2>7. QED
    BY <2>2, <2>6 DEF ClearedByVerifier
<1>4. CASE Writes /\ ~\E clear \in BOOLEAN : Verified(clear)
  <2>1. pc' # "observe" /\ UNCHANGED row /\ status \in {"recording", "verifying", "recorder_reviewing"}
    BY <1>t, <1>4, WritesFacts DEF Deciding
  <2>2. QED
    BY <2>1, KeepVerdict DEF row
<1>5. CASE Turns
  <2>1. pc' # "observe" /\ contents' = contents
    BY <1>5, TurnsFacts DEF Deciding
  <2>2. status' = "awaiting_human" =>
           (status = "awaiting_human" \/ (pc = "observe" /\ local.agree)) /\ result' = result
    BY <1>5 DEF Turns, Dispatch, Prepare, Reveal, RoundsExhausted, Itemize, Observe,
       BackToReview, Reconvene, Fail, SetStatus, row, At
  <2>3. QED
    BY <2>1, <2>2, KeepVerdict
<1>6. CASE OpenBatch
  BY <1>6, KeepVerdict DEF OpenBatch, db
<1>7. CASE EnsureConflict \/ NextRound \/ CloseRound \/ Adopt
  <2>1. /\ status \in {"revealed", "deliberating"}
        /\ pc' # "observe"
    BY <1>t, <1>7, ThenFacts, StatusSets DEF EnsureConflict, NextRound, CloseRound, Adopt, At, Placed
  <2>2. status' # "awaiting_human"
    BY <1>7, <2>1 DEF EnsureConflict, NextRound, CloseRound, Adopt, SetStatus, row
  <2>3. QED
    BY <2>1, <2>2, KeepVerdict
<1>8. ASSUME NEW d \in Designers, KeepProposal(d)
      PROVE  (pc' = "observe" /\ local'.agree => Cleared') /\ ClearedByVerifier'
  <2>1. UNCHANGED row /\ pc' # "observe" /\ pc = "collect"
    BY <1>t, <1>8, ProposalFacts
  <2>2. status' # "awaiting_human"
    BY <1>t, <2>1, StatusSets DEF Placed, row
  <2>3. QED
    BY <2>1, <2>2, KeepVerdict
<1>9. ASSUME NEW ok \in BOOLEAN, Position(ok)
      PROVE  (pc' = "observe" /\ local'.agree => Cleared') /\ ClearedByVerifier'
  <2>1. UNCHANGED row /\ pc' # "observe" /\ pc = "seat"
    BY <1>t, <1>9, PositionFacts
  <2>2. status' # "awaiting_human"
    BY <1>t, <2>1, StatusSets DEF Placed, row
  <2>3. QED
    BY <2>1, <2>2, KeepVerdict
<1>10. QED
  BY <1>t, <1>1, <1>2, <1>3, <1>4, <1>5, <1>6, <1>7, <1>8, <1>9, Steps

(* The Human ratifies only what the Verifier cleared after it was written. *)
THEOREM VerdictCorrect == Spec => []ClearedByVerifier
<1>1. Verdict => ClearedByVerifier
  BY DEF Verdict
<1>2. QED
  BY InitVerdict, NextVerdict, <1>1, PTL DEF Spec

-----------------------------------------------------------------------------
(* Conflicts.                                                              *)
Discussed == Control /\ (pc \in {"round", "seat", "close"} => local.conflict \in OpenConflicts)
             /\ OneOpenConflict

ConflictRow == [cycle : Nat, status : {"open", "resolved"}]

LEMMA InitDiscussed == Init => Discussed
<1> SUFFICES ASSUME Init PROVE Discussed
  OBVIOUS
<1>1. DOMAIN conflicts = {}
  BY EmptyFacts DEF Init
<1>2. QED
  BY <1>1, InitControl DEF Init, Discussed, OneOpenConflict

LEMMA KeepDiscussed ==
    ASSUME Discussed, conflicts' = conflicts,
           \/ pc' \notin {"round", "seat", "close"}
           \/ /\ pc \in {"round", "seat", "close"}
              /\ local'.conflict = local.conflict /\ cycle' = cycle
    PROVE  /\ pc' \in {"round", "seat", "close"} => local'.conflict \in OpenConflicts'
           /\ OneOpenConflict'
  BY DEF Discussed, OpenConflicts, OneOpenConflict

LEMMA NextDiscussed == Discussed /\ [Next]_vars => Discussed'
<1> SUFFICES ASSUME Discussed, [Next]_vars
             PROVE  /\ pc' \in {"round", "seat", "close"} => local'.conflict \in OpenConflicts'
                    /\ OneOpenConflict'
  BY NextControl DEF Discussed
<1>t. /\ Control /\ Parts /\ OneOpenConflict /\ cycle \in Nat
      /\ pc \in {"round", "seat", "close"} => local.conflict \in OpenConflicts
      /\ conflicts \in Seq(ConflictRow)
  BY DEF Discussed, Control, Parts, RowTyped, ConflictsTyped, ConflictRow
<1>1. CASE Quiet
  BY <1>1, KeepDiscussed DEF Quiet, SameTurn, row, Deciding
<1>2. CASE Commands
  BY <1>t, <1>2, CommandsFree, KeepDiscussed DEF Outside
<1>3. CASE Writes
  <2>1. conflicts' = conflicts /\ pc' \notin {"round", "seat", "close"}
    BY <1>t, <1>3, WritesFacts, ThenFacts DEF Deciding, Verified
  <2>2. QED
    BY <2>1, KeepDiscussed
<1>4. CASE Turns
  BY <1>4, TurnsFacts, KeepDiscussed DEF Deciding
<1>5. CASE OpenBatch \/ Adopt
  <2>1. conflicts' = conflicts /\ pc' \notin {"round", "seat", "close"}
    BY <1>5, ThenFacts DEF OpenBatch, Adopt, db
  <2>2. QED
    BY <2>1, KeepDiscussed
<1>6. ASSUME NEW d \in Designers, KeepProposal(d)
      PROVE  /\ pc' \in {"round", "seat", "close"} => local'.conflict \in OpenConflicts'
             /\ OneOpenConflict'
  BY <1>t, <1>6, ProposalFacts, KeepDiscussed
<1>7. ASSUME NEW ok \in BOOLEAN, Position(ok)
      PROVE  /\ pc' \in {"round", "seat", "close"} => local'.conflict \in OpenConflicts'
             /\ OneOpenConflict'
  <2>1. /\ conflicts' = conflicts /\ pc = "seat" /\ local'.conflict = local.conflict
        /\ cycle' = cycle
    BY <1>t, <1>7, PositionFacts DEF row
  <2>2. QED
    BY <2>1, KeepDiscussed
<1>8. CASE NextRound
  <2>1. /\ conflicts' = conflicts /\ pc = "round" /\ cycle' = cycle
        /\ local'.conflict = local.conflict
    BY <1>t, <1>8 DEF NextRound, At, SetStatus, Parts, LocalTyped, Locals
  <2>2. QED
    BY <2>1, KeepDiscussed
<1>9. CASE EnsureConflict
  <2>1. local \in Locals /\ cycle' = cycle /\ pc' \in {"round", "exit", "failing"}
    BY <1>t, <1>9, EnsureFacts DEF Parts, LocalTyped, row
  <2>2. CASE \E i \in OpenConflicts : /\ local' = [local EXCEPT !.conflict = i, !.round = round]
                                      /\ conflicts' = conflicts
    <3>1. local'.conflict \in OpenConflicts
      BY <2>1, <2>2 DEF Locals
    <3>2. QED
      BY <1>t, <2>1, <2>2, <3>1 DEF OpenConflicts, OneOpenConflict
  <2>3. CASE /\ OpenConflicts = {}
             /\ conflicts' = Append(conflicts, [cycle |-> cycle, status |-> "open"])
             /\ local' = [local EXCEPT !.conflict = Len(conflicts) + 1, !.round = round]
    <3> DEFINE new == [cycle |-> cycle, status |-> "open"]
    <3>1. new \in ConflictRow /\ new.cycle = cycle /\ new.status = "open"
      BY <1>t DEF ConflictRow
    <3>2. conflicts' = Append(conflicts, new)
      BY <2>3
    <3>3. local'.conflict = Len(conflicts) + 1
      BY <2>1, <2>3 DEF Locals
    <3> HIDE DEF new
    <3>4. /\ DOMAIN conflicts' = 1..(Len(conflicts) + 1) /\ DOMAIN conflicts = 1..Len(conflicts)
          /\ Len(conflicts) \in Nat
          /\ \A i \in 1..Len(conflicts) : conflicts'[i] = conflicts[i]
          /\ conflicts'[Len(conflicts) + 1] = new
      BY <1>t, <3>1, <3>2, AppendFacts
    <3>5. local'.conflict \in OpenConflicts'
      BY <2>1, <3>1, <3>3, <3>4 DEF OpenConflicts
    <3>6. \A i \in DOMAIN conflicts : ~(conflicts[i].status = "open" /\ conflicts[i].cycle = cycle)
      BY <2>3 DEF OpenConflicts
    <3>7. OneOpenConflict'
      BY <1>t, <3>1, <3>4, <3>6 DEF OneOpenConflict
    <3>8. QED
      BY <3>5, <3>7
  <2>4. QED
    BY <1>9, <2>2, <2>3 DEF EnsureConflict
<1>10. CASE CloseRound
  <2>1. /\ pc = "close" /\ UNCHANGED <<cycle, local>>
        /\ conflicts' = [conflicts EXCEPT ![local.conflict].status =
                           IF local.agree THEN "resolved" ELSE "open"]
        /\ pc' = "round" => ~local.agree
        /\ pc' \notin {"seat", "close"}
    BY <1>10, CloseFacts DEF CloseRound, row
  <2>2. local.conflict \in OpenConflicts
    BY <1>t, <2>1
  <2>3. /\ DOMAIN conflicts' = DOMAIN conflicts
        /\ \A i \in DOMAIN conflicts : i # local.conflict => conflicts'[i] = conflicts[i]
    BY <2>1
  <2>4. \A i \in DOMAIN conflicts : conflicts[i] \in ConflictRow
    BY <1>t, ElementFacts
  <2>5. /\ conflicts'[local.conflict].cycle = conflicts[local.conflict].cycle
        /\ conflicts'[local.conflict].status = IF local.agree THEN "resolved" ELSE "open"
    BY <2>1, <2>2, <2>4 DEF OpenConflicts, ConflictRow
  <2>6. \A i \in DOMAIN conflicts :
           /\ conflicts'[i].cycle = conflicts[i].cycle
           /\ conflicts'[i].status = "open" => conflicts[i].status = "open"
    BY <2>2, <2>3, <2>5 DEF OpenConflicts
  <2>7. OneOpenConflict'
    BY <1>t, <2>3, <2>6 DEF OneOpenConflict
  <2>8. pc' = "round" => local'.conflict \in OpenConflicts'
    BY <2>1, <2>2, <2>3, <2>5 DEF OpenConflicts
  <2>9. QED
    BY <2>1, <2>7, <2>8
<1>11. QED
  BY <1>t, <1>1, <1>2, <1>3, <1>4, <1>5, <1>6, <1>7, <1>8, <1>9, <1>10, Steps

(* The discussion of a cycle is about one blocking Conflict at a time.     *)
THEOREM ConflictsCorrect == Spec => []OneOpenConflict
<1>1. Discussed => OneOpenConflict
  BY DEF Discussed
<1>2. QED
  BY InitDiscussed, NextDiscussed, <1>1, PTL DEF Spec

-----------------------------------------------------------------------------
(* The end of a Meeting.                                                   *)

(* A Meeting that has ended stays as it ended, but for failMeeting of a    *)
(* Service.Run that a shutdown has interrupted.                            *)
THEOREM EndCorrect == Spec => EndIsFinal
<1> DEFINE Stays == \/ status \notin Final
                    \/ cancelled /\ pc = "failing" /\ status' = "failed" /\ UNCHANGED items
<1>1. ASSUME Ownership, [Next]_vars, ~(UNCHANGED <<status, items>>) PROVE Stays
  <2>1. Control /\ Parts /\ Placed /\ OneOwner
    BY <1>1 DEF Ownership, Control
  <2>2. CASE Commands
    BY <2>1, <2>2, CommandsFree DEF HumanOwned, Final
  <2>3. CASE Fail
    BY <2>1, <2>3 DEF Fail, SetStatus, OneOwner
  <2>4. CASE pc \notin Between
    BY <1>1, <2>4, Working DEF WorkerOwned, Final
  <2>5. CASE Turns /\ ~Fail
    BY <2>4, <2>5 DEF Turns, Dispatch, Prepare, Reveal, RoundsExhausted, Itemize, Observe,
       BackToReview, Reconvene, At, Between
  <2>6. CASE NextRound \/ Adopt
    BY <2>4, <2>6 DEF NextRound, Adopt, At, Between
  <2>7. CASE Quiet \/ Writes \/ OpenBatch \/ EnsureConflict \/ CloseRound
             \/ (\E d \in Designers : KeepProposal(d)) \/ (\E ok \in BOOLEAN : Position(ok))
    <3>1. UNCHANGED <<status, items>>
      BY <2>1, <2>7, WritesFacts, EnsureFacts, CloseFacts, PositionFacts, ProposalFacts
         DEF Quiet, OpenBatch, db, row
    <3>2. QED
      BY <1>1, <3>1
  <2> HIDE DEF Stays
  <2>8. QED
    BY <1>1, <2>1, <2>2, <2>3, <2>5, <2>6, <2>7, Steps
<1> HIDE DEF Stays
<1>2. ASSUME Ownership, [Next]_vars PROVE [Stays]_<<status, items>>
  BY <1>1, <1>2
<1> USE DEF Stays
<1>3. QED
  BY <1>2, InitOwnership, NextOwnership, PTL DEF Spec, EndIsFinal
-----------------------------------------------------------------------------
(* The protocol.  What a Meeting is to its participants is read off its    *)
(* rows and contents alone; that every step is one of theirs, or none,     *)
(* needs where Service.Run is among them.                                  *)
InTurn ==
    /\ pc \in {"batch", "collect", "reveal"} => status = "sealed_proposals"
    /\ pc \in {"seat", "close", "adopt"} => status = "deliberating"
    /\ \A i \in DOMAIN contents : contents[i].cycle <= cycle
    /\ pc = "seat" => \A d \in Designers : d < local.seat => d \in HaveSpoken
    /\ result <= Len(contents)
    /\ pc = "itemize" => /\ result < Len(contents)
                         /\ contents[Len(contents)].kind = ResultKind
                         /\ status = "recorder_reviewing" => ~Refused
    /\ pc = "observe" /\ Cleared => local.agree

Following == /\ Barrier /\ Ownership /\ Voices /\ Consensus /\ Verdict
             /\ InTurn

\* Nothing a participant sees.
Unseen == UNCHANGED <<row, result, contents, items>>

LEMMA UnseenFacts ==
    ASSUME Unseen
    PROVE  UNCHANGED <<HaveProposed, HaveSpoken, HaveAccepted, Cleared, Refused>>
  BY DEF Unseen, row, HaveProposed, Proposes, HaveSpoken, Spoke, HaveAccepted, Cleared, Refused

\* The places between which the participants have their turns.
Turning == {"batch", "collect", "reveal", "seat", "close", "adopt", "itemize", "observe"}

Stays == /\ pc' = pc /\ Unseen
         /\ local'.seat = local.seat /\ local'.agree = local.agree

LEMMA StaysSame == UNCHANGED <<db, pc, local>> => Stays
  BY DEF Stays, Unseen, db, row

\* How each of them is reached.
LEMMA Arrives ==
    ASSUME Control, [Next]_vars, pc' \in Turning
    PROVE  \/ Stays
           \/ Prepare \/ OpenBatch \/ Collected \/ NextRound \/ CloseRound
           \/ Recorded \/ Reviewed("meeting_result", "itemize")
           \/ (\E d \in Designers : KeepProposal(d))
           \/ (\E ok \in BOOLEAN : Position(ok) \/ Verified(ok))
<1>t. Parts /\ local \in Locals
  BY DEF Control, Parts, LocalTyped
<1>1. CASE Enqueue \/ Disconnect \/ Boot \/ UNCHANGED vars
  BY <1>1, StaysSame DEF Enqueue, Disconnect, Boot, vars
<1>2. CASE Start \/ Answer \/ Approve
           \/ \E d \in {"selected", "rejected", "deferred"} :
                 Continue(d) \/ \E i \in DOMAIN items : Disposition(i, d)
  <2>1. pc' = pc /\ pc \in Outside
    BY <1>2, CommandsFree DEF Commands
  <2>2. QED
    BY <2>1 DEF Outside, Turning
<1>3. CASE Crash \/ Exit \/ Cancel \/ Conflict \/ PrepareFails \/ RunFails \/ SourceChanged
           \/ Dequeue \/ Return \/ Fail
  <2>1. CASE Cancel
    <3>1. pc' \in {"exit", "failing"} \/ (pc' = pc /\ pc \in {"idle", "failing", "exit"})
      BY <2>1, ErrorPlaces DEF Cancel
    <3>2. QED
      BY <3>1 DEF Turning
  <2>2. CASE ~Cancel
    <3>1. pc' \in Outside
      BY <1>3, <2>2, ErrorPlaces DEF Crash, Exit, Down, Conflict, PrepareFails, RunFails,
         SourceChanged, Dequeue, Return, Fail, Outside
    <3>2. QED
      BY <3>1 DEF Outside, Turning
  <2>3. QED
    BY <2>1, <2>2
<1>4. CASE Interrupt \/ Dispatch \/ Reveal \/ EnsureConflict \/ RoundsExhausted \/ Adopt \/ Itemize
           \/ Observe \/ BackToReview \/ Reconvene
           \/ Reviewed("recorder_answer", "answered") \/ Reviewed("recorder_opening", "reopen")
  <2>1. pc' \in Outside \cup {"prepare", "conflict", "round", "record", "verify", "review",
                               "answered", "reopen"}
    <3>1. CASE Dispatch
      BY <3>1, ThenFacts DEF Dispatch, Outside
    <3>2. CASE ~Dispatch
      BY <1>4, <3>2, ThenFacts DEF Interrupt, Reveal, EnsureConflict, RoundsExhausted, Adopt,
         Itemize, Observe, BackToReview, Reconvene, Reviewed, Outside
    <3>3. QED
      BY <3>1, <3>2
  <2>2. QED
    BY <2>1 DEF Outside, Turning
<1>5. CASE RunStarts \/ RunInvalid
  <2>1. UNCHANGED <<row, result, contents, items>>
    BY <1>5 DEF RunStarts, RunInvalid, row
  <2>2. local'.seat = local.seat /\ local'.agree = local.agree
    BY <1>t, <1>5 DEF RunStarts, RunInvalid, Idle, Locals
  <2>3. pc' = pc \/ pc' \in {"giveup", "exit", "failing"}
    BY <1>5, ErrorPlaces, ThenFacts DEF RunStarts, RunInvalid
  <2>4. QED
    BY <2>1, <2>2, <2>3 DEF Stays, Unseen, Turning
<1>6. CASE \E d \in Designers : \/ ProposalStarts(d) \/ ProposalValid(d) \/ ProposalInvalid(d)
                                \/ ProposalFails(d) \/ ProposalConflicts(d)
  BY <1>6 DEF ProposalStarts, ProposalValid, ProposalInvalid, ProposalFails, ProposalConflicts,
     Unfinished, Stays, Unseen
<1>7. QED
  BY <1>1, <1>2, <1>3, <1>4, <1>5, <1>6 DEF Next, Command, Work, Trouble

\* What is said keeps what was said.
LEMMA Said ==
    ASSUME Parts, NEW x \in Content, contents' = Append(contents, x),
           UNCHANGED <<row, result>>
    PROVE  /\ x.kind # "proposal" => HaveProposed' = HaveProposed
           /\ x.kind # "position" => UNCHANGED <<HaveSpoken, HaveAccepted>>
           /\ x.kind # "verification" => Cleared' = Cleared
<1>1. x.kind # "proposal" => HaveProposed' = HaveProposed
  BY Extended DEF HaveProposed, Proposes, row
<1>2. x.kind # "position" => UNCHANGED <<HaveSpoken, HaveAccepted>>
  BY Extended DEF HaveSpoken, HaveAccepted, Spoke, row
<1>3. x.kind # "verification" => Cleared' = Cleared
  BY Extended DEF Cleared
<1>4. QED
  BY <1>1, <1>2, <1>3

LEMMA RefusedSame == UNCHANGED <<result, items>> => Refused' = Refused
  BY DEF Refused

\* The verdict that was given last counts.
LEMMA JudgedFacts ==
    ASSUME Control, ResultIsItemized, NEW clear \in BOOLEAN, Verified(clear)
    PROVE  Cleared' = clear /\ local'.agree = clear /\ status = "verifying"
<1>t. Parts /\ Placed
  BY DEF Control
<1>1. /\ UNCHANGED <<row, result>> /\ pc = "verify"
      /\ local' = [Idle(local) EXCEPT !.agree = clear]
      /\ AddContent("verification", Verifier, clear)
  BY DEF Verified, At
<1>2. local'.agree = clear
  BY <1>t, <1>1 DEF Parts, LocalTyped, Locals, Idle
<1>3. PICK x \in Content : /\ contents' = Append(contents, x)
                           /\ x.kind = "verification" /\ x.ok = clear
  <2>1. "verification" \in Kinds /\ Verifier \in Seats
    BY SeatsTyped DEF Kinds
  <2>2. QED
    BY <1>t, <1>1, <2>1, AddedContent
<1>4. status = "verifying" /\ result \in DOMAIN contents
  BY <1>t, <1>1, StatusSets DEF Placed, ResultIsItemized
<1>5. /\ Len(contents) + 1 \in DOMAIN contents' /\ contents'[Len(contents) + 1] = x
      /\ Len(contents) + 1 > result' /\ Len(contents) + 1 \in Nat
      /\ \A i \in DOMAIN contents' : i \in Nat /\ ~(i > Len(contents) + 1)
  BY <1>t, <1>1, <1>3, <1>4, Extended
<1>6. clear => Cleared'
  BY <1>3, <1>5 DEF Cleared
<1>7. Cleared' => clear
  <2>1. ASSUME NEW v \in DOMAIN contents', contents'[v].ok,
               \A i \in DOMAIN contents' : i > v => contents'[i].kind # "verification"
        PROVE  clear
    <3>1. v = Len(contents) + 1
      BY <1>3, <1>5, <2>1
    <3>2. QED
      BY <1>3, <1>5, <2>1, <3>1
  <2>2. QED
    BY <2>1 DEF Cleared
<1>8. Cleared' \in BOOLEAN
  BY DEF Cleared
<1>9. QED
  BY <1>2, <1>4, <1>6, <1>7, <1>8

\* The positions of a round are taken in roster order, by every seat so far.
LEMMA InOrder ==
    ASSUME Voices, InTurn, pc = "seat"
    PROVE  /\ HaveSpoken = 1..(local.seat - 1)
           /\ local.seat \in Designers /\ local.seat \in Nat
<1>t. Parts /\ Ordered /\ local.seat \in Designers
  BY DEF Voices, Rounds, Control, Counted
<1>1. \A d \in HaveSpoken : d \in Designers /\ d < local.seat
  BY <1>t DEF HaveSpoken, Ordered
<1>2. \A d \in Designers : d < local.seat => d \in HaveSpoken
  BY DEF InTurn
<1>3. NumDesigners \in Nat
  BY MeetingAssumption
<1>4. /\ local.seat \in Nat
      /\ \A d : d \in 1..(local.seat - 1) <=> d \in Designers /\ d < local.seat
  BY <1>t, <1>3 DEF Designers
<1>5. QED
  BY <1>t, <1>1, <1>2, <1>4

\* Contents are dated, and the Result is one of them.
LEMMA Growing ==
    ASSUME Rounds, [Next]_vars
    PROVE  /\ cycle' = cycle \/ cycle' = cycle + 1
           /\ \/ contents' = contents
              \/ \E x \in Content : contents' = Append(contents, x) /\ x.cycle = cycle'
           /\ result' = result \/ (result' \in DOMAIN contents /\ contents' = contents)
<1>t. Control /\ Parts
  BY DEF Rounds, Control
<1>1. CASE Quiet
  BY <1>1 DEF Quiet, row
<1>2. CASE Commands
  <2> DEFINE new == [kind |-> "human_input", seat |-> Human, cycle |-> cycle + 1,
                     round |-> 0, ok |-> TRUE]
  <2>1. new \in Content /\ new.cycle = cycle + 1
    BY <1>t, SeatsTyped DEF Parts, RowTyped, Content, Kinds
  <2>2. CASE Answer
    <3>1. contents' = Append(contents, new) /\ cycle' = cycle + 1 /\ result' = result
      BY <2>2 DEF Answer, SetStatus
    <3> HIDE DEF new
    <3>2. QED
      BY <2>1, <3>1
  <2>3. CASE ~Answer
    BY <1>t, <1>2, <2>3, CommandsFree
  <2>4. QED
    BY <2>2, <2>3
<1>3. CASE Writes
  <2>1. PICK kind \in Kinds, seat \in Seats, ok \in BOOLEAN : AddContent(kind, seat, ok)
    BY <1>3, SeatsTyped DEF Writes, Recorded, Verified, Reviewed, ResultKind, Kinds
  <2>2. QED
    BY <1>t, <1>3, <2>1, AddedContent, WritesFacts DEF row
<1>4. CASE Turns
  <2>1. cycle' = cycle \/ cycle' = cycle + 1
    BY <1>4, TurnsRow
  <2>2. result' = result \/ result' \in DOMAIN contents
    BY <1>4, TurnsFacts DEF Itemize
  <2>3. QED
    BY <1>4, <2>1, <2>2, TurnsFacts
<1>5. CASE OpenBatch
  BY <1>5 DEF OpenBatch, db, row
<1>6. CASE EnsureConflict \/ CloseRound \/ NextRound \/ Adopt
  BY <1>t, <1>6, EnsureFacts, CloseFacts, RoundFacts, AdoptFacts DEF row
<1>7. ASSUME NEW d \in Designers, KeepProposal(d)
      PROVE  /\ UNCHANGED <<cycle, result>>
             /\ \E x \in Content : contents' = Append(contents, x) /\ x.cycle = cycle'
  BY <1>t, <1>7, ProposalFacts DEF row
<1>8. ASSUME NEW ok \in BOOLEAN, Position(ok)
      PROVE  /\ UNCHANGED <<cycle, result>>
             /\ \E x \in Content : contents' = Append(contents, x) /\ x.cycle = cycle'
  BY <1>t, <1>8, PositionFacts DEF row
<1>9. QED
  BY <1>t, <1>1, <1>2, <1>3, <1>4, <1>5, <1>6, <1>7, <1>8, Steps

LEMMA InitFollowing == Init => Following
<1> SUFFICES ASSUME Init PROVE InTurn
  BY InitBarrier, InitOwnership, InitVoices, InitConsensus, InitVerdict DEF Following
<1>1. DOMAIN contents = {} /\ Len(contents) = 0
  BY EmptyFacts DEF Init
<1>2. QED
  BY <1>1 DEF Init, InTurn

\* A Result that was just written is the newest content, and not refused.
LEMMA WrittenFacts ==
    ASSUME Control, InTurn, Recorded \/ Reviewed("meeting_result", "itemize")
    PROVE  /\ result' < Len(contents') /\ contents'[Len(contents')].kind = ResultKind
           /\ status' = "recorder_reviewing" => ~Refused'
<1>t. Parts /\ Placed /\ ByProtocol
  BY DEF Control
<1>1. UNCHANGED <<row, result, items>>
  BY DEF Recorded, Reviewed
<1>2. AddContent(ResultKind, Recorder, TRUE)
  <2>1. CASE Recorded
    BY <2>1 DEF Recorded
  <2>2. CASE Reviewed("meeting_result", "itemize")
    <3>1. status = "recorder_reviewing"
      BY <1>t, <2>2, StatusSets DEF Reviewed, At, Placed
    <3>2. Protocol = 2
      BY <1>t, <3>1, MeetingAssumption DEF ByProtocol
    <3>3. QED
      BY <2>2, <3>2 DEF Reviewed, ResultKind
  <2>3. QED
    BY <2>1, <2>2
<1>3. PICK x \in Content : contents' = Append(contents, x) /\ x.kind = ResultKind
  <2>1. PICK kind \in Kinds, seat \in Seats, ok \in BOOLEAN :
           AddContent(kind, seat, ok) /\ kind = ResultKind
    BY <1>2, SeatsTyped DEF ResultKind, Kinds
  <2>2. QED
    BY <1>t, <2>1, AddedContent
<1>4. /\ Len(contents) \in Nat /\ Len(contents') = Len(contents) + 1
      /\ contents'[Len(contents) + 1] = x
  BY <1>t, <1>3, Extended, AppendFacts DEF Parts, ContentsTyped
<1>5. result' < Len(contents') /\ contents'[Len(contents')].kind = ResultKind
  BY <1>t, <1>1, <1>3, <1>4 DEF InTurn, Parts, ResultTyped
<1>6. status' = "recorder_reviewing" => ~Refused'
  <2>1. CASE Recorded
    BY <1>t, <1>1, <2>1, StatusSets DEF Recorded, At, Placed, row
  <2>2. CASE Reviewed("meeting_result", "itemize")
    BY <1>1, <2>2 DEF Reviewed, Refused
  <2>3. QED
    BY <2>1, <2>2
<1>7. QED
  BY <1>5, <1>6

LEMMA NextInTurn == Following /\ [Next]_vars => InTurn'
<1> SUFFICES ASSUME Following, [Next]_vars PROVE InTurn'
  OBVIOUS
<1>t. /\ Control /\ Rounds /\ Voices /\ Parts /\ Parts' /\ Placed /\ ResultIsItemized /\ InTurn
      /\ cycle \in Nat /\ result \in Nat
  BY NextTyped DEF Following, Voices, Rounds, Verdict, Itemized, Control, Parts, RowTyped, ResultTyped
<1>g. /\ cycle' = cycle \/ cycle' = cycle + 1
      /\ \/ contents' = contents
         \/ \E x \in Content : contents' = Append(contents, x) /\ x.cycle = cycle'
      /\ result' = result \/ (result' \in DOMAIN contents /\ contents' = contents)
  BY <1>t, Growing
<1>l. contents \in Seq(Content) /\ DOMAIN contents = 1..Len(contents) /\ Len(contents) \in Nat
  BY <1>t DEF Parts, ContentsTyped
<1>1. \A i \in DOMAIN contents' : contents'[i].cycle <= cycle'
  <2>0. \A i \in DOMAIN contents : contents[i].cycle <= cycle /\ contents[i].cycle \in Nat
    BY <1>t, ContentsKnown DEF InTurn
  <2>1. CASE contents' = contents
    BY <1>t, <1>g, <2>0, <2>1
  <2>2. ASSUME NEW x \in Content, contents' = Append(contents, x), x.cycle = cycle'
        PROVE  \A i \in DOMAIN contents' : contents'[i].cycle <= cycle'
    BY <1>t, <1>g, <2>0, <2>2, Extended
  <2>3. QED
    BY <1>g, <2>1, <2>2
<1>2. result' <= Len(contents')
  <2>1. Len(contents') = Len(contents) \/ Len(contents') = Len(contents) + 1
    BY <1>g, <1>l, AppendFacts
  <2>2. result <= Len(contents)
    BY <1>t DEF InTurn
  <2>3. CASE result' = result
    BY <1>t, <1>l, <2>1, <2>2, <2>3
  <2>4. CASE result' \in DOMAIN contents /\ contents' = contents
    BY <1>l, <2>4
  <2>5. QED
    BY <1>g, <2>3, <2>4
<1> DEFINE Here ==
       /\ pc' \in {"batch", "collect", "reveal"} => status' = "sealed_proposals"
       /\ pc' \in {"seat", "close", "adopt"} => status' = "deliberating"
       /\ pc' = "seat" => \A d \in Designers : d < local'.seat => d \in HaveSpoken'
       /\ pc' = "itemize" => /\ result' < Len(contents')
                             /\ contents'[Len(contents')].kind = ResultKind
                             /\ status' = "recorder_reviewing" => ~Refused'
       /\ pc' = "observe" /\ Cleared' => local'.agree
<1>3. ASSUME pc' \notin Turning PROVE Here
  BY <1>3 DEF Turning
<1>4. ASSUME Stays PROVE Here
  <2>1. /\ UNCHANGED <<pc, status, result, contents, HaveSpoken, Cleared, Refused>>
        /\ local'.seat = local.seat /\ local'.agree = local.agree
    BY <1>4, UnseenFacts DEF Stays, Unseen, row
  <2>2. QED
    BY <1>t, <2>1 DEF InTurn
<1>5. ASSUME Prepare PROVE Here
  <2>1. pc = "prepare" /\ pc' \in {"batch", "exit", "failing"}
    BY <1>5, ThenFacts DEF Prepare, At
  <2>2. status \in {"preparing", "sealed_proposals"}
    BY <1>t, <2>1, StatusSets DEF Placed
  <2>3. status' = "sealed_proposals"
    BY <1>5, <2>2 DEF Prepare, SetStatus, row
  <2>4. QED
    BY <2>1, <2>3
<1>6. ASSUME OpenBatch \/ Collected PROVE Here
  <2>1. /\ status' = status /\ pc \in {"batch", "collect"}
        /\ pc' \in {"collect", "reveal", "exit", "failing"}
    BY <1>6, ErrorPlaces DEF OpenBatch, Collected, At, db
  <2>2. QED
    BY <1>t, <2>1 DEF InTurn
<1>7. ASSUME NEW d \in Designers, KeepProposal(d) PROVE Here
  <2>1. status' = status /\ pc = "collect" /\ pc' \in {"collect", "exit", "failing"}
    BY <1>t, <1>7, ProposalFacts DEF row
  <2>2. QED
    BY <1>t, <2>1 DEF InTurn
<1>8. ASSUME NextRound PROVE Here
  <2>1. /\ status' = "deliberating" /\ local'.seat = 1
        /\ pc' \in {"seat", "close", "exit", "failing"}
    BY <1>t, <1>8, RoundFacts
  <2>2. \A d \in Designers : ~(d < 1)
    BY MeetingAssumption DEF Designers
  <2>3. QED
    BY <2>1, <2>2
<1>9. ASSUME CloseRound PROVE Here
  <2>1. status' = status /\ pc = "close" /\ pc' \in {"round", "adopt", "exit", "failing"}
    BY <1>9, CloseFacts DEF row
  <2>2. QED
    BY <1>t, <2>1 DEF InTurn
<1>10. ASSUME NEW ok \in BOOLEAN, Position(ok) PROVE Here
  <2>1. PICK x \in Content : /\ contents' = Append(contents, x)
                             /\ x.kind = "position" /\ x.seat = local.seat
                             /\ x.cycle = cycle /\ x.round = round
    BY <1>t, <1>10, PositionFacts
  <2>2. /\ UNCHANGED <<status, cycle, round>> /\ pc = "seat"
        /\ pc' \in {"seat", "close", "exit", "failing"}
        /\ pc' = "seat" => local'.seat = local.seat + 1
    BY <1>t, <1>10, PositionFacts DEF row
  <2>3. local.seat \in Nat /\ \A d \in Designers : d \in Nat
    BY <1>t, <2>2, InOrder DEF Designers
  <2>4. ASSUME pc' = "seat", NEW d \in Designers, d < local'.seat PROVE d \in HaveSpoken'
    <3>1. CASE d < local.seat
      <4>1. d \in HaveSpoken
        BY <1>t, <2>2, <3>1 DEF InTurn
      <4>2. QED
        BY <1>t, <2>1, <2>2, <4>1, Extended DEF HaveSpoken, Spoke
    <3>2. CASE d = local.seat
      <4>1. Len(contents) + 1 \in DOMAIN contents' /\ contents'[Len(contents) + 1] = x
        BY <1>t, <2>1, Extended
      <4>2. QED
        BY <2>1, <2>2, <3>2, <4>1 DEF HaveSpoken, Spoke
    <3>3. QED
      BY <2>2, <2>3, <2>4, <3>1, <3>2
  <2>5. QED
    BY <1>t, <2>2, <2>4 DEF InTurn
<1>11. ASSUME Recorded \/ Reviewed("meeting_result", "itemize") PROVE Here
  <2>1. pc' \in {"itemize", "exit", "failing"}
    BY <1>11, ThenFacts DEF Recorded, Reviewed
  <2>2. QED
    BY <1>t, <1>11, <2>1, WrittenFacts
<1>12. ASSUME NEW ok \in BOOLEAN, Verified(ok) PROVE Here
  <2>1. pc' \in {"observe", "exit", "failing"}
    BY <1>12, ThenFacts DEF Verified
  <2>2. QED
    BY <1>t, <1>12, <2>1, JudgedFacts
<1>13. Here
  <2> HIDE DEF Here
  <2>1. QED
    BY <1>t, <1>3, <1>4, <1>5, <1>6, <1>7, <1>8, <1>9, <1>10, <1>11, <1>12, Arrives
<1>14. QED
  BY <1>1, <1>2, <1>13 DEF InTurn

LEMMA NextFollowing == Following /\ [Next]_vars => Following'
  BY NextBarrier, NextOwnership, NextVoices, NextConsensus, NextVerdict, NextInTurn DEF Following

\* What the participants see of a step: one of their own, or nothing.
Seen == /\ Meets!Step \/ UNCHANGED <<Meets!turn, Meets!discussion, Meets!outcome>>
        /\ cancelled' \in BOOLEAN

LEMMA UnseenSeen == Unseen /\ cancelled' \in BOOLEAN => Seen
  BY UnseenFacts DEF Unseen, row, Seen, Meets!turn, Meets!discussion, Meets!outcome

LEMMA CommandsSeen ==
    ASSUME Following, Commands, cancelled' \in BOOLEAN
    PROVE  Seen
<1>t. /\ Control /\ Parts /\ Placed /\ ByProtocol /\ InTurn /\ Ordered /\ Counted
      /\ ResultIsItemized /\ cycle \in Nat
  BY DEF Following, Verdict, Itemized, Voices, Rounds, Control, Parts, RowTyped
<1>1. CASE Start
  <2>1. /\ status = "draft" /\ status' = "preparing" /\ UNCHANGED <<cycle, round>> /\ round = 0
        /\ UNCHANGED <<result, contents, items>>
    BY <1>t, <1>1 DEF Start, SetStatus, Counted, Before
  <2>2. UNCHANGED <<HaveProposed, HaveSpoken, HaveAccepted, Cleared, Refused>>
    BY <2>1 DEF HaveProposed, Proposes, HaveSpoken, Spoke, HaveAccepted, Cleared, Refused
  <2>3. Meets!Start
    BY <2>1, <2>2 DEF Meets!Start, Meets!Turn, Meets!discussion, Meets!outcome
  <2>4. QED
    BY <2>3 DEF Seen, Meets!Step
<1>2. CASE Answer
  <2>1. /\ status = "needs_user_input" /\ status' = "deliberating" /\ cycle' = cycle + 1 /\ round' = 0
        /\ UNCHANGED <<result, items>>
    BY <1>2 DEF Answer, SetStatus
  <2>2. Protocol = 1
    BY <1>t, <2>1, MeetingAssumption DEF ByProtocol
  <2>3. PICK x \in Content : /\ contents' = Append(contents, x)
                             /\ x.kind = "human_input"
    <3> DEFINE new == [kind |-> "human_input", seat |-> Human, cycle |-> cycle + 1,
                       round |-> 0, ok |-> TRUE]
    <3>1. contents' = Append(contents, new) /\ new \in Content /\ new.kind = "human_input"
      BY <1>t, <1>2, SeatsTyped DEF Answer, Content, Kinds
    <3> HIDE DEF new
    <3>2. QED
      BY <3>1
  <2>4. \A i \in DOMAIN contents' : ~Spoke(i)'
    <3>1. \A i \in DOMAIN contents : contents[i].cycle <= cycle /\ contents[i].cycle \in Nat
      BY <1>t, ContentsKnown DEF InTurn
    <3>2. QED
      BY <1>t, <2>1, <2>3, <3>1, Extended DEF Spoke
  <2>5. HaveSpoken' = {} /\ HaveAccepted' = {}
    BY <2>4 DEF HaveSpoken, HaveAccepted
  <2>6. HaveProposed' = HaveProposed
    BY <1>t, <2>2, <2>3, Extended DEF HaveProposed, Proposes
  <2>7. Cleared' = Cleared
    BY <1>t, <2>1, <2>3, Extended DEF Cleared
  <2>8. Refused' = Refused
    BY <2>1, RefusedSame
  <2>9. Meets!Answer
    BY <2>1, <2>5, <2>6, <2>7, <2>8 DEF Meets!Answer, Meets!Turn, Meets!Silence, Meets!outcome
  <2>10. QED
    BY <2>9 DEF Seen, Meets!Step
<1>3. CASE Approve \/ \E d \in {"selected", "rejected", "deferred"} :
             Continue(d) \/ \E i \in DOMAIN items : Disposition(i, d)
  <2>1. UNCHANGED <<cycle, round, result, contents>>
    BY <1>3 DEF Approve, Continue, Disposition, SetStatus, row
  <2>2. UNCHANGED <<HaveProposed, HaveSpoken, HaveAccepted, Cleared>>
    BY <2>1 DEF HaveProposed, Proposes, HaveSpoken, Spoke, HaveAccepted, Cleared
  <2>3. CASE Approve
    <3>1. /\ status = "awaiting_user_review" /\ status' = "concluded"
          /\ items[result] # "rejected" /\ items' = [items EXCEPT ![result] = "selected"]
      BY <2>3 DEF Approve, SetStatus
    <3>2. result \in DOMAIN items
      BY <1>t, <3>1 DEF ResultIsItemized
    <3>3. ~Refused /\ ~Refused'
      BY <2>1, <3>1, <3>2 DEF Refused
    <3>4. Meets!Conclude
      BY <2>1, <2>2, <3>1, <3>3 DEF Meets!Conclude, Meets!Turn, Meets!discussion, Meets!outcome, Refused
    <3>5. QED
      BY <3>4 DEF Seen, Meets!Step
  <2>4. ASSUME NEW d \in {"selected", "rejected", "deferred"}, Continue(d) PROVE Seen
    <3>1. /\ status = "awaiting_user_review" /\ status' = "recorder_reviewing"
          /\ items[result] = "rejected" => d = "rejected"
          /\ items' = [items EXCEPT ![result] = d] /\ Protocol = 2
      BY <2>4 DEF Continue, SetStatus
    <3>2. result \in DOMAIN items
      BY <1>t, <3>1 DEF ResultIsItemized
    <3>3. (Refused => Refused') /\ Refused' \in BOOLEAN
      BY <2>1, <3>1, <3>2 DEF Refused
    <3>4. Meets!SendBack
      BY <2>1, <2>2, <3>1, <3>3 DEF Meets!SendBack, Meets!Turn, Meets!discussion
    <3>5. QED
      BY <3>4 DEF Seen, Meets!Step
  <2>5. ASSUME NEW d \in {"selected", "rejected", "deferred"}, NEW i \in DOMAIN items,
               Disposition(i, d)
        PROVE  Seen
    <3>1. /\ status = "awaiting_human"
          /\ \/ status' = status
             \/ status' = "concluded"
      BY <2>5 DEF Disposition, SetStatus, row
    <3>2. Protocol = 1
      BY <1>t, <3>1, MeetingAssumption DEF ByProtocol
    <3>3. Refused' = Refused
      BY <3>2 DEF Refused
    <3>4. CASE status' = status
      BY <2>1, <2>2, <3>3, <3>4 DEF Seen, Meets!turn, Meets!discussion, Meets!outcome
    <3>5. CASE status' = "concluded"
      <4>1. Meets!Conclude
        BY <2>1, <2>2, <3>1, <3>3, <3>5 DEF Meets!Conclude, Meets!Turn, Meets!discussion, Meets!outcome
      <4>2. QED
        BY <4>1 DEF Seen, Meets!Step
    <3>6. QED
      BY <3>1, <3>4, <3>5
  <2>6. QED
    BY <1>3, <2>3, <2>4, <2>5
<1>4. QED
  BY <1>1, <1>2, <1>3 DEF Commands

LEMMA WritesSeen ==
    ASSUME Following, Writes, cancelled' \in BOOLEAN
    PROVE  Seen
<1>t. Control /\ Parts /\ Placed /\ ResultIsItemized
  BY DEF Following, Verdict, Itemized, Control
<1>1. UNCHANGED <<row, result, items>> /\ Refused' = Refused
  BY <1>t, WritesFacts, RefusedSame
<1>2. PICK x \in Content : /\ contents' = Append(contents, x)
                           /\ x.kind \notin {"proposal", "position"}
  BY <1>t, WritesFacts
<1>3. UNCHANGED <<HaveProposed, HaveSpoken, HaveAccepted>>
  BY <1>t, <1>1, <1>2, Said
<1>4. ASSUME NEW clear \in BOOLEAN, Verified(clear) PROVE Seen
  <2>1. Cleared' = clear /\ status = "verifying"
    BY <1>t, <1>4, JudgedFacts
  <2>2. Meets!Judge(clear)
    BY <1>1, <1>3, <2>1 DEF Meets!Judge, Meets!turn, Meets!discussion, row
  <2>3. QED
    BY <1>4, <2>2 DEF Seen, Meets!Step
<1>5. ASSUME ~\E clear \in BOOLEAN : Verified(clear) PROVE Seen
  <2>1. PICK kind \in Kinds \ {"verification"}, seat \in Seats, ok \in BOOLEAN :
           AddContent(kind, seat, ok)
    BY <1>5, SeatsTyped DEF Writes, Recorded, Reviewed, ResultKind, Kinds
  <2>2. PICK y \in Content : contents' = Append(contents, y) /\ y.kind # "verification"
    BY <1>t, <2>1, AddedContent
  <2>3. Cleared' = Cleared
    BY <1>t, <1>1, <2>2, Said
  <2>4. QED
    BY <1>1, <1>3, <2>3 DEF Seen, Meets!turn, Meets!discussion, Meets!outcome, row
<1>6. QED
  BY <1>4, <1>5

\* Nothing is said while the Meeting changes its status.
LEMMA SilentTurn ==
    ASSUME UNCHANGED <<result, contents, items, cycle>>, round' = round
    PROVE  UNCHANGED <<HaveProposed, HaveSpoken, HaveAccepted, Cleared, Refused>>
  BY DEF HaveProposed, Proposes, HaveSpoken, Spoke, HaveAccepted, Cleared, Refused

LEMMA OfferSeen ==
    ASSUME Following, Itemize
    PROVE  Meets!Offer
<1>t. Control /\ Parts /\ Placed /\ InTurn /\ result \in Nat
  BY DEF Following, Ownership, Control, Parts, ResultTyped
<1>1. /\ pc = "itemize" /\ UNCHANGED <<contents, cycle, round>>
      /\ status' = IF Protocol = 2 THEN "awaiting_user_review" ELSE "verifying"
  BY DEF Itemize, At, SetStatus
<1>2. /\ status \in {"recording", "recorder_reviewing"}
      /\ status = "recorder_reviewing" => ~Refused
      /\ result < Len(contents) /\ contents[Len(contents)].kind = ResultKind
  BY <1>t, <1>1, StatusSets DEF Placed, InTurn
<1>3. DOMAIN contents = 1..Len(contents) /\ Len(contents) \in Nat
  BY <1>t DEF Parts, ContentsTyped
<1>4. PICK r \in DOMAIN contents :
         /\ \A i \in DOMAIN contents : contents[i].kind = ResultKind => i <= r
         /\ result' = r
         /\ items' = [i \in DOMAIN items \cup {r} |-> IF i = r THEN "proposed" ELSE items[i]]
  BY DEF Itemize
<1>5. r = Len(contents)
  BY <1>t, <1>2, <1>3, <1>4
<1>6. result' \in Nat /\ result' > result
  BY <1>t, <1>2, <1>3, <1>4, <1>5
<1>7. ~Cleared'
  BY <1>1, <1>3, <1>4, <1>5 DEF Cleared
<1>8. ~Refused'
  BY <1>4 DEF Refused
<1>9. UNCHANGED <<HaveProposed, HaveSpoken, HaveAccepted>>
  BY <1>1 DEF HaveProposed, Proposes, HaveSpoken, Spoke, HaveAccepted
<1>10. Cleared' = FALSE /\ Refused' = FALSE
  BY <1>7, <1>8 DEF Cleared, Refused
<1>11. QED
  BY <1>1, <1>2, <1>6, <1>9, <1>10 DEF Meets!Offer, Meets!Turn, Meets!discussion

LEMMA TurnsSeen ==
    ASSUME Following, Turns, cancelled' \in BOOLEAN
    PROVE  Seen
<1>t. /\ Control /\ Parts /\ Placed /\ ByProtocol /\ InTurn /\ Counted /\ Sealed /\ Ownership /\ OneOwner
      /\ cycle \in Nat /\ round \in Nat
  BY DEF Following, Barrier, Ownership, Voices, Rounds, Control, Parts, RowTyped
<1>s. contents' = contents /\ (Itemize \/ UNCHANGED <<result, items>>)
  BY TurnsFacts
<1>1. CASE Itemize
  BY <1>1, OfferSeen DEF Seen, Meets!Step
<1>2. CASE Dispatch \/ Prepare
  <2>1. CASE UNCHANGED row
    BY <1>2, <2>1, <1>s, UnseenSeen DEF Unseen, Dispatch, Prepare
  <2>2. CASE ~(UNCHANGED row)
    <3>1. /\ status \in {"preparing", "reconvening"} /\ status' = "sealed_proposals"
          /\ cycle' = cycle /\ round' = 0 /\ UNCHANGED <<result, items>>
      BY <1>2, <2>2 DEF Dispatch, Prepare, SetStatus
    <3>2. round = 0
      BY <1>t, <3>1 DEF Counted, Before
    <3>3. UNCHANGED <<HaveProposed, HaveSpoken, HaveAccepted, Cleared, Refused>>
      BY <1>s, <3>1, <3>2, SilentTurn
    <3>4. Meets!Convene
      BY <3>1, <3>3 DEF Meets!Convene, Meets!Turn, Meets!discussion, Meets!outcome
    <3>5. QED
      BY <3>4 DEF Seen, Meets!Step
  <2>3. QED
    BY <2>1, <2>2
<1>3. CASE Reveal
  <2>1. /\ pc = "reveal" /\ cycle' = cycle /\ round' = 0 /\ UNCHANGED <<result, items>>
        /\ status' = IF Protocol = 2 /\ NumDesigners = 0 THEN "recording" ELSE "revealed"
    BY <1>3 DEF Reveal, At, SetStatus
  <2>2. status = "sealed_proposals" /\ round = 0
    BY <1>t, <2>1 DEF InTurn, Counted, Before
  <2>3. HaveProposed = Meets!Designers
    BY <1>t, <2>1 DEF Sealed, AllProposed, Round1, HaveProposed, Designers, Meets!Designers
  <2>4. UNCHANGED <<HaveProposed, HaveSpoken, HaveAccepted, Cleared, Refused>>
    BY <1>s, <2>1, <2>2, SilentTurn
  <2>5. Meets!Reveal
    BY <2>1, <2>2, <2>3, <2>4 DEF Meets!Reveal, Meets!Turn, Meets!discussion, Meets!outcome
  <2>6. QED
    BY <2>5 DEF Seen, Meets!Step
<1>4. CASE RoundsExhausted
  <2>1. /\ pc = "round" /\ local.round >= MaxRounds /\ cycle' = cycle /\ round' = MaxRounds
        /\ UNCHANGED <<result, items>>
        /\ status' = IF Protocol = 2 THEN "recording" ELSE "needs_user_input"
    BY <1>4 DEF RoundsExhausted, At, SetStatus
  <2>2. status \in {"revealed", "deliberating"}
    BY <1>t, <2>1, StatusSets DEF Placed
  <2>3. round = MaxRounds
    BY <1>t, <2>1, MeetingAssumption DEF Counted
  <2>4. UNCHANGED <<HaveProposed, HaveSpoken, HaveAccepted, Cleared, Refused>>
    BY <1>s, <2>1, <2>3, SilentTurn
  <2>5. Meets!Exhaust
    BY <2>1, <2>2, <2>3, <2>4 DEF Meets!Exhaust, Meets!Turn, Meets!discussion, Meets!outcome
  <2>6. QED
    BY <2>5 DEF Seen, Meets!Step
<1>5. CASE Observe
  <2>1. /\ pc = "observe" /\ UNCHANGED <<cycle, round, result, items>>
        /\ status' = IF local.agree THEN "awaiting_human" ELSE "needs_user_input"
    BY <1>5 DEF Observe, At, SetStatus
  <2>2. status = "verifying"
    BY <1>t, <2>1, StatusSets DEF Placed
  <2>3. local.agree <=> Cleared
    BY <1>t, <2>1 DEF Following, Verdict, InTurn
  <2>4. UNCHANGED <<HaveProposed, HaveSpoken, HaveAccepted, Cleared, Refused>>
    BY <1>s, <2>1, SilentTurn
  <2>5. status' = IF Cleared THEN "awaiting_human" ELSE "needs_user_input"
    BY <2>1, <2>3
  <2>6. Meets!Present
    BY <2>1, <2>2, <2>4, <2>5 DEF Meets!Present, Meets!Turn, Meets!discussion, Meets!outcome
  <2>7. QED
    BY <2>6 DEF Seen, Meets!Step
<1>6. CASE BackToReview
  <2>1. /\ pc \in {"answered", "giveup"} /\ UNCHANGED <<cycle, round, result, items>>
        /\ status' = "awaiting_user_review"
    BY <1>6 DEF BackToReview, At, SetStatus
  <2>2. status = "recorder_reviewing"
    BY <1>t, <2>1, StatusSets DEF Placed
  <2>3. UNCHANGED <<HaveProposed, HaveSpoken, HaveAccepted, Cleared, Refused>>
    BY <1>s, <2>1, SilentTurn
  <2>4. Meets!Explain
    BY <2>1, <2>2, <2>3 DEF Meets!Explain, Meets!Turn, Meets!discussion, Meets!outcome
  <2>5. QED
    BY <2>4 DEF Seen, Meets!Step
<1>7. CASE Reconvene
  <2>1. /\ pc = "reopen" /\ cycle' = cycle + 1 /\ round' = 0 /\ UNCHANGED <<result, items>>
        /\ status' = "reconvening"
    BY <1>7 DEF Reconvene, At, SetStatus
  <2>2. status = "recorder_reviewing"
    BY <1>t, <2>1, StatusSets DEF Placed
  <2>3. Protocol = 2
    BY <1>t, <2>2, MeetingAssumption DEF ByProtocol
  <2>4. \A i \in DOMAIN contents' : contents'[i].cycle # cycle'
    <3>1. \A i \in DOMAIN contents : contents[i].cycle <= cycle /\ contents[i].cycle \in Nat
      BY <1>t, ContentsKnown DEF InTurn
    <3>2. QED
      BY <1>t, <1>s, <2>1, <3>1
  <2>5. HaveProposed' = {} /\ HaveSpoken' = {} /\ HaveAccepted' = {}
    BY <2>3, <2>4 DEF HaveProposed, Proposes, HaveSpoken, Spoke, HaveAccepted
  <2>6. UNCHANGED <<Cleared, Refused>>
    BY <1>s, <2>1 DEF Cleared, Refused
  <2>7. Meets!Reconvene
    BY <2>1, <2>2, <2>5, <2>6 DEF Meets!Reconvene, Meets!Turn, Meets!Silence, Meets!outcome
  <2>8. QED
    BY <2>7 DEF Seen, Meets!Step
<1>8. CASE Fail
  <2>1. /\ pc = "failing" /\ UNCHANGED <<cycle, round, result, items>> /\ status' = "failed"
    BY <1>8 DEF Fail, SetStatus
  <2>2. status \in WorkerOwned \/ cancelled
    BY <1>t, <2>1 DEF OneOwner, Parts, RowTyped
  <2>3. status \in Meets!Working \/ cancelled
    BY <2>2 DEF WorkerOwned, Meets!Working
  <2>4. UNCHANGED <<HaveProposed, HaveSpoken, HaveAccepted, Cleared, Refused>>
    BY <1>s, <2>1, SilentTurn
  <2>5. Meets!Fail
    BY <2>1, <2>3, <2>4 DEF Meets!Fail, Meets!Turn, Meets!discussion, Meets!outcome
  <2>6. QED
    BY <2>5 DEF Seen, Meets!Step
<1>9. QED
  BY <1>1, <1>2, <1>3, <1>4, <1>5, <1>6, <1>7, <1>8 DEF Turns

\* Of the designers at work, none has proposed: a proposal is a new one.
LEMMA ProposalSeen ==
    ASSUME Following, NEW d \in Designers, KeepProposal(d)
    PROVE  Meets!Propose(d)
<1>t. Control /\ Parts /\ ByProtocol /\ InTurn /\ Ordered
  BY DEF Following, Voices, Rounds, Control
<1>1. /\ UNCHANGED <<row, result, items>>
      /\ pc = "collect" /\ batch[d] = "ready" /\ status = "sealed_proposals"
  BY <1>t, ProposalFacts DEF InTurn
<1>2. PICK x \in Content : /\ contents' = Append(contents, x)
                           /\ x.kind = "proposal" /\ x.seat = d /\ x.cycle = cycle
  BY <1>t, ProposalFacts
<1>3. (IF Protocol = 2 THEN cycle ELSE 1) = cycle
  BY <1>t, <1>1, MeetingAssumption DEF ByProtocol
<1>4. d \notin HaveProposed
  BY <1>t, <1>1, <1>3 DEF Ordered, Busy, HasProposal, HaveProposed, Proposes
<1>5. HaveProposed' = HaveProposed \cup {d}
  <2>1. \A e \in Designers :
           (\E i \in DOMAIN contents' : Proposes(i, e, cycle)') <=>
               e = d \/ \E i \in DOMAIN contents : Proposes(i, e, cycle)
    BY <1>t, <1>1, <1>2, Extended DEF Proposes, row
  <2>2. QED
    BY <1>1, <1>3, <2>1 DEF HaveProposed, row
<1>6. UNCHANGED <<HaveSpoken, HaveAccepted, Cleared, Refused>>
  BY <1>t, <1>1, <1>2, Said, RefusedSame
<1>7. QED
  BY <1>1, <1>4, <1>5, <1>6 DEF Meets!Propose, Meets!turn, Meets!outcome, row

LEMMA RoundSeen ==
    ASSUME Following, NextRound
    PROVE  Meets!OpenRound
<1>t. Control /\ Placed /\ Parts /\ Rounds /\ Ordered /\ round \in Nat
  BY DEF Following, Voices, Rounds, Control, Parts, RowTyped
<1>1. /\ UNCHANGED <<result, contents, items>> /\ pc = "round"
      /\ status' = "deliberating" /\ cycle' = cycle /\ round' = round + 1
      /\ round' <= MaxRounds
  BY <1>t, RoundFacts
<1>2. status \in {"revealed", "deliberating"} /\ round < MaxRounds
  BY <1>t, <1>1, StatusSets, MeetingAssumption DEF Placed
<1>3. \A i \in DOMAIN contents' : ~Spoke(i)'
  <2>1. ASSUME NEW i \in DOMAIN contents, contents[i].kind = "position"
        PROVE  ~(contents[i].cycle = cycle /\ contents[i].round = round + 1)
    <3>1. /\ contents[i].cycle \in Nat /\ contents[i].round \in Nat
          /\ \/ contents[i].cycle < cycle
             \/ contents[i].cycle = cycle /\ contents[i].round <= round
      BY <1>t, <2>1, ContentsKnown DEF Ordered
    <3>2. cycle \in Nat
      BY <1>t DEF Parts, RowTyped
    <3>3. QED
      BY <1>t, <3>1, <3>2
  <2>2. QED
    BY <1>1, <2>1 DEF Spoke
<1>4. HaveSpoken' = {} /\ HaveAccepted' = {}
  BY <1>3 DEF HaveSpoken, HaveAccepted
<1>5. UNCHANGED <<HaveProposed, Cleared, Refused>>
  BY <1>1 DEF HaveProposed, Proposes, Cleared, Refused
<1>6. QED
  BY <1>1, <1>2, <1>4, <1>5 DEF Meets!OpenRound, Meets!Turn, Meets!Silence, Meets!outcome

LEMMA AgreeSeen ==
    ASSUME Following, Adopt
    PROVE  Meets!Agree
<1>t. Rounds /\ InTurn /\ Agreeing
  BY DEF Following, Voices, Consensus
<1>1. /\ UNCHANGED <<cycle, round, result, contents, items>>
      /\ status' = "recording" /\ pc = "adopt"
  BY <1>t, AdoptFacts
<1>2. status = "deliberating" /\ Unanimous
  BY <1>t, <1>1 DEF InTurn, Agreeing
<1>3. HaveAccepted = Meets!Designers
  BY <1>2 DEF Unanimous, HaveAccepted, Spoke, Designers, Meets!Designers
<1>4. UNCHANGED <<HaveProposed, HaveSpoken, HaveAccepted, Cleared, Refused>>
  BY <1>1, SilentTurn
<1>5. QED
  BY <1>1, <1>2, <1>3, <1>4 DEF Meets!Agree, Meets!Turn, Meets!discussion, Meets!outcome

LEMMA PositionSeen ==
    ASSUME Following, NEW ok \in BOOLEAN, Position(ok)
    PROVE  Meets!Speak(local.seat, ok) /\ local.seat \in Meets!Designers
<1>t. Control /\ Parts /\ Voices /\ InTurn
  BY DEF Following, Voices, Rounds, Control
<1>1. /\ UNCHANGED <<row, result, items>> /\ pc = "seat" /\ status = "deliberating"
  BY <1>t, PositionFacts DEF InTurn
<1>2. PICK x \in Content : /\ contents' = Append(contents, x)
                           /\ x.kind = "position" /\ x.seat = local.seat
                           /\ x.cycle = cycle /\ x.round = round /\ x.ok = ok
  BY <1>t, PositionFacts
<1>3. HaveSpoken = 1..(local.seat - 1) /\ local.seat \in Designers
  BY <1>t, <1>1, InOrder
<1>4. \A i \in DOMAIN contents : Spoke(i)' <=> Spoke(i)
  BY <1>t, <1>1, <1>2, Extended DEF Spoke, row
<1>n. PICK n \in DOMAIN contents' :
         contents'[n] = x /\ \A i \in DOMAIN contents' : i = n \/ i \in DOMAIN contents
  BY <1>t, <1>2, Extended
<1>5. Spoke(n)' /\ \A i \in DOMAIN contents : i \in DOMAIN contents' /\ contents'[i] = contents[i]
  BY <1>t, <1>1, <1>2, <1>n, Extended DEF Spoke, row
<1>6. HaveSpoken' = HaveSpoken \cup {local.seat}
  <2>1. \A d \in Designers :
           (\E i \in DOMAIN contents' : Spoke(i)' /\ contents'[i].seat = d) <=>
               d = local.seat \/ \E i \in DOMAIN contents : Spoke(i) /\ contents[i].seat = d
    BY <1>2, <1>n, <1>4, <1>5
  <2>2. QED
    BY <1>3, <2>1 DEF HaveSpoken
<1>7. HaveAccepted' = IF ok THEN HaveAccepted \cup {local.seat} ELSE HaveAccepted
  <2>1. \A d \in Designers :
           (\E i \in DOMAIN contents' : Spoke(i)' /\ contents'[i].seat = d /\ contents'[i].ok) <=>
               \/ d = local.seat /\ ok
               \/ \E i \in DOMAIN contents : Spoke(i) /\ contents[i].seat = d /\ contents[i].ok
    BY <1>2, <1>n, <1>4, <1>5
  <2>2. QED
    BY <1>3, <2>1 DEF HaveAccepted
<1>8. UNCHANGED <<HaveProposed, Cleared, Refused>>
  BY <1>t, <1>1, <1>2, Said, RefusedSame
<1>9. QED
  BY <1>1, <1>3, <1>6, <1>7, <1>8
     DEF Meets!Speak, Meets!turn, Meets!outcome, Designers, Meets!Designers, row

LEMMA StepSeen ==
    ASSUME Following, [Next]_vars
    PROVE  Seen
<1>t. Control /\ Parts /\ Parts' /\ Meets!Designers = Designers
  BY NextTyped DEF Following, Voices, Rounds, Control, Designers, Meets!Designers
<1>c. cancelled' \in BOOLEAN
  BY <1>t DEF Parts, CancelledTyped
<1>1. CASE Quiet \/ OpenBatch \/ EnsureConflict \/ CloseRound
  <2>1. Unseen
    BY <1>t, <1>1, EnsureFacts, CloseFacts DEF Quiet, OpenBatch, Unseen, db, row
  <2>2. QED
    BY <1>c, <2>1, UnseenSeen
<1>2. CASE Commands \/ Writes \/ Turns
  BY <1>c, <1>2, CommandsSeen, WritesSeen, TurnsSeen
<1>3. ASSUME NEW d \in Designers, KeepProposal(d) PROVE Seen
  BY <1>t, <1>c, <1>3, ProposalSeen DEF Seen, Meets!Step
<1>4. CASE NextRound \/ Adopt
  BY <1>c, <1>4, RoundSeen, AgreeSeen DEF Seen, Meets!Step
<1>5. ASSUME NEW ok \in BOOLEAN, Position(ok) PROVE Seen
  BY <1>c, <1>5, PositionSeen DEF Seen, Meets!Step
<1>6. QED
  BY <1>t, <1>1, <1>2, <1>3, <1>4, <1>5, Steps

(* A Meeting implements the protocol its participants know: whatever the   *)
(* crashes, shutdowns, stream conflicts and repeated Provider runs between *)
(* two commits, each step is a turn of the protocol, or nothing, and a     *)
(* Meeting fails only while the daemon works on it or is being stopped.    *)
THEOREM ProtocolCorrect == Spec => ProtocolKept
<1>1. Init => Meets!Init
  <2> SUFFICES ASSUME Init PROVE Meets!Init
    OBVIOUS
  <2>1. DOMAIN contents = {} /\ DOMAIN items = {}
    BY EmptyFacts DEF Init
  <2>2. /\ HaveProposed = {} /\ HaveSpoken = {} /\ HaveAccepted = {}
        /\ Cleared = FALSE /\ Refused = FALSE
    BY <2>1 DEF HaveProposed, HaveSpoken, HaveAccepted, Cleared, Refused
  <2>3. QED
    BY <2>2 DEF Init, Meets!Init
<1>2. Following /\ [Next]_vars =>
         [Meets!Next]_<<Meets!turn, Meets!discussion, Meets!outcome, cancelled>>
  BY StepSeen DEF Seen, Meets!Next
<1>3. QED
  BY InitFollowing, NextFollowing, <1>1, <1>2, PTL DEF Spec, ProtocolKept, Meets!Spec
=============================================================================
