--------------------------- MODULE MeetingProtocol ---------------------------
(***************************************************************************)
(* What a Meeting is to those who take part in it: the state chart of      *)
(* docs/design/milestone-1a-meeting-backend.md:99 and of the review loop   *)
(* of milestone 1b, with who has spoken and what they said as the guards.  *)
(* There is no daemon here that crashes, is shut down, loses an append or  *)
(* asks a Provider twice: whatever of that happens must look like nothing, *)
(* or like the end of the Meeting in "failed".                             *)
(* Meeting.tla is shown to implement this specification.                   *)
(***************************************************************************)
EXTENDS Naturals

CONSTANTS Protocol,     \* 1: with a Verifier, 2: with the Recorder review loop
          NumDesigners, \* seats that design, in the order in which they speak
          MaxRounds     \* rounds of one cycle

VARIABLES status, cycle, round,
          result,       \* the Result on offer, later ones are larger
          proposed,     \* designers whose sealed proposal is there
          spoken,       \* designers who have taken a position in this round
          accepted,     \* those of them who have accepted
          cleared,      \* the Verifier has cleared the Result on offer
          refused,      \* the Human has rejected a part of it for good
          stopping      \* the daemon has been told to stop

turn       == <<status, cycle, round>>
discussion == <<proposed, spoken, accepted>>
outcome    == <<result, cleared, refused>>

Designers == 1..NumDesigners
Working   == {"preparing", "sealed_proposals", "revealed", "deliberating",
              "recording", "verifying", "recorder_reviewing", "reconvening"}

Init ==
    /\ status = "draft" /\ cycle = 1 /\ round = 0
    /\ result = 0 /\ cleared = FALSE /\ refused = FALSE
    /\ proposed = {} /\ spoken = {} /\ accepted = {}
    /\ stopping = FALSE

Turn(s, c, r) == status' = s /\ cycle' = c /\ round' = r
Silence       == spoken' = {} /\ accepted' = {}

-----------------------------------------------------------------------------
(* The Human.                                                              *)

Start ==
    /\ status = "draft"
    /\ Turn("preparing", cycle, 0)
    /\ UNCHANGED <<discussion, outcome>>

\* An answer opens the next cycle, on the same proposals.
Answer ==
    /\ status = "needs_user_input"
    /\ Turn("deliberating", cycle + 1, 0)
    /\ Silence
    /\ UNCHANGED <<proposed, outcome>>

\* Nothing that was rejected is approved.
Conclude ==
    /\ status = "awaiting_human" \/ (status = "awaiting_user_review" /\ ~refused)
    /\ Turn("concluded", cycle, round)
    /\ UNCHANGED <<discussion, outcome>>

SendBack ==
    /\ status = "awaiting_user_review"
    /\ Turn("recorder_reviewing", cycle, round)
    /\ refused' \in BOOLEAN /\ (refused => refused')
    /\ UNCHANGED <<discussion, result, cleared>>

-----------------------------------------------------------------------------
(* The discussion.                                                         *)

Convene ==
    /\ status \in {"preparing", "reconvening"}
    /\ Turn("sealed_proposals", cycle, 0)
    /\ UNCHANGED <<discussion, outcome>>

Propose(d) ==
    /\ status = "sealed_proposals" /\ d \notin proposed
    /\ proposed' = proposed \cup {d}
    /\ UNCHANGED <<turn, spoken, accepted, outcome>>

\* Without designers there is nothing to discuss.
Reveal ==
    /\ status = "sealed_proposals" /\ proposed = Designers
    /\ Turn(IF Protocol = 2 /\ NumDesigners = 0 THEN "recording" ELSE "revealed", cycle, 0)
    /\ UNCHANGED <<discussion, outcome>>

OpenRound ==
    /\ status \in {"revealed", "deliberating"} /\ round < MaxRounds
    /\ Turn("deliberating", cycle, round + 1)
    /\ Silence
    /\ UNCHANGED <<proposed, outcome>>

\* One after the other, each of them once in a round.
Speak(d, ok) ==
    /\ status = "deliberating" /\ spoken = 1..(d - 1)
    /\ spoken' = spoken \cup {d}
    /\ accepted' = IF ok THEN accepted \cup {d} ELSE accepted
    /\ UNCHANGED <<turn, proposed, outcome>>

Agree ==
    /\ status = "deliberating" /\ accepted = Designers
    /\ Turn("recording", cycle, round)
    /\ UNCHANGED <<discussion, outcome>>

\* Protocol 2 records the dissent, protocol 1 asks the Human.
Exhaust ==
    /\ status \in {"revealed", "deliberating"} /\ round = MaxRounds
    /\ Turn(IF Protocol = 2 THEN "recording" ELSE "needs_user_input", cycle, round)
    /\ UNCHANGED <<discussion, outcome>>

-----------------------------------------------------------------------------
(* The Result.                                                             *)

\* A Result of the discussion, or an amended one: what the Human has
\* rejected for good is not amended but goes back to the designers.
Offer ==
    /\ status = "recording" \/ (status = "recorder_reviewing" /\ ~refused)
    /\ Turn(IF Protocol = 2 THEN "awaiting_user_review" ELSE "verifying", cycle, round)
    /\ result' \in Nat /\ result' > result
    /\ cleared' = FALSE /\ refused' = FALSE
    /\ UNCHANGED discussion

Judge(clear) ==
    /\ status = "verifying"
    /\ cleared' = clear
    /\ UNCHANGED <<turn, discussion, result, refused>>

Present ==
    /\ status = "verifying"
    /\ Turn(IF cleared THEN "awaiting_human" ELSE "needs_user_input", cycle, round)
    /\ UNCHANGED <<discussion, outcome>>

\* The Recorder has answered, or has no valid answer.
Explain ==
    /\ status = "recorder_reviewing"
    /\ Turn("awaiting_user_review", cycle, round)
    /\ UNCHANGED <<discussion, outcome>>

\* The designers begin again, with new proposals.
Reconvene ==
    /\ status = "recorder_reviewing"
    /\ Turn("reconvening", cycle + 1, 0)
    /\ proposed' = {} /\ Silence
    /\ UNCHANGED outcome

-----------------------------------------------------------------------------
\* Only a daemon that is being stopped fails a Meeting it does not work on.
Fail ==
    /\ status \in Working \/ stopping
    /\ Turn("failed", cycle, round)
    /\ UNCHANGED <<discussion, outcome>>

Step ==
    \/ Start \/ Answer \/ Conclude \/ SendBack
    \/ Convene \/ Reveal \/ OpenRound \/ Agree \/ Exhaust
    \/ Offer \/ Present \/ Explain \/ Reconvene \/ Fail
    \/ \E d \in Designers : Propose(d) \/ \E ok \in BOOLEAN : Speak(d, ok)
    \/ \E clear \in BOOLEAN : Judge(clear)

\* The daemon may be told to stop, and start again, at any time.
Next ==
    /\ Step \/ UNCHANGED <<turn, discussion, outcome>>
    /\ stopping' \in BOOLEAN

Spec == Init /\ [][Next]_<<turn, discussion, outcome, stopping>>
=============================================================================
