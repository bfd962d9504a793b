---------------------------- MODULE ReviewProofs ----------------------------
(***************************************************************************)
(* Theorems about Review, for any handlers and texts and any number of     *)
(* Results, candidates, cycles, torn commands and crashes.                 *)
(***************************************************************************)
EXTENDS Review, SequenceTheorems, TLAPS

-----------------------------------------------------------------------------
(* What holds whatever a command has read.                                 *)

\* The protocol of a row, and that it points to a Result, as its status says.
Pointed(row) ==
    /\ row.status \in {"awaiting_user_review", "recorder_reviewing"} =>
         row.protocol = 2 /\ row.result # 0
    /\ row.status \in {"verifying", "awaiting_human", "needs_user_input"} =>
         row.protocol = 1

\* Of the locks on a candidate only one is closed: what is in the project
\* context was accepted.
Locks(cs) == \A i \in DOMAIN cs : cs[i].context = "persist" => cs[i].design = "accepted"

\* The Result a row points to has a candidate among cs.
Itemized(row, cs) ==
    row.protocol = 2 /\ row.result # 0 => \E i \in DOMAIN cs : cs[i].of = row.result

\* What a handler has read, at whatever moments, was true of some Result, and
\* candidates are only ever added.
Seen ==
    \A h \in Handlers : view[h].pc # "idle" =>
        /\ view[h].row \in Row
        /\ view[h].row.protocol = meeting.protocol
        /\ Pointed(view[h].row)
        /\ Itemized(view[h].row, cands)
        /\ view[h].pc # "row" => /\ Itemized(view[h].row, view[h].cands)
                                 /\ Locks(view[h].cands)
                                 /\ DOMAIN view[h].cands \subseteq DOMAIN cands

\* A view that is not torn is up to date.
Fresh ==
    \A h \in Handlers : view[h].pc # "idle" /\ ~view[h].torn =>
        /\ view[h].row = meeting
        /\ view[h].pc # "row" => view[h].cands = cands

Worker ==
    /\ work.pc = "items" =>
         /\ meeting.protocol = 2 /\ work.output.hard # <<>>
         /\ contents # <<>>
         /\ contents[Len(contents)].text = work.output.text
    /\ work.pc = "review" => meeting.protocol = 2 /\ meeting.result # 0

Basic ==
    /\ TypeOK /\ Pointed(meeting) /\ Itemized(meeting, cands)
    /\ Seen /\ Fresh /\ Worker /\ Locks(cands)

-----------------------------------------------------------------------------
(* Candidates and contents.                                                *)

\* The candidates of an output are a sequence.
LEMMA HardIsSeq == ASSUME NEW output \in Output
                   PROVE  output.hard \in Seq(BOOLEAN) /\ output.text \in Texts
<1>1. output.hard \in BoundedSeq(BOOLEAN, MaxItems)
  BY DEF Output
<1>2. PICK m \in 0..MaxItems : output.hard \in [1..m -> BOOLEAN]
  BY <1>1, ReviewAssumption DEF BoundedSeq, SeqOf
<1>3. m \in Nat
  BY ReviewAssumption
<1>4. QED
  BY <1>2, <1>3 DEF Output

\* What a Result adds: candidates, all proposed and not reviewed.
LEMMA AddedIsSeq ==
    ASSUME NEW output \in Output, NEW of \in Nat
    PROVE  /\ Added(output, of) \in Seq(Candidate)
           /\ Len(Added(output, of)) = Len(output.hard)
           /\ \A i \in 1..Len(output.hard) :
                /\ Added(output, of)[i].of = of
                /\ Added(output, of)[i].status = "proposed"
                /\ Added(output, of)[i].design = "unreviewed"
                /\ Added(output, of)[i].context = "none"
<1> DEFINE n == Len(output.hard)
<1>1. output.hard \in Seq(BOOLEAN) /\ n \in Nat /\ DOMAIN output.hard = 1..n
  BY HardIsSeq
<1>2. \A i \in 1..n : output.hard[i] \in BOOLEAN
  BY <1>1
<1>3. Added(output, of) \in [1..n -> Candidate]
  BY <1>1, <1>2 DEF Added, Candidate
<1>4. QED
  BY <1>1, <1>3 DEF Added

\* Appending candidates.
LEMMA Joined ==
    ASSUME NEW old \in Seq(Candidate), NEW new \in Seq(Candidate)
    PROVE  /\ old \o new \in Seq(Candidate)
           /\ \A i \in DOMAIN old : i \in DOMAIN (old \o new) /\ (old \o new)[i] = old[i]
           /\ \A i \in DOMAIN (old \o new) :
                i \in DOMAIN old \/ \E k \in DOMAIN new : (old \o new)[i] = new[k]
           /\ new # <<>> => Len(old) + 1 \in DOMAIN (old \o new)
                            /\ (old \o new)[Len(old) + 1] = new[1]
<1>1. /\ Len(old) \in Nat /\ Len(new) \in Nat
      /\ DOMAIN old = 1..Len(old) /\ DOMAIN new = 1..Len(new)
      /\ DOMAIN (old \o new) = 1..(Len(old) + Len(new))
  OBVIOUS
<1>2. \A i \in DOMAIN (old \o new) :
        (old \o new)[i] = IF i <= Len(old) THEN old[i] ELSE new[i - Len(old)]
  BY <1>1
<1>3. ASSUME NEW i \in DOMAIN (old \o new), i \notin DOMAIN old
      PROVE  i - Len(old) \in DOMAIN new /\ (old \o new)[i] = new[i - Len(old)]
  BY <1>1, <1>2, <1>3
<1>4. new # <<>> => Len(new) >= 1
  BY <1>1
<1>5. old \o new \in Seq(Candidate)
  OBVIOUS
<1>6. QED
  BY <1>1, <1>2, <1>3, <1>4, <1>5

\* The newest content with a text is the last one, if it has it.
LEMMA NewestContent ==
    ASSUME NEW text, contents \in Seq(Content), contents # <<>>,
           contents[Len(contents)].text = text
    PROVE  ContentByDigest(text) = Len(contents) /\ Len(contents) \in Nat \ {0}
<1> DEFINE n == Len(contents)
<1>1. n \in Nat \ {0} /\ DOMAIN contents = 1..n
  OBVIOUS
<1>2. contents[n].text = text /\ \A j \in (n + 1)..n : contents[j].text # text
  BY <1>1
<1>3. ASSUME NEW i \in DOMAIN contents, contents[i].text = text,
             \A j \in (i + 1)..n : contents[j].text # text
      PROVE  i = n
  BY <1>1, <1>2, <1>3
<1>4. QED
  BY <1>1, <1>2, <1>3 DEF ContentByDigest

\* A decision about one candidate ...
LEMMA OneDecided ==
    ASSUME TypeOK, NEW i \in DOMAIN cands, NEW d \in {"selected", "rejected", "deferred"}
    PROVE  /\ Dispositioned(i, d) \in Seq(Candidate)
           /\ DOMAIN Dispositioned(i, d) = DOMAIN cands
           /\ \A j \in DOMAIN cands :
                Dispositioned(i, d)[j] = IF j = i THEN [cands[j] EXCEPT !.status = d]
                                                  ELSE cands[j]
<1>1. cands \in Seq(Candidate) /\ DOMAIN cands = 1..Len(cands) /\ Len(cands) \in Nat
  BY DEF TypeOK
<1>2. cands[i] \in Candidate
  BY <1>1
<1>3. [cands[i] EXCEPT !.status = d] \in Candidate
  BY <1>2 DEF Candidate
<1>4. Dispositioned(i, d) = [cands EXCEPT ![i] = [cands[i] EXCEPT !.status = d]]
  BY DEF Dispositioned
<1>5. QED
  BY <1>1, <1>3, <1>4

\* ... and about those of a Result.
LEMMA ManyDecided ==
    ASSUME TypeOK, NEW reviewed \in SUBSET Nat, NEW items \in [reviewed -> Decision]
    PROVE  /\ Reviewed(reviewed, items) \in Seq(Candidate)
           /\ DOMAIN Reviewed(reviewed, items) = DOMAIN cands
<1>1. cands \in Seq(Candidate) /\ DOMAIN cands = 1..Len(cands) /\ Len(cands) \in Nat
  BY DEF TypeOK
<1>2. ASSUME NEW i \in DOMAIN cands
      PROVE  (IF i \in reviewed
              THEN [cands[i] EXCEPT !.design = items[i].design,
                                    !.context = items[i].context,
                                    !.status = CandidateStatus(items[i].design)]
              ELSE cands[i]) \in Candidate
  <2>1. cands[i] \in Candidate
    BY <1>1
  <2>2. CASE i \in reviewed
    <3>1. items[i] \in Decision
      BY <2>2
    <3>2. /\ items[i].design \in {"accepted", "rejected", "deferred"}
          /\ items[i].context \in {"persist", "result_only", "none"}
      BY <3>1 DEF Decision
    <3>3. CandidateStatus(items[i].design) \in {"selected", "rejected", "deferred"}
      BY <3>2 DEF CandidateStatus
    <3>4. QED
      BY <2>1, <2>2, <3>2, <3>3 DEF Candidate
  <2>3. QED
    BY <2>1, <2>2
<1>3. Reviewed(reviewed, items) \in [1..Len(cands) -> Candidate]
  BY <1>1, <1>2 DEF Reviewed
<1>4. QED
  BY <1>1, <1>3

-----------------------------------------------------------------------------
(* The views.                                                              *)

\* Candidates are only ever added.
Grows == \A i \in DOMAIN cands : i \in DOMAIN cands' /\ cands'[i].of = cands[i].of

\* A Result that has a candidate keeps one.
LEMMA StaysItemized ==
    ASSUME Grows, NEW row, Itemized(row, cands) PROVE Itemized(row, cands')
BY DEF Grows, Itemized

\* A commit makes a command return, conflict, or read on with a torn view.
LEMMA AfterCommit ==
    ASSUME TypeOK, NEW done, view' = Others(done)
    PROVE  /\ view' \in [Handlers -> View]
           /\ \A h \in Handlers : view'[h].pc # "idle" =>
                /\ view[h].pc \in {"row", "cands"} /\ view'[h].pc = view[h].pc
                /\ view'[h].row = view[h].row /\ view'[h].cands = view[h].cands
                /\ view'[h].torn
<1>1. view \in [Handlers -> View]
  BY DEF TypeOK
<1>2. Nothing \in View /\ Nothing.pc = "idle"
  BY DEF Nothing, View
<1>3. ASSUME NEW h \in Handlers
      PROVE  /\ view'[h] \in View
             /\ view'[h].pc # "idle" =>
                  /\ view[h].pc \in {"row", "cands"} /\ view'[h].pc = view[h].pc
                  /\ view'[h].row = view[h].row /\ view'[h].cands = view[h].cands
                  /\ view'[h].torn
  <2>1. view[h] \in View
    BY <1>1
  <2>2. [view[h] EXCEPT !.torn = TRUE] \in View
    BY <2>1 DEF View
  <2>3. view'[h] = IF h \in done \/ view[h].pc = "ready" THEN Nothing
                   ELSE IF view[h].pc \in {"row", "cands"} THEN Torn(h) ELSE view[h]
    BY <2>1 DEF Others, View
  <2>4. CASE view'[h] = [view[h] EXCEPT !.torn = TRUE] /\ view[h].pc \in {"row", "cands"}
    BY <2>1, <2>2, <2>4 DEF View
  <2>5. CASE view'[h] = Nothing
    BY <1>2, <2>5
  <2>6. CASE view'[h] = view[h] /\ view[h].pc = "idle"
    BY <2>1, <2>6
  <2>7. QED
    BY <2>1, <2>3, <2>4, <2>5, <2>6 DEF Torn, View
<1>4. view' = [h \in Handlers |-> view'[h]]
  BY DEF Others
<1>5. QED
  BY <1>3, <1>4

\* What commands have read is still about some Result afterwards.
LEMMA CommitSeen ==
    ASSUME Basic, NEW done, view' = Others(done), Grows,
           meeting'.protocol = meeting.protocol
    PROVE  view' \in [Handlers -> View] /\ Seen' /\ Fresh'
<1>1. /\ view' \in [Handlers -> View]
      /\ \A h \in Handlers : view'[h].pc # "idle" =>
           /\ view[h].pc \in {"row", "cands"} /\ view'[h].pc = view[h].pc
           /\ view'[h].row = view[h].row /\ view'[h].cands = view[h].cands
           /\ view'[h].torn
  BY AfterCommit DEF Basic
<1>2. Fresh'
  BY <1>1 DEF Fresh
<1>3. ASSUME NEW h \in Handlers, view'[h].pc # "idle"
      PROVE  /\ view'[h].row \in Row
             /\ view'[h].row.protocol = meeting'.protocol
             /\ Pointed(view'[h].row)
             /\ Itemized(view'[h].row, cands')
             /\ view'[h].pc # "row" => /\ Itemized(view'[h].row, view'[h].cands)
                                       /\ Locks(view'[h].cands)
                                       /\ DOMAIN view'[h].cands \subseteq DOMAIN cands'
  <2>1. /\ view[h].pc # "idle" /\ view'[h].pc = view[h].pc
        /\ view'[h].row = view[h].row /\ view'[h].cands = view[h].cands
    BY <1>1, <1>3
  <2>2. /\ view[h].row \in Row /\ view[h].row.protocol = meeting.protocol
        /\ Pointed(view[h].row) /\ Itemized(view[h].row, cands)
        /\ view[h].pc # "row" => /\ Itemized(view[h].row, view[h].cands)
                                 /\ Locks(view[h].cands)
                                 /\ DOMAIN view[h].cands \subseteq DOMAIN cands
    BY <2>1 DEF Basic, Seen
  <2>3. DOMAIN cands \subseteq DOMAIN cands'
    BY DEF Grows
  <2>4. QED
    BY <2>1, <2>2, <2>3, StaysItemized
<1>4. QED
  BY <1>1, <1>2, <1>3 DEF Seen

\* Steps that commit nothing.
LEMMA Reading ==
    ASSUME Basic, NEW h \in Handlers,
           ReadRow(h) \/ ReadCandidates(h) \/ ReadVersion(h) \/ Return(h) \/ Handoff(h)
    PROVE  Basic'
<1>1. view \in [Handlers -> View] /\ view[h] \in View
  BY DEF Basic, TypeOK
<1>2. /\ UNCHANGED <<meeting, contents, cands, work, torn, crashes>>
      /\ \A g \in Handlers \ {h} : view'[g] = view[g]
      /\ view'[h] \in View
      /\ \/ view'[h].pc = "idle"
         \/ view'[h].pc = "row" /\ view'[h].row = meeting
         \/ /\ view[h].pc = "row" /\ view'[h].pc = "cands" /\ view'[h].row = view[h].row
            /\ view'[h].cands = cands /\ view'[h].torn = view[h].torn
         \/ /\ view[h].pc = "cands" /\ view'[h].pc = "ready" /\ view'[h].row = view[h].row
            /\ view'[h].cands = view[h].cands /\ view'[h].torn = view[h].torn
      /\ view' \in [Handlers -> View]
  <2> USE DEF db, hist, View, Nothing
  <2>1. CASE ReadRow(h)
    <3>1. meeting \in Row
      BY DEF Basic, TypeOK
    <3> DEFINE v == [Nothing EXCEPT !.pc = "row", !.row = meeting]
    <3>2. view' = [view EXCEPT ![h] = v] /\ UNCHANGED <<db, work, torn, hist>>
      BY <2>1 DEF ReadRow
    <3>3. v.pc = "row" /\ v.row = meeting
      OBVIOUS
    <3>4. v \in View
      <4>1. Nothing \in [pc : {"idle", "row", "cands", "ready"}, row : Row \cup {None},
                        cands : Seq(Candidate), torn : BOOLEAN]
        OBVIOUS
      <4>2. QED
        BY ONLY <3>1, <4>1 DEF View
    <3> HIDE DEF v
    <3>5. view'[h] = v /\ \A g \in Handlers \ {h} : view'[g] = view[g]
      BY <1>1, <3>2
    <3>6. view' \in [Handlers -> View]
      BY ONLY <1>1, <3>2, <3>4
    <3>7. QED
      BY <3>2, <3>3, <3>4, <3>5, <3>6
  <2>2. CASE ReadCandidates(h)
    BY <1>1, <2>2 DEF ReadCandidates, Basic, TypeOK
  <2>3. CASE ReadVersion(h)
    BY <1>1, <2>3 DEF ReadVersion
  <2>4. CASE Return(h)
    BY <1>1, <2>4 DEF Return
  <2>5. CASE Handoff(h)
    BY <1>1, <2>5 DEF Handoff
  <2>6. QED
    BY <2>1, <2>2, <2>3, <2>4, <2>5
<1>3. TypeOK' /\ Pointed(meeting)' /\ Itemized(meeting, cands)' /\ Worker' /\ Locks(cands)'
  <2>1. TypeOK'
    BY <1>2 DEF Basic, TypeOK
  <2>2. QED
    BY <1>2, <2>1 DEF Basic, Pointed, Itemized, Worker, Locks
<1>4. ASSUME NEW g \in Handlers, view'[g].pc # "idle"
      PROVE  /\ view'[g].row \in Row
             /\ view'[g].row.protocol = meeting.protocol
             /\ Pointed(view'[g].row)
             /\ Itemized(view'[g].row, cands)
             /\ view'[g].pc # "row" => /\ Itemized(view'[g].row, view'[g].cands)
                                       /\ Locks(view'[g].cands)
                                       /\ DOMAIN view'[g].cands \subseteq DOMAIN cands
  <2>1. CASE view'[g] = view[g]
    BY <1>4, <2>1 DEF Basic, Seen
  <2>2. CASE view'[g].row = meeting /\ view'[g].pc = "row"
    BY <2>2 DEF Basic, TypeOK
  <2>3. CASE /\ view[g].pc # "idle" /\ view'[g].row = view[g].row
             /\ \/ view'[g].cands = cands
                \/ view[g].pc # "row" /\ view'[g].cands = view[g].cands
    BY <2>3 DEF Basic, Seen
  <2>4. QED
    BY <1>2, <1>4, <2>1, <2>2, <2>3
<1>5. Fresh'
  BY <1>2 DEF Basic, Fresh
<1>6. Seen'
  BY <1>2, <1>4 DEF Seen
<1>7. QED
  BY <1>3, <1>5, <1>6 DEF Basic

-----------------------------------------------------------------------------
(* The commits.                                                            *)

\* What a commit has to show.
LEMMA AfterBasic ==
    ASSUME Basic, NEW done, view' = Others(done), Grows,
           meeting' \in Row, meeting'.protocol = meeting.protocol,
           contents' \in Seq(Content), cands' \in Seq(Candidate),
           work' \in [pc : {"free"}] \cup [pc : {"items"}, output : Output]
                                     \cup [pc : {"review"}, swarm : BOOLEAN],
           torn' \in 0..MaxTorn, crashes' = crashes,
           Pointed(meeting'), Itemized(meeting', cands'), Locks(cands'), Worker'
    PROVE  Basic'
<1>1. view' \in [Handlers -> View] /\ Seen' /\ Fresh'
  BY CommitSeen
<1>2. TypeOK'
  BY <1>1 DEF Basic, TypeOK
<1>3. Pointed(meeting)' /\ Itemized(meeting, cands)' /\ Locks(cands)'
  BY DEF Pointed, Itemized, Locks
<1>4. QED
  BY <1>1, <1>2, <1>3 DEF Basic

\* A command commits on a view it has finished to read.
LEMMA CommandCommits ==
    ASSUME Basic, NEW h \in Handlers, Commits(h), view[h].pc = "ready"
    PROVE  /\ view' = Others({h}) /\ torn' \in 0..MaxTorn /\ crashes' = crashes
           /\ work' = work /\ handed' = handed
           /\ view[h].row \in Row /\ view[h].row.protocol = meeting.protocol
           /\ view[h].cands \in Seq(Candidate)
           /\ DOMAIN view[h].cands \subseteq DOMAIN cands
           /\ Pointed(view[h].row) /\ Itemized(view[h].row, cands)
           /\ Itemized(view[h].row, view[h].cands)
           /\ torn' = torn => view[h].row = meeting /\ view[h].cands = cands
           /\ torn' = 0 => torn = 0 /\ torn' = torn
<1>1. /\ view \in [Handlers -> View] /\ torn \in 0..MaxTorn /\ MaxTorn \in Nat
      /\ torn' = torn + IF view[h].torn THEN 1 ELSE 0
      /\ torn' <= MaxTorn
  BY ReviewAssumption DEF Basic, TypeOK, Commits
<1>2. view[h] \in View
  BY <1>1
<1>3. /\ torn' \in 0..MaxTorn /\ (torn' = torn => ~view[h].torn)
      /\ torn' = 0 => torn = 0 /\ torn' = torn
  BY <1>1
<1>4. view[h].cands \in Seq(Candidate)
  BY <1>2 DEF View
<1>5. /\ view[h].row \in Row /\ view[h].row.protocol = meeting.protocol
      /\ Pointed(view[h].row) /\ Itemized(view[h].row, cands)
      /\ Itemized(view[h].row, view[h].cands)
      /\ DOMAIN view[h].cands \subseteq DOMAIN cands
  BY DEF Basic, Seen
<1>6. ~view[h].torn => view[h].row = meeting /\ view[h].cands = cands
  BY DEF Basic, Fresh
<1>7. QED
  BY <1>3, <1>4, <1>5, <1>6 DEF Commits, hist

\* What Answer does, whatever its handler has read.
LEMMA AnswerBasic == ASSUME Basic, NEW h \in Handlers, Answer(h) PROVE Basic' /\ Grows
<1>1. view[h].pc = "ready" /\ Commits(h) /\ UNCHANGED <<contents, cands>>
  BY DEF Answer, Knows
<1>2. /\ view' = Others({h}) /\ torn' \in 0..MaxTorn /\ crashes' = crashes /\ work' = work
      /\ view[h].row \in Row
  BY <1>1, CommandCommits
<1>3. meeting' = [meeting EXCEPT !.status = "deliberating", !.cycle = view[h].row.cycle + 1]
  BY DEF Answer
<1>4. meeting \in Row /\ view[h].row.cycle + 1 \in Nat
  BY <1>2 DEF Basic, TypeOK, Row
<1>5. /\ meeting' \in Row /\ meeting'.protocol = meeting.protocol
      /\ meeting'.result = meeting.result /\ meeting'.status = "deliberating"
  BY <1>3, <1>4 DEF Row, Working
<1>6. Pointed(meeting') /\ Itemized(meeting', cands') /\ Worker' /\ Grows /\ Locks(cands')
  BY <1>1, <1>2, <1>5 DEF Basic, Pointed, Itemized, Worker, Grows
<1>7. QED
  BY <1>1, <1>2, <1>5, <1>6, AfterBasic DEF Basic, TypeOK

\* What Disposition does to the candidates and the row.
LEMMA DispositionBasic ==
    ASSUME Basic, NEW h \in Handlers, NEW i, NEW d \in {"selected", "rejected", "deferred"},
           Disposition(h, i, d)
    PROVE  /\ Basic' /\ Grows /\ i \in DOMAIN cands
           /\ DOMAIN cands' = DOMAIN cands
           /\ \A j \in DOMAIN cands :
                cands'[j] = IF j = i THEN [cands[j] EXCEPT !.status = d] ELSE cands[j]
<1>1. /\ view[h].pc = "ready" /\ Commits(h) /\ UNCHANGED contents
      /\ cands' = Dispositioned(i, d)
      /\ i \in DOMAIN view[h].cands
      /\ \/ meeting' = meeting
         \/ meeting' = [meeting EXCEPT !.status = "concluded",
                                       !.cycle = view[h].row.cycle,
                                       !.digest = view[h].row.digest]
  BY DEF Disposition, Knows
<1>2. /\ view' = Others({h}) /\ torn' \in 0..MaxTorn /\ crashes' = crashes /\ work' = work
      /\ view[h].row \in Row
      /\ i \in DOMAIN cands
  BY <1>1, CommandCommits
<1>3. /\ cands' \in Seq(Candidate)
      /\ DOMAIN cands' = DOMAIN cands
      /\ \A j \in DOMAIN cands :
           cands'[j] = IF j = i THEN [cands[j] EXCEPT !.status = d] ELSE cands[j]
  BY <1>1, <1>2, OneDecided DEF Basic
<1>4. Grows /\ Locks(cands')
  <2>1. ASSUME NEW j \in DOMAIN cands
        PROVE  /\ cands'[j].of = cands[j].of /\ cands'[j].design = cands[j].design
               /\ cands'[j].context = cands[j].context
    <3>1. cands[j] \in Candidate
      BY DEF Basic, TypeOK
    <3>2. QED
      BY <1>3, <3>1 DEF Candidate
  <2>2. QED
    BY <1>3, <2>1 DEF Grows, Basic, Locks
<1>5. meeting \in Row /\ view[h].row.cycle \in Nat /\ view[h].row.digest \in Texts \cup {None}
  BY <1>2 DEF Basic, TypeOK, Row
<1>6. /\ meeting' \in Row /\ meeting'.protocol = meeting.protocol
      /\ meeting'.result = meeting.result
      /\ meeting'.status = meeting.status \/ meeting'.status = "concluded"
  <2>1. CASE meeting' = meeting
    BY <1>5, <2>1
  <2>2. CASE meeting' = [meeting EXCEPT !.status = "concluded",
                                       !.cycle = view[h].row.cycle,
                                       !.digest = view[h].row.digest]
    BY <1>5, <2>2 DEF Row, Working
  <2>3. QED
    BY <1>1, <2>1, <2>2
<1>7. Pointed(meeting') /\ Worker'
  BY <1>1, <1>2, <1>6 DEF Basic, Pointed, Worker
<1>8. Itemized(meeting', cands')
  BY <1>4, <1>6, StaysItemized DEF Basic, Itemized
<1>9. QED
  BY <1>1, <1>2, <1>3, <1>4, <1>6, <1>7, <1>8, AfterBasic DEF Basic, TypeOK

\* What a Review does to the candidates: those of the Result it is about.
LEMMA ReviewBasic ==
    ASSUME Basic, NEW h \in Handlers, NEW action,
           NEW items \in [Pending(h) -> Decision], Review(h, action, items)
    PROVE  /\ Basic' /\ Grows
           /\ DOMAIN cands' = DOMAIN cands
           /\ cands' = Reviewed(Pending(h), items)
<1>1. /\ view[h].pc = "ready" /\ Commits(h) /\ UNCHANGED contents
      /\ view[h].row.status = "awaiting_user_review" /\ view[h].row.protocol = 2
      /\ \A i \in Pending(h) : ValidReviewItem(items[i])
      /\ cands' = Reviewed(Pending(h), items)
      /\ meeting' =
           [meeting EXCEPT !.cycle = view[h].row.cycle, !.result = view[h].row.result,
                           !.digest = view[h].row.digest,
                           !.status = IF action = "approve" THEN "concluded"
                                                            ELSE "recorder_reviewing",
                           !.approved = Approved(h, action)]
  BY DEF Review, Accepts, Knows
<1>2. /\ view' = Others({h}) /\ torn' \in 0..MaxTorn /\ crashes' = crashes /\ work' = work
      /\ view[h].row \in Row /\ view[h].row.protocol = meeting.protocol
      /\ view[h].cands \in Seq(Candidate) /\ DOMAIN view[h].cands \subseteq DOMAIN cands
      /\ Pointed(view[h].row) /\ Itemized(view[h].row, cands)
      /\ Itemized(view[h].row, view[h].cands)
  BY <1>1, CommandCommits
<1>3. Pending(h) \subseteq Nat /\ Pending(h) \subseteq DOMAIN cands
  BY <1>2 DEF Pending
<1>4. cands' \in Seq(Candidate) /\ DOMAIN cands' = DOMAIN cands
  BY <1>1, <1>3, ManyDecided DEF Basic
<1>5. Grows /\ Locks(cands')
  <2>1. ASSUME NEW j \in DOMAIN cands
        PROVE  /\ cands'[j].of = cands[j].of
               /\ cands'[j].context = "persist" => cands'[j].design = "accepted"
    <3>1. cands[j] \in Candidate /\ (cands[j].context = "persist" => cands[j].design = "accepted")
      BY DEF Basic, TypeOK, Locks
    <3>2. cands'[j] = IF j \in Pending(h)
                      THEN [cands[j] EXCEPT !.design = items[j].design,
                                            !.context = items[j].context,
                                            !.status = CandidateStatus(items[j].design)]
                      ELSE cands[j]
      BY <1>1 DEF Reviewed
    <3>3. j \in Pending(h) => (items[j].context = "persist" => items[j].design = "accepted")
      BY <1>1 DEF ValidReviewItem
    <3>4. QED
      BY <3>1, <3>2, <3>3 DEF Candidate
  <2>2. QED
    BY <1>4, <2>1 DEF Grows, Locks
<1>6. /\ meeting' \in Row /\ meeting'.protocol = meeting.protocol
      /\ meeting'.result = view[h].row.result /\ meeting'.result # 0
      /\ meeting.protocol = 2
  <2>1. meeting \in Row /\ view[h].row.result # 0
    BY <1>1, <1>2 DEF Basic, TypeOK, Pointed
  <2>2. Approved(h, action) \in Texts \cup {None}
    BY <1>2, <2>1 DEF Approved, Row
  <2>3. QED
    BY <1>1, <1>2, <2>1, <2>2 DEF Row, Working
<1>7. Pointed(meeting') /\ Worker'
  BY <1>1, <1>2, <1>6 DEF Basic, Pointed, Worker
<1>8. Itemized(meeting', cands')
  BY <1>2, <1>5, <1>6, StaysItemized DEF Itemized
<1>9. QED
  BY <1>1, <1>2, <1>4, <1>5, <1>6, <1>7, <1>8, AfterBasic DEF Basic, TypeOK

\* A step of the worker that only moves the Meeting on.
LEMMA StatusBasic ==
    ASSUME Basic, Verify \/ BackToReview \/ Reconvene \/ Deliberate \/ FailMeeting
    PROVE  /\ Basic' /\ Grows /\ work' = Free
           /\ view' = Others({})
           /\ UNCHANGED <<contents, cands, torn, hist>>
           /\ meeting'.protocol = meeting.protocol
           /\ meeting'.result = meeting.result /\ meeting'.digest = meeting.digest
           /\ meeting'.approved = meeting.approved
           /\ meeting'.cycle = IF Reconvene THEN meeting.cycle + 1 ELSE meeting.cycle
<1>1. /\ WorkerCommits(Free) /\ UNCHANGED <<contents, cands>>
      /\ \/ Reconvene /\ meeting' = [meeting EXCEPT !.status = "reconvening", !.cycle = @ + 1]
         \/ \E s \in {"awaiting_human", "needs_user_input", "recording", "failed"} :
              meeting' = [meeting EXCEPT !.status = s]
         \/ work.pc = "review" /\ meeting' = [meeting EXCEPT !.status = "awaiting_user_review"]
  BY DEF Verify, BackToReview, Reconvene, Deliberate, FailMeeting, SetStatus
<1>2. /\ view' = Others({}) /\ work' = Free /\ torn' \in 0..MaxTorn
      /\ UNCHANGED <<torn, hist>> /\ crashes' = crashes
  BY <1>1 DEF WorkerCommits, hist, Basic, TypeOK
<1>3. meeting \in Row /\ meeting.cycle \in Nat
  BY DEF Basic, TypeOK, Row
<1>4. /\ meeting' \in Row /\ meeting'.protocol = meeting.protocol
      /\ meeting'.result = meeting.result /\ meeting'.digest = meeting.digest
      /\ meeting'.approved = meeting.approved
      /\ meeting'.cycle = IF Reconvene THEN meeting.cycle + 1 ELSE meeting.cycle
      /\ \/ meeting'.status \in {"reconvening", "awaiting_human", "needs_user_input",
                                 "recording", "failed"}
         \/ work.pc = "review" /\ meeting'.status = "awaiting_user_review"
  <2> DEFINE Moves(s, c) == meeting' = [meeting EXCEPT !.status = s, !.cycle = c]
             Quiet == {"awaiting_human", "needs_user_input", "recording", "failed"}
             All == Quiet \cup {"reconvening", "awaiting_user_review"}
  <2>1. ASSUME NEW s \in All, NEW c \in Nat, Moves(s, c)
        PROVE  /\ meeting' \in Row /\ meeting'.protocol = meeting.protocol
               /\ meeting'.result = meeting.result /\ meeting'.digest = meeting.digest
               /\ meeting'.approved = meeting.approved
               /\ meeting'.cycle = c /\ meeting'.status = s
    BY <1>3, <2>1 DEF Row, Working
  <2>2. \/ Reconvene /\ Moves("reconvening", meeting.cycle + 1)
        \/ ~Reconvene /\ \E s \in Quiet : Moves(s, meeting.cycle)
        \/ ~Reconvene /\ work.pc = "review" /\ Moves("awaiting_user_review", meeting.cycle)
    <3>1. \A s : [meeting EXCEPT !.status = s] = [meeting EXCEPT !.status = s, !.cycle = meeting.cycle]
      BY <1>3 DEF Row
    <3>2. QED
      BY <1>1, <3>1 DEF Reconvene
  <2>3. meeting.cycle + 1 \in Nat
    BY <1>3
  <2> HIDE DEF Moves
  <2>4. QED
    BY <1>3, <2>1, <2>2, <2>3
<1>5. Grows
  BY <1>1 DEF Grows
<1>6. Pointed(meeting') /\ Itemized(meeting', cands') /\ Worker'
  <2>1. meeting'.status \in {"awaiting_human", "needs_user_input"} => meeting.protocol = 1
    BY <1>3 DEF Verify, BackToReview, Reconvene, Deliberate, FailMeeting, SetStatus, Row,
       Basic, Pointed
  <2>2. QED
    BY <1>1, <1>2, <1>4, <2>1 DEF Basic, Pointed, Itemized, Worker, Free
<1>7. work' \in [pc : {"free"}]
  BY <1>2 DEF Free
<1>8. contents' \in Seq(Content) /\ cands' \in Seq(Candidate) /\ Locks(cands')
  BY <1>1 DEF Basic, TypeOK
<1>9. QED
  BY <1>1, <1>2, <1>4, <1>5, <1>6, <1>7, <1>8, AfterBasic

\* A step of the worker that writes the content of a Result.
LEMMA ContentBasic ==
    ASSUME Basic, NEW output \in Output, ValidResult(output), AddResult(output),
           meeting.protocol = 2
    PROVE  /\ Basic' /\ Grows
           /\ work' = [pc |-> "items", output |-> output]
           /\ view' = Others({})
           /\ UNCHANGED <<meeting, cands, torn, hist>>
           /\ Len(contents') = Len(contents) + 1
           /\ DOMAIN contents' = 1..(Len(contents) + 1)
           /\ \A k \in DOMAIN contents : contents'[k] = contents[k]
           /\ contents'[Len(contents) + 1] = [text |-> output.text, cycle |-> meeting.cycle]
<1> DEFINE content == [text |-> output.text, cycle |-> meeting.cycle]
<1>1. /\ contents' = Append(contents, content)
      /\ view' = Others({}) /\ work' = [pc |-> "items", output |-> output]
      /\ UNCHANGED <<torn, hist, meeting, cands>>
      /\ crashes' = crashes
  BY DEF AddResult, WorkerCommits, hist
<1>2. output.text \in Texts /\ meeting.cycle \in Nat
  BY HardIsSeq DEF Basic, TypeOK, Row
<1>3. contents \in Seq(Content) /\ content \in Content
  BY <1>2 DEF Basic, TypeOK, Content
<1>4. /\ contents' \in Seq(Content)
      /\ Len(contents') = Len(contents) + 1 /\ Len(contents) \in Nat
      /\ DOMAIN contents' = 1..(Len(contents) + 1)
      /\ \A k \in DOMAIN contents : contents'[k] = contents[k]
      /\ contents'[Len(contents) + 1] = content
  BY <1>1, <1>3
<1>5. Grows
  BY <1>1 DEF Grows
<1>6. work' \in [pc : {"items"}, output : Output]
  BY <1>1
<1>7. Worker'
  <2>1. contents' # <<>>
    BY <1>4
  <2>2. contents'[Len(contents')].text = work'.output.text
    BY <1>1, <1>4
  <2>3. work'.output.hard # <<>> /\ work'.pc = "items"
    BY <1>1 DEF ValidResult
  <2>4. QED
    BY <1>1, <2>1, <2>2, <2>3 DEF Worker
<1>8. Pointed(meeting') /\ Itemized(meeting', cands')
  BY <1>1 DEF Basic
<1>9. /\ meeting' \in Row /\ meeting'.protocol = meeting.protocol
      /\ cands' \in Seq(Candidate) /\ torn' \in 0..MaxTorn /\ Locks(cands')
  BY <1>1 DEF Basic, TypeOK
<1>10. QED
  BY <1>1, <1>4, <1>5, <1>6, <1>7, <1>8, <1>9, AfterBasic

\* What is added belongs to one Result and is undecided.
AddsNew(of) ==
    \A i \in DOMAIN cands' :
        \/ i \in DOMAIN cands
        \/ /\ cands'[i].of = of /\ cands'[i].status = "proposed"
           /\ cands'[i].design = "unreviewed" /\ cands'[i].context = "none"

\* The candidates of a Result join those of the Meeting.
LEMMA Adds ==
    ASSUME Basic, NEW output \in Output, NEW of \in Nat, output.hard # <<>>,
           cands' = cands \o Added(output, of)
    PROVE  /\ cands' \in Seq(Candidate) /\ Grows /\ Locks(cands')
           /\ \A i \in DOMAIN cands : i \in DOMAIN cands' /\ cands'[i] = cands[i]
           /\ AddsNew(of)
           /\ \E i \in DOMAIN cands' : cands'[i].of = of /\ cands'[i].status = "proposed"
<1> DEFINE new == Added(output, of)
<1>1. output.hard \in Seq(BOOLEAN) /\ Len(output.hard) \in Nat \ {0}
  BY HardIsSeq
<1>2. /\ new \in Seq(Candidate) /\ Len(new) = Len(output.hard)
      /\ \A i \in 1..Len(output.hard) :
           /\ new[i].of = of /\ new[i].status = "proposed"
           /\ new[i].design = "unreviewed" /\ new[i].context = "none"
  BY AddedIsSeq
<1> HIDE DEF new
<1>3. DOMAIN new = 1..Len(output.hard) /\ new # <<>> /\ 1 \in 1..Len(output.hard)
  BY <1>1, <1>2
<1>4. cands \in Seq(Candidate) /\ cands' = cands \o new
  BY DEF Basic, TypeOK, new
<1>5. /\ cands' \in Seq(Candidate)
      /\ \A i \in DOMAIN cands : i \in DOMAIN cands' /\ cands'[i] = cands[i]
      /\ \A i \in DOMAIN cands' : i \in DOMAIN cands \/ \E k \in DOMAIN new : cands'[i] = new[k]
      /\ Len(cands) + 1 \in DOMAIN cands' /\ cands'[Len(cands) + 1] = new[1]
  <2>1. /\ cands \o new \in Seq(Candidate)
        /\ \A i \in DOMAIN cands : i \in DOMAIN (cands \o new) /\ (cands \o new)[i] = cands[i]
        /\ \A i \in DOMAIN (cands \o new) :
             i \in DOMAIN cands \/ \E k \in DOMAIN new : (cands \o new)[i] = new[k]
        /\ new # <<>> => Len(cands) + 1 \in DOMAIN (cands \o new)
                         /\ (cands \o new)[Len(cands) + 1] = new[1]
    BY ONLY <1>2, <1>4, Joined
  <2>2. QED
    BY <1>3, <1>4, <2>1, Zenon
<1>6. Grows
  BY <1>5 DEF Grows
<1>7. ASSUME NEW i \in DOMAIN cands', i \notin DOMAIN cands
      PROVE  /\ cands'[i].of = of /\ cands'[i].status = "proposed"
             /\ cands'[i].design = "unreviewed" /\ cands'[i].context = "none"
  <2>1. PICK k \in DOMAIN new : cands'[i] = new[k]
    BY <1>5, <1>7
  <2>2. QED
    BY <1>2, <1>3, <2>1
<1>8. cands'[Len(cands) + 1].of = of /\ cands'[Len(cands) + 1].status = "proposed"
  BY <1>2, <1>3, <1>5
<1>9. Locks(cands')
  BY <1>5, <1>7 DEF Locks, Basic
<1>10. QED
  BY <1>5, <1>6, <1>7, <1>8, <1>9 DEF AddsNew

\* Protocol v1: a Result.
LEMMA RecordBasic ==
    ASSUME Basic, NEW output \in Output, Record(output)
    PROVE  /\ Basic' /\ Grows /\ work' = Free /\ view' = Others({})
           /\ UNCHANGED <<contents, torn, hist>>
           /\ \A i \in DOMAIN cands : i \in DOMAIN cands' /\ cands'[i] = cands[i]
           /\ \E i \in DOMAIN cands' : cands'[i].status = "proposed"
           /\ meeting' = [meeting EXCEPT !.status = "verifying", !.digest = output.text]
<1>1. /\ meeting.protocol = 1 /\ output.hard # <<>>
      /\ cands' = cands \o Added(output, 0)
      /\ meeting' = [meeting EXCEPT !.status = "verifying", !.digest = output.text]
      /\ view' = Others({}) /\ work' = Free
      /\ UNCHANGED <<torn, hist, contents>> /\ crashes' = crashes
  BY DEF Record, ValidResult, WorkerCommits, hist
<1>2. /\ cands' \in Seq(Candidate) /\ Grows /\ Locks(cands')
      /\ \A i \in DOMAIN cands : i \in DOMAIN cands' /\ cands'[i] = cands[i]
      /\ \E i \in DOMAIN cands' : cands'[i].status = "proposed"
  BY <1>1, Adds
<1>3. output.text \in Texts /\ meeting \in Row
  BY HardIsSeq DEF Basic, TypeOK
<1>4. /\ meeting' \in Row /\ meeting'.protocol = 1 /\ meeting'.status = "verifying"
  BY <1>1, <1>3 DEF Row, Working
<1>5. Pointed(meeting') /\ Itemized(meeting', cands') /\ Worker'
  BY <1>1, <1>4 DEF Pointed, Itemized, Worker, Free
<1>6. work' \in [pc : {"free"}]
  BY <1>1 DEF Free
<1>7. torn' \in 0..MaxTorn /\ contents' \in Seq(Content)
  BY <1>1 DEF Basic, TypeOK
<1>8. QED
  BY <1>1, <1>2, <1>4, <1>5, <1>6, <1>7, AfterBasic

\* Protocol v2: its candidates, once its content is there.
LEMMA PersistBasic ==
    ASSUME Basic, PersistResultCandidates
    PROVE  /\ Basic' /\ Grows /\ work' = Free /\ view' = Others({})
           /\ UNCHANGED <<contents, torn, hist>>
           /\ Len(contents) \in Nat \ {0}
           /\ contents[Len(contents)].text = work.output.text
           /\ \A i \in DOMAIN cands : i \in DOMAIN cands' /\ cands'[i] = cands[i]
           /\ AddsNew(Len(contents))
           /\ meeting' = [meeting EXCEPT !.status = "awaiting_user_review",
                                         !.result = Len(contents),
                                         !.digest = work.output.text]
<1>1. /\ work.pc = "items"
      /\ cands' = cands \o Added(work.output, ContentByDigest(work.output.text))
      /\ meeting' = [meeting EXCEPT !.status = "awaiting_user_review",
                                    !.result = ContentByDigest(work.output.text),
                                    !.digest = work.output.text]
      /\ view' = Others({}) /\ work' = Free
      /\ UNCHANGED <<torn, hist, contents>> /\ crashes' = crashes
  BY DEF PersistResultCandidates, WorkerCommits, hist
<1>2. /\ meeting.protocol = 2 /\ work.output.hard # <<>> /\ contents # <<>>
      /\ contents[Len(contents)].text = work.output.text
      /\ contents \in Seq(Content)
      /\ work.output \in Output
  BY <1>1 DEF Basic, TypeOK, Worker
<1>3. /\ ContentByDigest(work.output.text) = Len(contents)
      /\ Len(contents) \in Nat \ {0}
  BY <1>2, NewestContent
<1>4. /\ cands' \in Seq(Candidate) /\ Grows /\ Locks(cands')
      /\ \A i \in DOMAIN cands : i \in DOMAIN cands' /\ cands'[i] = cands[i]
      /\ AddsNew(Len(contents))
      /\ \E i \in DOMAIN cands' : cands'[i].of = Len(contents)
  <2>1. cands' = cands \o Added(work.output, Len(contents)) /\ Len(contents) \in Nat
    BY <1>1, <1>3
  <2>2. QED
    BY <1>2, <2>1, Adds, Zenon
<1>5. work.output.text \in Texts /\ meeting \in Row
  BY <1>2, HardIsSeq DEF Basic, TypeOK
<1>6. /\ meeting' \in Row /\ meeting'.protocol = 2 /\ meeting'.result = Len(contents)
      /\ meeting'.status = "awaiting_user_review"
  BY <1>1, <1>2, <1>3, <1>5 DEF Row, Working
<1>7. Pointed(meeting') /\ Itemized(meeting', cands') /\ Worker'
  BY <1>1, <1>3, <1>4, <1>6 DEF Pointed, Itemized, Worker, Free
<1>8. work' \in [pc : {"free"}]
  BY <1>1 DEF Free
<1>9. torn' \in 0..MaxTorn /\ contents' \in Seq(Content)
  BY <1>1 DEF Basic, TypeOK
<1>10. QED
  BY <1>1, <1>2, <1>3, <1>4, <1>6, <1>7, <1>8, <1>9, AfterBasic

\* The Recorder starts its review, or the process dies: nothing is committed.
LEMMA RestBasic ==
    ASSUME Basic, ReviewStarts \/ Crash \/ UNCHANGED vars PROVE Basic'
<1>1. CASE ReviewStarts
  <2>1. /\ UNCHANGED <<meeting, contents, cands, view, torn, crashes>>
        /\ work' = [pc |-> "review", swarm |-> RequiresSwarmReview]
        /\ meeting.status = "recorder_reviewing"
    BY <1>1 DEF ReviewStarts, db, hist
  <2>2. RequiresSwarmReview \in BOOLEAN
    BY DEF RequiresSwarmReview
  <2>3. work' \in [pc : {"review"}, swarm : BOOLEAN] /\ work'.pc = "review"
    BY <2>1, <2>2
  <2>4. TypeOK'
    BY <2>1, <2>3 DEF Basic, TypeOK
  <2>5. Worker'
    BY <2>1, <2>3 DEF Basic, Worker, Pointed
  <2>6. QED
    BY <2>1, <2>4, <2>5 DEF Basic, Pointed, Itemized, Seen, Fresh, Locks
<1>2. CASE Crash
  <2>1. /\ UNCHANGED <<meeting, contents, cands, torn>>
        /\ view' = [h \in Handlers |-> Nothing] /\ work' = Free
        /\ crashes < MaxCrashes /\ crashes' = crashes + 1
    BY <1>2 DEF Crash, db
  <2>2. Nothing \in View /\ Nothing.pc = "idle" /\ Free \in [pc : {"free"}] /\ Free.pc = "free"
    BY DEF Nothing, View, Free
  <2>3. crashes' \in 0..MaxCrashes
    BY <2>1, ReviewAssumption DEF Basic, TypeOK
  <2>4. TypeOK'
    BY <2>1, <2>2, <2>3 DEF Basic, TypeOK
  <2>5. Seen' /\ Fresh' /\ Worker'
    BY <2>1, <2>2 DEF Seen, Fresh, Worker
  <2>6. QED
    BY <2>1, <2>4, <2>5 DEF Basic, Pointed, Itemized, Locks
<1>3. CASE UNCHANGED vars
  <2>1. UNCHANGED <<meeting, contents, cands, view, work, torn, crashes>>
    BY <1>3 DEF vars, db, hist
  <2>2. QED
    BY <2>1 DEF Basic, TypeOK, Pointed, Itemized, Seen, Fresh, Worker, Locks
<1>4. QED
  BY <1>1, <1>2, <1>3

\* The steps of Next, one by one.
LEMMA Steps ==
    ASSUME [Next]_vars
    PROVE  \/ \E h \in Handlers : \/ ReadRow(h) \/ ReadCandidates(h) \/ ReadVersion(h)
                                  \/ Return(h) \/ Handoff(h)
           \/ \E h \in Handlers : Answer(h)
           \/ \E h \in Handlers : \E i \in 1..MaxCandidates :
                \E d \in {"selected", "rejected", "deferred"} : Disposition(h, i, d)
           \/ \E h \in Handlers : \E action \in {"approve", "continue"} :
                \E items \in [Pending(h) -> Decision] : Review(h, action, items)
           \/ Verify \/ BackToReview \/ Reconvene \/ Deliberate \/ FailMeeting
           \/ \E output \in Output : Record(output)
           \/ \E output \in Output : RecordV2(output) \/ Patch(output)
           \/ PersistResultCandidates
           \/ ReviewStarts \/ Crash \/ UNCHANGED vars
BY DEF Next, Work, Command

\* Every step keeps Basic ...
LEMMA BasicStep == ASSUME Basic, [Next]_vars PROVE Basic'
<1>1. ASSUME NEW output \in Output, RecordV2(output) \/ Patch(output) PROVE Basic'
  <2>1. AddResult(output) /\ ValidResult(output) /\ meeting.protocol = 2
    BY <1>1 DEF RecordV2, Patch, Basic, Worker
  <2>2. QED
    BY <2>1, ContentBasic
<1>2. QED
  BY <1>1, Steps, Reading, AnswerBasic, DispositionBasic, ReviewBasic, StatusBasic,
     RecordBasic, PersistBasic, RestBasic

\* ... which holds at the start.
LEMMA BasicInit == Init => Basic
<1> SUFFICES ASSUME Init PROVE Basic
  OBVIOUS
<1>1. /\ meeting \in Row /\ meeting.status = "recording" /\ meeting.result = 0
      /\ contents = <<>> /\ cands = <<>> /\ view = [h \in Handlers |-> Nothing]
      /\ work = Free /\ torn = 0 /\ crashes = 0
  BY DEF Init, Row, Working
<1>2. Nothing \in View /\ Nothing.pc = "idle" /\ Free \in [pc : {"free"}] /\ Free.pc = "free"
  BY DEF Nothing, View, Free
<1>3. TypeOK
  <2>1. 0 \in 0..MaxTorn /\ 0 \in 0..MaxCrashes
    BY ReviewAssumption
  <2>2. <<>> \in Seq(Content) /\ <<>> \in Seq(Candidate)
    OBVIOUS
  <2>3. view \in [Handlers -> View]
    BY ONLY <1>1, <1>2
  <2>4. QED
    BY <1>1, <1>2, <2>1, <2>2, <2>3 DEF TypeOK
<1>4. Seen /\ Fresh /\ Worker
  BY <1>1, <1>2 DEF Seen, Fresh, Worker
<1>5. QED
  BY <1>1, <1>3, <1>4 DEF Basic, Pointed, Itemized, Locks

\* What no torn view can break.
THEOREM BasicCorrect == Spec => []Basic
<1>1. Basic /\ [Next]_vars => Basic'
  BY BasicStep
<1>2. QED
  BY <1>1, BasicInit, PTL DEF Spec

\* Every variable of a review keeps its type.
THEOREM TypeCorrect == Spec => []TypeOK
<1>1. Basic => TypeOK
  BY DEF Basic
<1>2. QED
  BY <1>1, BasicCorrect, PTL

\* The Human can always review: accept what is in the project context,
\* reject everything else.
THEOREM ReviewCorrect == Spec => []ReviewIsPossible
<1>1. Basic => ReviewIsPossible
  <2> SUFFICES ASSUME Basic, NEW h \in Handlers, Knows(h, "awaiting_user_review")
               PROVE  \E items \in [Pending(h) -> Decision] :
                        Accepts(h, "continue", items) /\ ValidReviewed(items)
    BY DEF ReviewIsPossible
  <2>1. /\ view[h].row.protocol = 2 /\ view[h].row.result # 0
        /\ Itemized(view[h].row, view[h].cands) /\ Locks(view[h].cands)
    BY DEF Knows, Basic, Seen, Pointed
  <2> DEFINE kept(i) == view[h].cands[i].context = "persist"
             items == [i \in Pending(h) |->
                         [design  |-> IF kept(i) THEN "accepted" ELSE "rejected",
                          context |-> IF kept(i) THEN "persist" ELSE "none"]]
  <2>2. items \in [Pending(h) -> Decision]
    BY DEF Decision
  <2>3. ASSUME NEW i \in Pending(h)
        PROVE  /\ ValidReviewItem(items[i]) /\ Unlocked(view[h].cands[i], items[i])
               /\ items[i].context = "persist" => items[i].design = "accepted"
    <3>1. view[h].cands[i].context = "persist" => view[h].cands[i].design = "accepted"
      BY <2>1 DEF Locks, Pending
    <3>2. QED
      BY <3>1 DEF ValidReviewItem, Unlocked
  <2>4. Accepts(h, "continue", items)
    BY <2>1, <2>3 DEF Accepts
  <2>5. ValidReviewed(items)
    <3>1. PICK i \in DOMAIN view[h].cands : view[h].cands[i].of = view[h].row.result
      BY <2>1 DEF Itemized
    <3>2. i \in DOMAIN items
      BY <3>1 DEF Pending
    <3>3. items # <<>>
      BY <3>2
    <3>4. QED
      BY <2>3, <3>3 DEF ValidReviewed
  <2> HIDE DEF items
  <2>6. QED
    BY <2>2, <2>4, <2>5
<1>2. QED
  BY <1>1, BasicCorrect, PTL

-----------------------------------------------------------------------------
(* What holds as long as no command has committed on a torn view.          *)

\* Where the worker is and what it works on agree.
Place ==
    /\ work.pc = "items" => meeting.status \in {"recording", "recorder_reviewing"}
    /\ work.pc = "review" => meeting.status = "recorder_reviewing"
    /\ meeting.status \in {"verifying", "awaiting_human", "needs_user_input"} =>
         meeting.protocol = 1
    /\ meeting.status = "reconvening" => meeting.protocol = 2

\* Results and their candidates are numbered in the order they were written.
Rows ==
    /\ meeting.protocol = 1 => contents = <<>> /\ meeting.result = 0
    /\ meeting.protocol = 2 =>
        /\ meeting.result <= Len(contents)
        /\ work.pc = "items" => meeting.result < Len(contents)
        /\ meeting.result # 0 => contents[meeting.result].text = meeting.digest
        /\ \A i \in DOMAIN cands : 1 <= cands[i].of /\ cands[i].of <= meeting.result

Cycles ==
    /\ \A k \in DOMAIN contents : contents[k].cycle <= meeting.cycle
    /\ \A k, l \in DOMAIN contents : k <= l => contents[k].cycle <= contents[l].cycle

Shape == Place /\ Rows /\ Cycles

\* The row after a disposition of i: the last one concludes.
Disposed(i) ==
    IF \E j \in DOMAIN cands \ {i} : cands[j].status = "proposed"
    THEN meeting ELSE [meeting EXCEPT !.status = "concluded"]

\* One candidate decided, and nothing else about the others.
DecidedOne(i, d) ==
    /\ i \in DOMAIN cands /\ cands[i].status = "proposed"
    /\ DOMAIN cands' = DOMAIN cands
    /\ \A j \in DOMAIN cands :
         cands'[j] = IF j = i THEN [cands[j] EXCEPT !.status = d] ELSE cands[j]

\* Those of the current Result decided, and nothing else about the others.
DecidedAll(action, items) ==
    /\ DOMAIN cands' = DOMAIN cands
    /\ \A j \in DOMAIN cands : cands[j].of # meeting.result => cands'[j] = cands[j]
    /\ \A j \in DOMAIN cands : cands[j].of = meeting.result =>
         /\ cands'[j] = [cands[j] EXCEPT !.design = items[j].design,
                                         !.context = items[j].context,
                                         !.status = CandidateStatus(items[j].design)]
         /\ items[j] \in Decision
         /\ action = "approve" => items[j].design = "accepted"
         /\ Unlocked(cands[j], items[j])

\* A Disposition whose view is not torn decides about the candidate as it is,
\* whatever was committed before.
LEMMA FreshDisposition ==
    ASSUME Basic, NEW h \in Handlers, NEW i,
           NEW d \in {"selected", "rejected", "deferred"}, Disposition(h, i, d), torn' = torn
    PROVE  meeting.status = "awaiting_human" /\ meeting.protocol = 1 /\ DecidedOne(i, d)
<1>1. /\ view[h].pc = "ready" /\ Commits(h) /\ view[h].row.status = "awaiting_human"
      /\ view[h].cands[i].status = "proposed"
  BY DEF Disposition, Knows
<1>2. view[h].row = meeting /\ view[h].cands = cands
  BY <1>1, CommandCommits
<1>3. meeting.protocol = 1
  BY <1>1, <1>2 DEF Basic, Pointed
<1>4. /\ i \in DOMAIN cands /\ DOMAIN cands' = DOMAIN cands
      /\ \A j \in DOMAIN cands :
           cands'[j] = IF j = i THEN [cands[j] EXCEPT !.status = d] ELSE cands[j]
  BY DispositionBasic
<1>5. QED
  BY <1>1, <1>2, <1>3, <1>4 DEF DecidedOne

\* A Review whose view is not torn decides about the Result the row points to.
LEMMA FreshReview ==
    ASSUME Basic, NEW h \in Handlers, NEW action \in {"approve", "continue"},
           NEW items \in [Pending(h) -> Decision], Review(h, action, items), torn' = torn
    PROVE  /\ meeting.status = "awaiting_user_review" /\ meeting.protocol = 2
           /\ DecidedAll(action, items)
<1>1. /\ view[h].pc = "ready" /\ Commits(h)
      /\ view[h].row.status = "awaiting_user_review" /\ view[h].row.protocol = 2
      /\ \A i \in Pending(h) : /\ action = "approve" => items[i].design = "accepted"
                               /\ Unlocked(view[h].cands[i], items[i])
  BY DEF Review, Accepts, Knows
<1>2. view[h].row = meeting /\ view[h].cands = cands
  BY <1>1, CommandCommits
<1>3. Pending(h) = {j \in DOMAIN cands : cands[j].of = meeting.result}
  BY <1>2 DEF Pending
<1>4. DOMAIN cands' = DOMAIN cands /\ cands' = Reviewed(Pending(h), items)
  BY ReviewBasic
<1>5. ASSUME NEW j \in DOMAIN cands
      PROVE  IF cands[j].of = meeting.result
                THEN /\ cands'[j] = [cands[j] EXCEPT !.design = items[j].design,
                                                     !.context = items[j].context,
                                                     !.status = CandidateStatus(items[j].design)]
                     /\ items[j] \in Decision
                     /\ action = "approve" => items[j].design = "accepted"
                     /\ Unlocked(cands[j], items[j])
                ELSE cands'[j] = cands[j]
  <2>1. CASE cands[j].of = meeting.result
    <3>1. j \in Pending(h)
      BY <1>3, <2>1
    <3>2. cands'[j] = [cands[j] EXCEPT !.design = items[j].design,
                                       !.context = items[j].context,
                                       !.status = CandidateStatus(items[j].design)]
      BY <1>4, <3>1 DEF Reviewed
    <3>3. items[j] \in Decision
      BY <3>1
    <3>4. QED
      BY <1>1, <1>2, <2>1, <3>1, <3>2, <3>3
  <2>2. CASE cands[j].of # meeting.result
    <3>1. j \notin Pending(h)
      BY <1>3, <2>2
    <3>2. QED
      BY <1>4, <2>2, <3>1 DEF Reviewed
  <2>3. QED
    BY <2>1, <2>2
<1>6. QED
  BY <1>1, <1>2, <1>4, <1>5 DEF DecidedAll

\* What the sound steps do.
LEMMA SoundAnswer ==
    ASSUME Basic, Place, NEW h \in Handlers, Answer(h), torn' = 0
    PROVE  /\ torn = 0 /\ UNCHANGED <<contents, cands, work, handed>>
           /\ view' = Others({h})
           /\ meeting.status = "needs_user_input" /\ meeting.protocol = 1
           /\ work.pc = "free"
           /\ meeting' = [meeting EXCEPT !.status = "deliberating", !.cycle = meeting.cycle + 1]
<1>1. view[h].pc = "ready" /\ Commits(h) /\ view[h].row.status = "needs_user_input"
  BY DEF Answer, Knows
<1>2. /\ view' = Others({h}) /\ work' = work /\ handed' = handed /\ torn = 0
      /\ view[h].row = meeting
  BY <1>1, CommandCommits
<1>3. work.pc = "free" /\ meeting.protocol = 1
  BY <1>1, <1>2 DEF Basic, TypeOK, Place
<1>4. QED
  BY <1>1, <1>2, <1>3 DEF Answer

\* A Disposition decides about the candidate as it is.
LEMMA SoundDisposition ==
    ASSUME Basic, Place, NEW h \in Handlers, NEW i,
           NEW d \in {"selected", "rejected", "deferred"}, Disposition(h, i, d), torn' = 0
    PROVE  /\ torn = 0 /\ UNCHANGED <<contents, work, handed>>
           /\ view' = Others({h})
           /\ meeting.status = "awaiting_human" /\ meeting.protocol = 1
           /\ work.pc = "free"
           /\ DecidedOne(i, d)
           /\ meeting' = Disposed(i)
<1>1. /\ view[h].pc = "ready" /\ Commits(h) /\ view[h].row.status = "awaiting_human"
      /\ UNCHANGED contents
      /\ meeting' = IF Remaining(h, i) # {} THEN meeting
                    ELSE [meeting EXCEPT !.status = "concluded",
                                         !.cycle = view[h].row.cycle,
                                         !.digest = view[h].row.digest]
  BY DEF Disposition, Knows
<1>2. /\ view' = Others({h}) /\ work' = work /\ handed' = handed /\ torn = 0
      /\ torn' = torn /\ view[h].row = meeting /\ view[h].cands = cands
  BY <1>1, CommandCommits
<1>3. work.pc = "free" /\ meeting.protocol = 1
  BY <1>1, <1>2 DEF Basic, TypeOK, Place
<1>4. [meeting EXCEPT !.status = "concluded", !.cycle = meeting.cycle,
                      !.digest = meeting.digest] = [meeting EXCEPT !.status = "concluded"]
  BY DEF Basic, TypeOK, Row
<1>5. Remaining(h, i) # {} <=> \E j \in DOMAIN cands \ {i} : cands[j].status = "proposed"
  BY <1>2 DEF Remaining
<1>6. meeting' = Disposed(i)
  BY <1>1, <1>2, <1>4, <1>5 DEF Disposed
<1>7. DecidedOne(i, d)
  BY <1>2, FreshDisposition
<1>8. QED
  BY <1>1, <1>2, <1>3, <1>6, <1>7

\* A Review decides about the Result the row points to.
LEMMA SoundReview ==
    ASSUME Basic, Place, NEW h \in Handlers, NEW action \in {"approve", "continue"},
           NEW items \in [Pending(h) -> Decision], Review(h, action, items), torn' = 0
    PROVE  /\ torn = 0 /\ UNCHANGED <<contents, work, handed>>
           /\ view' = Others({h})
           /\ meeting.status = "awaiting_user_review" /\ meeting.protocol = 2
           /\ meeting.result # 0 /\ work.pc = "free"
           /\ DecidedAll(action, items)
           /\ meeting' = [meeting EXCEPT
                !.status = IF action = "approve" THEN "concluded" ELSE "recorder_reviewing",
                !.approved = IF action = "approve" THEN meeting.digest ELSE meeting.approved]
<1>1. /\ view[h].pc = "ready" /\ Commits(h)
      /\ view[h].row.status = "awaiting_user_review" /\ view[h].row.protocol = 2
      /\ UNCHANGED contents
      /\ meeting' =
           [meeting EXCEPT !.cycle = view[h].row.cycle, !.result = view[h].row.result,
                           !.digest = view[h].row.digest,
                           !.status = IF action = "approve" THEN "concluded"
                                                            ELSE "recorder_reviewing",
                           !.approved = Approved(h, action)]
  BY DEF Review, Accepts, Knows
<1>2. /\ view' = Others({h}) /\ work' = work /\ handed' = handed /\ torn = 0
      /\ torn' = torn /\ view[h].row = meeting
  BY <1>1, CommandCommits
<1>3. work.pc = "free" /\ meeting.result # 0
  BY <1>1, <1>2 DEF Basic, TypeOK, Place, Pointed
<1>4. meeting' = [meeting EXCEPT
                !.status = IF action = "approve" THEN "concluded" ELSE "recorder_reviewing",
                !.approved = IF action = "approve" THEN meeting.digest ELSE meeting.approved]
  <2>1. Approved(h, action) = IF action = "approve" THEN meeting.digest ELSE meeting.approved
    BY <1>2 DEF Approved
  <2>2. ASSUME NEW s, NEW a
        PROVE  [meeting EXCEPT !.cycle = meeting.cycle, !.result = meeting.result,
                               !.digest = meeting.digest, !.status = s, !.approved = a]
                 = [meeting EXCEPT !.status = s, !.approved = a]
    BY DEF Basic, TypeOK, Row
  <2>3. QED
    BY <1>1, <1>2, <2>1, <2>2
<1>5. DecidedAll(action, items)
  BY <1>2, FreshReview
<1>6. QED
  BY <1>1, <1>2, <1>3, <1>4, <1>5

\* What the types say of cycles, of the Result and of the contents.
LEMMA Typed ==
    ASSUME Basic
    PROVE  /\ meeting.cycle \in Nat /\ meeting.result \in Nat /\ meeting.protocol \in {1, 2}
           /\ Len(contents) \in Nat /\ DOMAIN contents = 1..Len(contents)
           /\ \A k \in DOMAIN contents : contents[k].cycle \in Nat
           /\ \A i \in DOMAIN cands : cands[i].of \in Nat
<1>1. /\ meeting \in Row /\ contents \in Seq(Content)
      /\ cands \in Seq(Candidate)
  BY DEF Basic, TypeOK
<1>2. \A k \in DOMAIN contents : contents[k] \in Content
  BY <1>1
<1>3. \A i \in DOMAIN cands : cands[i] \in Candidate
  BY <1>1
<1>4. QED
  BY <1>1, <1>2, <1>3 DEF Row, Candidate, Content

\* Steps that change neither the rows nor the work in progress, but may give
\* the latter up.
LEMMA ShapeRests ==
    ASSUME Shape, UNCHANGED db, work' = work \/ work' = Free PROVE Shape'
<1>1. UNCHANGED <<meeting, contents, cands>> /\ Free.pc = "free"
  BY DEF db, Free
<1>2. QED
  BY <1>1 DEF Shape, Place, Rows, Cycles

\* Commands, which leave the contents and the Result pointed to.
LEMMA ShapeOfCommand ==
    ASSUME Basic, Shape, torn' = 0,
           \/ \E h \in Handlers : Answer(h)
           \/ \E h \in Handlers : \E i \in 1..MaxCandidates :
                \E d \in {"selected", "rejected", "deferred"} : Disposition(h, i, d)
           \/ \E h \in Handlers : \E action \in {"approve", "continue"} :
                \E items \in [Pending(h) -> Decision] : Review(h, action, items)
    PROVE  Shape'
<1> DEFINE Quiet == work.pc = "free" /\ UNCHANGED <<contents, work>>
           Moved == /\ meeting'.protocol = meeting.protocol
                    /\ meeting'.result = meeting.result /\ meeting'.digest = meeting.digest
                    /\ meeting'.cycle \in {meeting.cycle, meeting.cycle + 1}
                    /\ \/ meeting'.status \in {"deliberating", "concluded", "recorder_reviewing"}
                       \/ meeting'.status = meeting.status
           Same == /\ DOMAIN cands' = DOMAIN cands
                   /\ \A j \in DOMAIN cands : cands'[j].of = cands[j].of
<1>1. Quiet /\ Moved /\ Same
  <2>1. meeting \in Row
    BY DEF Basic, TypeOK
  <2>2. ASSUME NEW h \in Handlers, Answer(h) PROVE Quiet /\ Moved /\ Same
    <3>1. /\ UNCHANGED <<contents, cands, work>> /\ work.pc = "free"
          /\ meeting' = [meeting EXCEPT !.status = "deliberating", !.cycle = meeting.cycle + 1]
      BY <2>2, SoundAnswer DEF Shape
    <3>2. QED
      BY <2>1, <3>1 DEF Row
  <2>3. ASSUME NEW h \in Handlers, NEW i \in 1..MaxCandidates,
               NEW d \in {"selected", "rejected", "deferred"}, Disposition(h, i, d)
        PROVE  Quiet /\ Moved /\ Same
    <3>1. /\ UNCHANGED <<contents, work>> /\ work.pc = "free"
          /\ meeting' = Disposed(i)
      <4>1. Basic /\ Place /\ Disposition(h, i, d) /\ torn' = 0
        BY <2>3 DEF Shape
      <4>2. UNCHANGED <<contents, work, handed>> /\ work.pc = "free" /\ meeting' = Disposed(i)
        BY ONLY <4>1, SoundDisposition
      <4>3. QED
        BY <4>2
    <3>2. Same
      BY <2>3, DispositionBasic DEF Grows
    <3>3. Moved
      BY <2>1, <3>1 DEF Row, Disposed
    <3>4. QED
      BY <3>1, <3>2, <3>3
  <2>4. ASSUME NEW h \in Handlers, NEW action \in {"approve", "continue"},
               NEW items \in [Pending(h) -> Decision], Review(h, action, items)
        PROVE  Quiet /\ Moved /\ Same
    <3>1. /\ UNCHANGED <<contents, work>> /\ work.pc = "free"
          /\ meeting' = [meeting EXCEPT
                !.status = IF action = "approve" THEN "concluded" ELSE "recorder_reviewing",
                !.approved = IF action = "approve" THEN meeting.digest ELSE meeting.approved]
      BY <2>4, SoundReview DEF Shape
    <3>2. Same
      BY <2>4, ReviewBasic DEF Grows
    <3>3. Moved
      BY <2>1, <3>1 DEF Row
    <3>4. QED
      BY <3>1, <3>2, <3>3
  <2>5. QED
    BY <2>2, <2>3, <2>4
<1>2. Place'
  BY <1>1 DEF Shape, Place
<1>3. Rows'
  BY <1>1 DEF Shape, Rows
<1>4. Cycles'
  BY <1>1, Typed DEF Shape, Cycles
<1>5. QED
  BY <1>2, <1>3, <1>4 DEF Shape

\* The worker moves the Meeting on.
LEMMA ShapeOfStatus ==
    ASSUME Basic, Shape, Verify \/ BackToReview \/ Reconvene \/ Deliberate \/ FailMeeting
    PROVE  Shape'
<1>1. /\ work'.pc = "free" /\ UNCHANGED <<contents, cands>>
      /\ meeting'.protocol = meeting.protocol
      /\ meeting'.result = meeting.result /\ meeting'.digest = meeting.digest
      /\ meeting'.cycle \in {meeting.cycle, meeting.cycle + 1}
  BY StatusBasic DEF Free
<1>2. /\ meeting'.status \in {"awaiting_human", "needs_user_input"} => meeting.protocol = 1
      /\ meeting'.status # "verifying"
      /\ meeting'.status = "reconvening" => meeting.protocol = 2
  <2>1. meeting \in Row
    BY DEF Basic, TypeOK
  <2>2. CASE Verify
    BY <2>1, <2>2 DEF Verify, SetStatus, Shape, Place, Row
  <2>3. CASE BackToReview \/ Reconvene
    BY <2>1, <2>3 DEF BackToReview, Reconvene, SetStatus, Basic, Worker, Row
  <2>4. CASE Deliberate \/ FailMeeting
    BY <2>1, <2>4 DEF Deliberate, FailMeeting, SetStatus, Row
  <2>5. QED
    BY <2>2, <2>3, <2>4
<1>3. Place'
  BY <1>1, <1>2 DEF Place
<1>4. Rows'
  BY <1>1 DEF Shape, Rows
<1>5. Cycles'
  BY <1>1, Typed DEF Shape, Cycles
<1>6. QED
  BY <1>3, <1>4, <1>5 DEF Shape

\* The content of a Result follows all others, in the present cycle.
LEMMA ShapeOfContent ==
    ASSUME Basic, Shape, NEW output \in Output, RecordV2(output) \/ Patch(output)
    PROVE  Shape'
<1>1. /\ AddResult(output) /\ ValidResult(output) /\ meeting.protocol = 2
      /\ meeting.status \in {"recording", "recorder_reviewing"}
  BY DEF RecordV2, Patch, Basic, Worker, Shape, Place
<1>2. /\ work'.pc = "items" /\ UNCHANGED <<meeting, cands>>
      /\ Len(contents') = Len(contents) + 1
      /\ DOMAIN contents' = 1..(Len(contents) + 1)
      /\ \A k \in DOMAIN contents : contents'[k] = contents[k]
      /\ contents'[Len(contents) + 1].cycle = meeting.cycle
  <2>1. /\ work' = [pc |-> "items", output |-> output] /\ UNCHANGED <<meeting, cands>>
        /\ Len(contents') = Len(contents) + 1
        /\ DOMAIN contents' = 1..(Len(contents) + 1)
        /\ \A k \in DOMAIN contents : contents'[k] = contents[k]
        /\ contents'[Len(contents) + 1] = [text |-> output.text, cycle |-> meeting.cycle]
    BY <1>1, ContentBasic, Zenon
  <2>2. QED
    BY ONLY <2>1
<1>3. Place'
  BY <1>1, <1>2 DEF Shape, Place
<1>4. Rows'
  BY <1>1, <1>2, Typed DEF Shape, Rows
<1>5. Cycles'
  BY <1>2, Typed DEF Shape, Cycles
<1>6. QED
  BY <1>3, <1>4, <1>5 DEF Shape

\* Protocol v1 writes no content of this kind.
LEMMA ShapeOfRecord ==
    ASSUME Basic, Shape, NEW output \in Output, Record(output)
    PROVE  Shape'
<1>1. /\ meeting.protocol = 1 /\ work'.pc = "free" /\ UNCHANGED contents
      /\ meeting' = [meeting EXCEPT !.status = "verifying", !.digest = output.text]
  <2>1. /\ work' = Free /\ UNCHANGED contents
        /\ meeting' = [meeting EXCEPT !.status = "verifying", !.digest = output.text]
    BY RecordBasic, Zenon
  <2>2. QED
    BY ONLY <2>1, Record(output) DEF Record, Free
<1>2. /\ meeting'.protocol = 1 /\ meeting'.status = "verifying"
      /\ meeting'.cycle = meeting.cycle /\ meeting'.result = meeting.result
  BY <1>1 DEF Basic, TypeOK, Row
<1>3. QED
  BY <1>1, <1>2 DEF Shape, Place, Rows, Cycles

\* The newest content becomes the Result.
LEMMA ShapeOfCandidates ==
    ASSUME Basic, Shape, PersistResultCandidates PROVE Shape'
<1>1. /\ work'.pc = "free" /\ UNCHANGED contents
      /\ Len(contents) \in Nat \ {0}
      /\ contents[Len(contents)].text = work.output.text
      /\ \A i \in DOMAIN cands : i \in DOMAIN cands' /\ cands'[i] = cands[i]
      /\ \A i \in DOMAIN cands' : i \in DOMAIN cands \/ cands'[i].of = Len(contents)
      /\ meeting' = [meeting EXCEPT !.status = "awaiting_user_review",
                                    !.result = Len(contents),
                                    !.digest = work.output.text]
  BY PersistBasic DEF Free, AddsNew
<1>2. meeting.protocol = 2
  BY DEF PersistResultCandidates, Basic, Worker
<1>3. /\ meeting'.protocol = 2 /\ meeting'.status = "awaiting_user_review"
      /\ meeting'.cycle = meeting.cycle /\ meeting'.result = Len(contents)
      /\ meeting'.digest = work.output.text
  BY <1>1, <1>2 DEF Basic, TypeOK, Row
<1>4. Place'
  BY <1>1, <1>3 DEF Place
<1>5. Rows'
  <2>1. ASSUME NEW i \in DOMAIN cands'
        PROVE  1 <= cands'[i].of /\ cands'[i].of <= Len(contents)
    BY <1>1, <1>2, Typed DEF Shape, Rows
  <2>2. QED
    BY <1>1, <1>3, <2>1 DEF Rows
<1>6. Cycles'
  BY <1>1, <1>3 DEF Shape, Cycles
<1>7. QED
  BY <1>4, <1>5, <1>6 DEF Shape

\* What commits nothing.
LEMMA ShapeOfRest ==
    ASSUME Basic, Shape,
           \/ \E h \in Handlers : \/ ReadRow(h) \/ ReadCandidates(h) \/ ReadVersion(h)
                                  \/ Return(h) \/ Handoff(h)
           \/ ReviewStarts \/ Crash \/ UNCHANGED vars
    PROVE  Shape'
<1>1. CASE ReviewStarts
  <2>1. /\ UNCHANGED <<meeting, contents, cands>> /\ meeting.status = "recorder_reviewing"
        /\ work'.pc = "review"
    BY <1>1 DEF ReviewStarts, db
  <2>2. QED
    BY <2>1 DEF Shape, Place, Rows, Cycles
<1>2. CASE ~ReviewStarts
  BY <1>2, ShapeRests DEF ReadRow, ReadCandidates, ReadVersion, Return, Handoff, Crash, vars
<1>3. QED
  BY <1>1, <1>2

\* Every sound step keeps Shape.
LEMMA ShapeStep == ASSUME Basic, Shape, [Next]_vars, torn' = 0 PROVE Shape'
BY Steps, ShapeOfCommand, ShapeOfStatus, ShapeOfContent, ShapeOfRecord,
   ShapeOfCandidates, ShapeOfRest

\* No step takes back a command that committed on a torn view.
LEMMA SoundBefore == ASSUME Basic, [Next]_vars, torn' = 0 PROVE torn = 0
<1>1. torn \in Nat /\ (torn' = torn \/ torn' = torn + 1 => torn = 0)
  BY ReviewAssumption DEF Basic, TypeOK
<1>2. ASSUME NEW h \in Handlers, Commits(h) PROVE torn' = torn \/ torn' = torn + 1
  BY <1>1, <1>2 DEF Commits
<1>3. ASSUME NEW h \in Handlers, Answer(h) PROVE torn' = torn \/ torn' = torn + 1
  BY <1>2, <1>3 DEF Answer
<1>4. ASSUME NEW h \in Handlers, NEW i, NEW d, Disposition(h, i, d)
      PROVE  torn' = torn \/ torn' = torn + 1
  BY <1>2, <1>4 DEF Disposition
<1>5. ASSUME NEW h \in Handlers, NEW action, NEW items, Review(h, action, items)
      PROVE  torn' = torn \/ torn' = torn + 1
  BY <1>2, <1>5 DEF Review
<1>6. ASSUME NEW output \in Output, \/ Record(output) \/ RecordV2(output) \/ Patch(output)
      PROVE  torn' = torn
  BY <1>6 DEF Record, RecordV2, Patch, AddResult, WorkerCommits
<1>7. ASSUME NEW h \in Handlers, \/ ReadRow(h) \/ ReadCandidates(h) \/ ReadVersion(h)
                                 \/ Return(h) \/ Handoff(h)
      PROVE  torn' = torn
  BY <1>7 DEF ReadRow, ReadCandidates, ReadVersion, Return, Handoff
<1>8. ASSUME \/ Verify \/ BackToReview \/ Reconvene \/ Deliberate \/ FailMeeting
             \/ PersistResultCandidates \/ ReviewStarts \/ Crash \/ UNCHANGED vars
      PROVE  torn' = torn
  BY <1>8 DEF Verify, BackToReview, Reconvene, Deliberate, FailMeeting,
     PersistResultCandidates, WorkerCommits, ReviewStarts, Crash, vars
<1>9. torn' = torn \/ torn' = torn + 1
  BY <1>3, <1>4, <1>5, <1>6, <1>7, <1>8, Steps
<1>10. QED
  BY <1>1, <1>9

\* Steps that leave the candidates alone.
LEMMA CandidatesRest ==
    ASSUME \/ \E h \in Handlers : \/ ReadRow(h) \/ ReadCandidates(h) \/ ReadVersion(h)
                                  \/ Return(h) \/ Handoff(h)
           \/ \E h \in Handlers : Answer(h)
           \/ Verify \/ BackToReview \/ Reconvene \/ Deliberate \/ FailMeeting
           \/ \E output \in Output : RecordV2(output) \/ Patch(output)
           \/ ReviewStarts \/ Crash \/ UNCHANGED vars
    PROVE  cands' = cands
<1>1. ASSUME NEW h \in Handlers, \/ ReadRow(h) \/ ReadCandidates(h) \/ ReadVersion(h)
                                 \/ Return(h) \/ Handoff(h) \/ Answer(h)
      PROVE  cands' = cands
  BY <1>1 DEF ReadRow, ReadCandidates, ReadVersion, Return, Handoff, Answer, db
<1>2. ASSUME NEW output \in Output, RecordV2(output) \/ Patch(output)
      PROVE  cands' = cands
  BY <1>2 DEF RecordV2, Patch, AddResult
<1>3. ASSUME \/ Verify \/ BackToReview \/ Reconvene \/ Deliberate \/ FailMeeting
             \/ ReviewStarts \/ Crash \/ UNCHANGED vars
      PROVE  cands' = cands
  BY <1>3 DEF Verify, BackToReview, Reconvene, Deliberate, FailMeeting, ReviewStarts,
     Crash, vars, db
<1>4. QED
  BY <1>1, <1>2, <1>3

\* What DecisionsStay says of a candidate.
Stays(i) ==
    /\ cands[i].design = "rejected" => cands'[i].design = "rejected"
    /\ cands[i].context = "persist" => cands'[i].context = "persist"
    /\ meeting.protocol = 2 /\ cands[i].of # meeting.result => cands'[i] = cands[i]
    /\ meeting.protocol = 1 /\ cands[i].status # "proposed" => cands'[i] = cands[i]

\* A step on a view that is not torn changes a candidate only by deciding
\* about it, whatever was committed before.
LEMMA StayStep ==
    ASSUME Basic, [Next]_vars, torn' = torn, NEW i \in DOMAIN cands
    PROVE  Stays(i)
<1>1. cands[i] \in Candidate
  BY DEF Basic, TypeOK
<1>2. CASE cands'[i] = cands[i]
  BY <1>2 DEF Stays
<1>3. ASSUME NEW h \in Handlers, NEW j \in 1..MaxCandidates,
             NEW d \in {"selected", "rejected", "deferred"}, Disposition(h, j, d)
      PROVE  Stays(i)
  <2>1. meeting.protocol = 1 /\ DecidedOne(j, d)
    BY <1>3, FreshDisposition
  <2>2. QED
    BY <1>1, <2>1 DEF DecidedOne, Stays, Candidate
<1>4. ASSUME NEW h \in Handlers, NEW action \in {"approve", "continue"},
             NEW items \in [Pending(h) -> Decision], Review(h, action, items)
      PROVE  Stays(i)
  <2>1. meeting.protocol = 2 /\ DecidedAll(action, items)
    BY <1>4, FreshReview
  <2>2. CASE cands[i].of # meeting.result
    BY <1>2, <2>1, <2>2 DEF DecidedAll
  <2>3. CASE cands[i].of = meeting.result
    <3>1. /\ cands'[i].design = items[i].design /\ cands'[i].context = items[i].context
          /\ Unlocked(cands[i], items[i])
      BY <1>1, <2>1, <2>3 DEF DecidedAll, Candidate
    <3>2. QED
      BY <2>1, <2>3, <3>1 DEF Stays, Unlocked
  <2>4. QED
    BY <2>2, <2>3
<1>5. ASSUME PersistResultCandidates \/ \E output \in Output : Record(output)
      PROVE  cands'[i] = cands[i]
  BY <1>5, PersistBasic, RecordBasic
<1>6. QED
  BY <1>2, <1>3, <1>4, <1>5, Steps, CandidatesRest

-----------------------------------------------------------------------------
(* A Result is decided as a whole.                                         *)

\* Protocol v1: there is something to verify or to decide, until there is not.
Left ==
    meeting.protocol = 1 =>
        /\ meeting.status \in {"verifying", "awaiting_human"} =>
             \E i \in DOMAIN cands : cands[i].status = "proposed"
        /\ meeting.status = "concluded" =>
             \A i \in DOMAIN cands : cands[i].status # "proposed"

\* Protocol v2: the candidates of a Result are reviewed together.
Alike ==
    meeting.protocol = 2 => \A i, j \in DOMAIN cands :
        cands[i].of = cands[j].of =>
            (cands[i].design = "unreviewed" <=> cands[j].design = "unreviewed")

\* Steps that commit nothing leave the rows alone.
LEMMA RowsRest ==
    ASSUME \/ \E h \in Handlers : \/ ReadRow(h) \/ ReadCandidates(h) \/ ReadVersion(h)
                                  \/ Return(h) \/ Handoff(h)
           \/ ReviewStarts \/ Crash \/ UNCHANGED vars
    PROVE  UNCHANGED <<meeting, contents, cands>>
BY DEF ReadRow, ReadCandidates, ReadVersion, Return, Handoff, ReviewStarts, Crash, vars, db

\* Where the worker takes the Meeting without writing anything else.
LEMMA StatusMoves ==
    ASSUME Basic, Shape, Verify \/ BackToReview \/ Reconvene \/ Deliberate \/ FailMeeting
    PROVE  \/ /\ meeting.status = "verifying"
              /\ meeting'.status \in {"awaiting_human", "needs_user_input"}
           \/ /\ meeting.status = "recorder_reviewing" /\ work.pc = "review"
              /\ meeting'.status = "awaiting_user_review"
           \/ /\ meeting.status = "recorder_reviewing" /\ work.pc = "review"
              /\ meeting'.status = "reconvening" /\ meeting'.cycle = meeting.cycle + 1
           \/ /\ meeting.status \in {"reconvening", "deliberating"}
              /\ meeting'.status \in {"recording", "needs_user_input"}
           \/ meeting.status \in Working /\ meeting'.status = "failed"
<1>1. meeting \in Row /\ (work.pc = "review" => meeting.status = "recorder_reviewing")
  BY DEF Basic, TypeOK, Shape, Place
<1>2. CASE Verify
  BY <1>1, <1>2 DEF Verify, SetStatus, Row
<1>3. CASE BackToReview
  BY <1>1, <1>3 DEF BackToReview, SetStatus, Row
<1>4. CASE Reconvene
  BY <1>1, <1>4 DEF Reconvene, Row
<1>5. CASE Deliberate
  BY <1>1, <1>5 DEF Deliberate, SetStatus, Row
<1>6. CASE FailMeeting
  BY <1>1, <1>6 DEF FailMeeting, SetStatus, Row
<1>7. QED
  BY <1>2, <1>3, <1>4, <1>5, <1>6

\* Only the last decision of protocol v1 leaves nothing, and it concludes.
LEMMA LeftStep == ASSUME Basic, Shape, Left, [Next]_vars, torn' = 0 PROVE Left'
<1>1. meeting \in Row /\ \A j \in DOMAIN cands : cands[j] \in Candidate
  BY DEF Basic, TypeOK
<1>2. ASSUME NEW h \in Handlers, Answer(h) PROVE Left'
  <2>1. meeting' = [meeting EXCEPT !.status = "deliberating", !.cycle = meeting.cycle + 1]
    BY <1>2, SoundAnswer DEF Shape
  <2>2. meeting'.status = "deliberating"
    BY <1>1, <2>1 DEF Row
  <2>3. QED
    BY <2>2 DEF Left
<1>3. ASSUME NEW h \in Handlers, NEW i \in 1..MaxCandidates,
             NEW d \in {"selected", "rejected", "deferred"}, Disposition(h, i, d)
      PROVE  Left'
  <2>1. Basic /\ Place /\ Disposition(h, i, d) /\ torn' = 0
    BY <1>3 DEF Shape
  <2>2. meeting.status = "awaiting_human" /\ meeting' = Disposed(i) /\ DecidedOne(i, d)
    BY ONLY <2>1, SoundDisposition
  <2>3. CASE \E j \in DOMAIN cands \ {i} : cands[j].status = "proposed"
    <3>1. meeting' = meeting
      BY <2>2, <2>3 DEF Disposed
    <3>2. \E j \in DOMAIN cands' : cands'[j].status = "proposed"
      BY <2>2, <2>3 DEF DecidedOne
    <3>3. QED
      BY <2>2, <3>1, <3>2 DEF Left
  <2>4. CASE ~\E j \in DOMAIN cands \ {i} : cands[j].status = "proposed"
    <3>1. meeting'.status = "concluded"
      BY <1>1, <2>2, <2>4 DEF Disposed, Row
    <3>2. \A j \in DOMAIN cands' : cands'[j].status # "proposed"
      BY <1>1, <2>2, <2>4 DEF DecidedOne, Candidate
    <3>3. QED
      BY <3>1, <3>2 DEF Left
  <2>5. QED
    BY <2>3, <2>4
<1>4. ASSUME meeting.protocol = 2, meeting'.protocol = meeting.protocol PROVE Left'
  BY <1>4 DEF Left
<1>5. ASSUME NEW h \in Handlers, NEW action \in {"approve", "continue"},
             NEW items \in [Pending(h) -> Decision], Review(h, action, items)
      PROVE  Left'
  <2>1. Basic /\ Place /\ Review(h, action, items) /\ torn' = 0
    BY <1>5 DEF Shape
  <2>2. /\ meeting.protocol = 2
        /\ meeting' = [meeting EXCEPT
             !.status = IF action = "approve" THEN "concluded" ELSE "recorder_reviewing",
             !.approved = IF action = "approve" THEN meeting.digest ELSE meeting.approved]
    BY ONLY <2>1, SoundReview
  <2>3. meeting'.protocol = meeting.protocol
    BY <1>1, <2>2 DEF Row
  <2>4. QED
    BY <1>4, <2>2, <2>3
<1>6. ASSUME Verify \/ BackToReview \/ Reconvene \/ Deliberate \/ FailMeeting PROVE Left'
  <2>1. cands' = cands /\ meeting'.protocol = meeting.protocol
    BY <1>6, StatusBasic
  <2>2. /\ meeting'.status # "concluded" /\ meeting'.status # "verifying"
        /\ meeting'.status = "awaiting_human" => meeting.status = "verifying"
    BY <1>6, StatusMoves
  <2>3. QED
    BY <2>1, <2>2 DEF Left
<1>7. ASSUME NEW output \in Output, RecordV2(output) \/ Patch(output) PROVE Left'
  BY <1>7 DEF RecordV2, Patch, AddResult, Left
<1>8. ASSUME NEW output \in Output, Record(output) PROVE Left'
  <2>1. /\ \E i \in DOMAIN cands' : cands'[i].status = "proposed"
        /\ meeting' = [meeting EXCEPT !.status = "verifying", !.digest = output.text]
    BY <1>8, RecordBasic, Zenon
  <2>2. meeting'.status = "verifying"
    BY <1>1, <2>1 DEF Row
  <2>3. QED
    BY <2>1, <2>2 DEF Left
<1>9. ASSUME PersistResultCandidates PROVE Left'
  <2>1. meeting.protocol = 2
    BY <1>9 DEF PersistResultCandidates, Basic, Worker
  <2>2. meeting'.protocol = meeting.protocol
    BY <1>1, <1>9 DEF PersistResultCandidates, Row
  <2>3. QED
    BY <1>4, <2>1, <2>2
<1>10. ASSUME UNCHANGED <<meeting, contents, cands>> PROVE Left'
  BY <1>10 DEF Left
<1>11. QED
  BY <1>2, <1>3, <1>5, <1>6, <1>7, <1>8, <1>9, <1>10, Steps, RowsRest

\* A Review is of all candidates of a Result, and a new Result of none before.
LEMMA AlikeStep == ASSUME Basic, Shape, Alike, [Next]_vars, torn' = 0 PROVE Alike'
<1>1. meeting \in Row /\ \A j \in DOMAIN cands : cands[j] \in Candidate
  BY DEF Basic, TypeOK
<1>2. ASSUME meeting.protocol = 1, meeting'.protocol = meeting.protocol PROVE Alike'
  BY <1>2 DEF Alike
<1>3. ASSUME NEW h \in Handlers, Answer(h) PROVE Alike'
  <2>1. /\ meeting.protocol = 1
        /\ meeting' = [meeting EXCEPT !.status = "deliberating", !.cycle = meeting.cycle + 1]
    BY <1>3, SoundAnswer DEF Shape
  <2>2. QED
    BY <1>1, <1>2, <2>1 DEF Row
<1>4. ASSUME NEW h \in Handlers, NEW i \in 1..MaxCandidates,
             NEW d \in {"selected", "rejected", "deferred"}, Disposition(h, i, d)
      PROVE  Alike'
  <2>1. Basic /\ Place /\ Disposition(h, i, d) /\ torn' = 0
    BY <1>4 DEF Shape
  <2>2. meeting.protocol = 1 /\ meeting' = Disposed(i)
    BY ONLY <2>1, SoundDisposition
  <2>3. QED
    BY <1>1, <1>2, <2>2 DEF Row, Disposed
<1>5. ASSUME NEW h \in Handlers, NEW action \in {"approve", "continue"},
             NEW items \in [Pending(h) -> Decision], Review(h, action, items)
      PROVE  Alike'
  <2>1. Basic /\ Place /\ Review(h, action, items) /\ torn' = 0
    BY <1>5 DEF Shape
  <2>2. DecidedAll(action, items) /\ meeting.protocol = 2
    BY ONLY <2>1, SoundReview
  <2>3. DOMAIN cands' = DOMAIN cands /\ \A j \in DOMAIN cands : cands'[j].of = cands[j].of
    BY <1>5, ReviewBasic DEF Grows
  <2>4. ASSUME NEW j \in DOMAIN cands, cands[j].of = meeting.result
        PROVE  cands'[j].design # "unreviewed"
    <3>1. cands'[j].design = items[j].design /\ items[j] \in Decision
      BY <1>1, <2>2, <2>4 DEF DecidedAll, Candidate
    <3>2. QED
      BY <3>1 DEF Decision
  <2>5. \A j \in DOMAIN cands : cands[j].of # meeting.result => cands'[j] = cands[j]
    BY <2>2 DEF DecidedAll
  <2>6. QED
    BY <2>2, <2>3, <2>4, <2>5 DEF Alike
<1>6. ASSUME Verify \/ BackToReview \/ Reconvene \/ Deliberate \/ FailMeeting PROVE Alike'
  <2>1. cands' = cands /\ meeting'.protocol = meeting.protocol
    BY <1>6, StatusBasic
  <2>2. QED
    BY <2>1 DEF Alike
<1>7. ASSUME NEW output \in Output, RecordV2(output) \/ Patch(output) PROVE Alike'
  BY <1>7 DEF RecordV2, Patch, AddResult, Alike
<1>8. ASSUME NEW output \in Output, Record(output) PROVE Alike'
  <2>1. /\ meeting.protocol = 1
        /\ meeting' = [meeting EXCEPT !.status = "verifying", !.digest = output.text]
    BY <1>8 DEF Record
  <2>2. QED
    BY <1>1, <1>2, <2>1 DEF Row
<1>9. ASSUME PersistResultCandidates PROVE Alike'
  <2>1. /\ \A i \in DOMAIN cands : i \in DOMAIN cands' /\ cands'[i] = cands[i]
        /\ \A i \in DOMAIN cands' :
             i \in DOMAIN cands \/ /\ cands'[i].of = Len(contents)
                                   /\ cands'[i].design = "unreviewed"
    BY <1>9, PersistBasic DEF AddsNew
  <2>2. meeting.protocol = 2 /\ work.pc = "items"
    BY <1>9 DEF PersistResultCandidates, Basic, Worker
  <2>3. \A i \in DOMAIN cands : cands[i].of # Len(contents)
    BY <2>2, Typed DEF Shape, Rows
  <2>4. QED
    BY <2>1, <2>2, <2>3 DEF Alike
<1>10. ASSUME UNCHANGED <<meeting, contents, cands>> PROVE Alike'
  BY <1>10 DEF Alike
<1>11. QED
  BY <1>3, <1>4, <1>5, <1>6, <1>7, <1>8, <1>9, <1>10, Steps, RowsRest

-----------------------------------------------------------------------------
(* What was approved is whole and stays.                                   *)

\* What Handoff returns now.
Given == [text |-> meeting.approved, of |-> meeting.result,
          context |-> {i \in DOMAIN cands : cands[i].context = "persist"}]

\* What is approved is the Result pointed to, and concludes the Meeting.
Approval ==
    /\ meeting.approved # None =>
         /\ meeting.status = "concluded" /\ meeting.protocol = 2 /\ meeting.result # 0
         /\ contents[meeting.result].text = meeting.approved
         /\ \A i \in DOMAIN cands : cands[i].of = meeting.result =>
              cands[i].design = "accepted" /\ cands[i].status = "selected"
         /\ \A given \in handed : given = Given
    /\ meeting.approved = None => handed = {}

\* Nothing is committed any more once the Meeting is concluded.
Over ==
    \A h \in Handlers : view[h].pc # "idle" /\ view[h].row.status = "concluded" =>
        meeting.status = "concluded" /\ ~view[h].torn

Kept == Approval /\ Over

\* A commit of a Meeting that is not concluded and does not approve.
LEMMA KeptByCommit ==
    ASSUME Basic, Kept, meeting.status # "concluded", NEW done, view' = Others(done)
    PROVE  /\ Over' /\ meeting.approved = None /\ handed = {}
           /\ meeting'.approved = meeting.approved /\ handed' = handed => Kept'
<1>1. meeting.approved = None /\ handed = {}
  BY DEF Kept, Approval
<1>2. \A h \in Handlers : view'[h].pc # "idle" =>
        view[h].pc # "idle" /\ view'[h].row = view[h].row
  BY AfterCommit DEF Basic
<1>3. Over'
  BY <1>2 DEF Kept, Over
<1>4. QED
  BY <1>1, <1>3 DEF Kept, Approval

\* A Review of a sound view approves what it has read.
LEMMA KeptByReview ==
    ASSUME Basic, Shape, Kept, torn' = 0, NEW h \in Handlers,
           NEW action \in {"approve", "continue"},
           NEW items \in [Pending(h) -> Decision], Review(h, action, items)
    PROVE  Kept'
<1>1. meeting \in Row /\ \A j \in DOMAIN cands : cands[j] \in Candidate
  BY DEF Basic, TypeOK
<1>2. Basic /\ Place /\ Review(h, action, items) /\ torn' = 0
  BY DEF Shape
<1>3. /\ view' = Others({h}) /\ meeting.status = "awaiting_user_review"
      /\ meeting.protocol = 2 /\ meeting.result # 0 /\ UNCHANGED <<contents, work, handed>>
      /\ DecidedAll(action, items)
      /\ meeting' = [meeting EXCEPT
           !.status = IF action = "approve" THEN "concluded" ELSE "recorder_reviewing",
           !.approved = IF action = "approve" THEN meeting.digest ELSE meeting.approved]
  BY ONLY <1>2, SoundReview
<1>4. /\ Over' /\ meeting.approved = None /\ handed = {}
      /\ meeting'.approved = meeting.approved /\ handed' = handed => Kept'
  BY <1>3, KeptByCommit
<1>5. CASE action = "continue"
  <2>1. meeting'.approved = meeting.approved
    BY <1>1, <1>3, <1>5 DEF Row
  <2>2. QED
    BY <1>3, <1>4, <2>1
<1>6. CASE action = "approve"
  <2>1. /\ meeting'.status = "concluded" /\ meeting'.protocol = 2
        /\ meeting'.result = meeting.result /\ meeting'.approved = meeting.digest
    BY <1>1, <1>3, <1>6 DEF Row
  <2>2. contents'[meeting'.result].text = meeting'.approved
    BY <1>3, <2>1 DEF Shape, Rows
  <2>3. DOMAIN cands' = DOMAIN cands /\ \A j \in DOMAIN cands : cands'[j].of = cands[j].of
    BY ReviewBasic DEF Grows
  <2>4. ASSUME NEW j \in DOMAIN cands, cands[j].of = meeting.result
        PROVE  cands'[j].design = "accepted" /\ cands'[j].status = "selected"
    <3>1. /\ items[j].design = "accepted"
          /\ cands'[j] = [cands[j] EXCEPT !.design = items[j].design,
                                          !.context = items[j].context,
                                          !.status = CandidateStatus(items[j].design)]
      BY <1>3, <1>6, <2>4 DEF DecidedAll
    <3>2. cands[j] \in Candidate
      BY <1>1
    <3>3. QED
      BY ONLY <3>1, <3>2 DEF CandidateStatus, Candidate
  <2>5. Approval'
    BY <1>3, <1>4, <2>1, <2>2, <2>3, <2>4 DEF Approval
  <2>6. QED
    BY <1>4, <2>5 DEF Kept
<1>7. QED
  BY <1>5, <1>6

\* The other commits, none of which is of a concluded Meeting.
LEMMA KeptByOthers ==
    ASSUME Basic, Shape, Kept, torn' = 0,
           \/ \E h \in Handlers : Answer(h)
           \/ \E h \in Handlers : \E i \in 1..MaxCandidates :
                \E d \in {"selected", "rejected", "deferred"} : Disposition(h, i, d)
           \/ Verify \/ BackToReview \/ Reconvene \/ Deliberate \/ FailMeeting
           \/ \E output \in Output : Record(output)
           \/ \E output \in Output : RecordV2(output) \/ Patch(output)
           \/ PersistResultCandidates
    PROVE  Kept'
<1>1. meeting \in Row /\ Place
  BY DEF Basic, TypeOK, Shape
<1> DEFINE Quiet == /\ meeting.status # "concluded" /\ handed' = handed
                    /\ meeting'.approved = meeting.approved
                    /\ \E done : view' = Others(done)
<1>2. ASSUME NEW h \in Handlers, Answer(h) PROVE Quiet
  BY <1>1, <1>2, SoundAnswer DEF Row
<1>3. ASSUME NEW h \in Handlers, NEW i \in 1..MaxCandidates,
             NEW d \in {"selected", "rejected", "deferred"}, Disposition(h, i, d)
      PROVE  Quiet
  <2>1. Basic /\ Place /\ Disposition(h, i, d) /\ torn' = 0
    BY <1>1, <1>3
  <2>2. /\ meeting.status = "awaiting_human" /\ meeting' = Disposed(i)
        /\ view' = Others({h}) /\ UNCHANGED <<contents, work, handed>>
    BY ONLY <2>1, SoundDisposition
  <2>3. QED
    BY <1>1, <2>2 DEF Disposed, Row
<1>4. ASSUME Verify \/ BackToReview \/ Reconvene \/ Deliberate \/ FailMeeting PROVE Quiet
  <2>1. view' = Others({}) /\ UNCHANGED hist /\ meeting'.approved = meeting.approved
    BY <1>4, StatusBasic
  <2>2. meeting.status # "concluded"
    BY <1>4, StatusMoves DEF Working
  <2>3. QED
    BY <2>1, <2>2 DEF hist
<1>5. ASSUME NEW output \in Output, Record(output) PROVE Quiet
  <2>1. /\ meeting.status = "recording" /\ WorkerCommits(Free)
        /\ meeting' = [meeting EXCEPT !.status = "verifying", !.digest = output.text]
    BY <1>5 DEF Record
  <2>2. view' = Others({}) /\ handed' = handed
    BY ONLY <2>1 DEF WorkerCommits, hist
  <2>3. QED
    BY <1>1, <2>1, <2>2 DEF Row
<1>6. ASSUME NEW output \in Output, RecordV2(output) \/ Patch(output) PROVE Quiet
  <2>1. meeting' = meeting /\ WorkerCommits([pc |-> "items", output |-> output])
    BY <1>6 DEF RecordV2, Patch, AddResult
  <2>2. view' = Others({}) /\ handed' = handed
    BY ONLY <2>1 DEF WorkerCommits, hist
  <2>3. meeting.status \in {"recording", "recorder_reviewing"}
    BY <1>1, <1>6 DEF RecordV2, Patch, Place
  <2>4. QED
    BY <2>1, <2>2, <2>3
<1>7. ASSUME PersistResultCandidates PROVE Quiet
  <2>1. /\ work.pc = "items" /\ WorkerCommits(Free)
        /\ meeting' = [meeting EXCEPT !.status = "awaiting_user_review",
                                      !.result = ContentByDigest(work.output.text),
                                      !.digest = work.output.text]
    BY <1>7 DEF PersistResultCandidates
  <2>2. view' = Others({}) /\ handed' = handed
    BY ONLY <2>1 DEF WorkerCommits, hist
  <2>3. QED
    BY <1>1, <2>1, <2>2 DEF Row, Place
<1>8. Quiet
  <2> HIDE DEF Quiet
  <2>1. QED
    BY <1>2, <1>3, <1>4, <1>5, <1>6, <1>7
<1>9. PICK done : view' = Others(done)
  BY <1>8
<1>10. meeting'.approved = meeting.approved /\ handed' = handed => Kept'
  BY <1>8, <1>9, KeptByCommit
<1>11. QED
  BY <1>8, <1>10

\* What commits nothing returns what is there.
LEMMA KeptByRest ==
    ASSUME Basic, Kept, torn = 0,
           \/ \E h \in Handlers : \/ ReadRow(h) \/ ReadCandidates(h) \/ ReadVersion(h)
                                  \/ Return(h) \/ Handoff(h)
           \/ ReviewStarts \/ Crash \/ UNCHANGED vars
    PROVE  Kept'
<1>1. UNCHANGED <<meeting, contents, cands>> /\ view \in [Handlers -> View]
  BY RowsRest DEF Basic, TypeOK
<1>2. ASSUME NEW h \in Handlers, Handoff(h) PROVE Approval'
  <2>1. /\ view[h].pc = "ready" /\ view[h].row.status = "concluded"
        /\ view[h].row.approved # None
    BY <1>2 DEF Handoff, Knows
  <2>2. ~view[h].torn
    BY <2>1 DEF Kept, Over
  <2>3. view[h].row = meeting /\ view[h].cands = cands
    BY <2>1, <2>2 DEF Basic, Fresh
  <2>4. handed' = handed \cup {Given}
    BY <1>2, <2>3 DEF Handoff, Given
  <2>5. Given' = Given
    BY <1>1 DEF Given
  <2>6. QED
    BY <1>1, <2>1, <2>3, <2>4, <2>5 DEF Kept, Approval
<1>3. ASSUME handed' = handed PROVE Approval'
  <2>1. Given' = Given
    BY <1>1 DEF Given
  <2>2. Approval /\ meeting' = meeting /\ contents' = contents /\ cands' = cands
    BY <1>1 DEF Kept
  <2>3. QED
    BY ONLY <1>3, <2>1, <2>2 DEF Approval
<1>4. Approval'
  <2>1. ASSUME NEW h \in Handlers, ReadRow(h) \/ ReadCandidates(h) \/ ReadVersion(h)
                                   \/ Return(h)
        PROVE  handed' = handed
    BY <2>1 DEF ReadRow, ReadCandidates, ReadVersion, Return, hist
  <2>2. ASSUME ReviewStarts \/ Crash \/ UNCHANGED vars PROVE handed' = handed
    BY <2>2 DEF ReviewStarts, Crash, vars, hist
  <2>3. QED
    BY <1>2, <1>3, <2>1, <2>2
<1>5. ASSUME NEW g \in Handlers, view'[g].pc # "idle", view'[g].row.status = "concluded"
      PROVE  meeting.status = "concluded" /\ ~view'[g].torn
  <2>1. CASE view'[g] = view[g]
    BY <1>5, <2>1 DEF Kept, Over
  <2>2. CASE view'[g] = [Nothing EXCEPT !.pc = "row", !.row = meeting]
    BY <1>5, <2>2 DEF Nothing
  <2>3. CASE /\ view[g].pc # "idle" /\ view'[g].row = view[g].row
             /\ view'[g].torn = view[g].torn
    BY <1>5, <2>3 DEF Kept, Over
  <2>4. view'[g] # Nothing
    BY <1>5 DEF Nothing
  <2>5. ASSUME NEW h \in Handlers, ReadRow(h)
        PROVE  \/ view'[g] = view[g]
               \/ view'[g] = [Nothing EXCEPT !.pc = "row", !.row = meeting]
    BY <1>1, <2>5 DEF ReadRow
  <2>6. ASSUME NEW h \in Handlers, ReadCandidates(h) \/ ReadVersion(h)
        PROVE  \/ view'[g] = view[g]
               \/ /\ view[g].pc # "idle" /\ view'[g].row = view[g].row
                  /\ view'[g].torn = view[g].torn
    BY <1>1, <2>6 DEF ReadCandidates, ReadVersion, View
  <2>7. ASSUME NEW h \in Handlers, Return(h) \/ Handoff(h) PROVE view'[g] = view[g]
    BY <1>1, <2>4, <2>7 DEF Return, Handoff
  <2>8. ASSUME ReviewStarts \/ UNCHANGED vars PROVE view'[g] = view[g]
    BY <2>8 DEF ReviewStarts, vars
  <2>9. ASSUME Crash PROVE FALSE
    BY <2>4, <2>9 DEF Crash
  <2>10. QED
    BY <2>1, <2>2, <2>3, <2>5, <2>6, <2>7, <2>8, <2>9
<1>6. Over'
  BY <1>1, <1>5 DEF Over
<1>7. QED
  BY <1>4, <1>6 DEF Kept

\* Every sound step keeps what was approved.
LEMMA KeptStep == ASSUME Basic, Shape, Kept, [Next]_vars, torn' = 0 PROVE Kept'
BY Steps, SoundBefore, KeptByReview, KeptByOthers, KeptByRest

-----------------------------------------------------------------------------
(* What the Human rejected goes back to the seats.                         *)

Rejected(i) == cands[i].hard /\ cands[i].design = "rejected"

\* The current Result has a rejection the seats have not met about since.
Open ==
    \E i \in DOMAIN cands :
        /\ Rejected(i) /\ cands[i].of = meeting.result
        /\ meeting.cycle <= contents[meeting.result].cycle

\* Then a Review, its answer or a failure is pending, and no new Result.
Asked ==
    Open => /\ meeting.status \in {"awaiting_user_review", "recorder_reviewing", "failed"}
            /\ work.pc = "review" => work.swarm
            /\ work.pc # "items"

\* The content that waits for its candidates is of a later cycle.
Later ==
    work.pc = "items" => \A i \in DOMAIN cands :
        Rejected(i) => contents[cands[i].of].cycle < contents[Len(contents)].cycle

\* Results are ordered by cycle wherever something was rejected.
Ordered ==
    \A i, j \in DOMAIN cands :
        Rejected(i) /\ cands[j].of > cands[i].of =>
            contents[cands[j].of].cycle > contents[cands[i].of].cycle

Owed ==
    /\ meeting.protocol = 1 => \A i \in DOMAIN cands : cands[i].design = "unreviewed"
    /\ meeting.protocol = 2 => Asked /\ Later /\ Ordered

\* Protocol v1 rejects nothing in this way.
LEMMA OwedFirst ==
    ASSUME meeting'.protocol = 1,
           \A i \in DOMAIN cands' : cands'[i].design = "unreviewed"
    PROVE  Owed'
BY DEF Owed

\* What is rejected is of the current Result or of an earlier one.
LEMMA OfResult ==
    ASSUME Basic, Shape, meeting.protocol = 2, NEW i \in DOMAIN cands
    PROVE  /\ cands[i].of \in Nat /\ meeting.result \in Nat
           /\ 1 <= cands[i].of /\ cands[i].of <= meeting.result
           /\ meeting.result <= Len(contents)
           /\ cands[i].of \in DOMAIN contents /\ meeting.result \in DOMAIN contents
           /\ meeting.result # 0
           /\ contents[cands[i].of].cycle \in Nat
           /\ contents[meeting.result].cycle \in Nat
           /\ contents[meeting.result].cycle <= meeting.cycle
BY Typed DEF Shape, Rows, Cycles

\* Once nothing is open, whatever was rejected is of an earlier cycle.
LEMMA NothingOpen ==
    ASSUME Basic, Shape, Ordered, meeting.protocol = 2, ~Open,
           NEW i \in DOMAIN cands, Rejected(i)
    PROVE  contents[cands[i].of].cycle < meeting.cycle
<1>1. /\ cands[i].of \in Nat /\ meeting.result \in Nat /\ meeting.cycle \in Nat
      /\ cands[i].of <= meeting.result /\ meeting.result # 0
      /\ contents[meeting.result].cycle \in Nat
      /\ contents[cands[i].of].cycle \in Nat
      /\ contents[meeting.result].cycle <= meeting.cycle
  BY OfResult, Typed
<1>2. CASE cands[i].of = meeting.result
  BY <1>1, <1>2 DEF Open
<1>3. CASE cands[i].of # meeting.result
  <2>1. PICK j \in DOMAIN cands : cands[j].of = meeting.result
    BY <1>1 DEF Basic, Itemized
  <2>2. cands[j].of > cands[i].of
    BY <1>1, <1>3, <2>1
  <2>3. contents[meeting.result].cycle > contents[cands[i].of].cycle
    BY <2>1, <2>2 DEF Ordered
  <2>4. QED
    BY <1>1, <2>3
<1>4. QED
  BY <1>2, <1>3

\* A Review opens something or approves.
LEMMA OwedByReview ==
    ASSUME Basic, Shape, Owed, torn' = 0, NEW h \in Handlers,
           NEW action \in {"approve", "continue"},
           NEW items \in [Pending(h) -> Decision], Review(h, action, items)
    PROVE  Owed'
<1>1. meeting \in Row /\ \A j \in DOMAIN cands : cands[j] \in Candidate
  BY DEF Basic, TypeOK
<1>2. Basic /\ Place /\ Review(h, action, items) /\ torn' = 0
  BY DEF Shape
<1>3. /\ meeting.protocol = 2 /\ UNCHANGED <<contents, work, handed>>
      /\ work.pc = "free"
      /\ DecidedAll(action, items)
      /\ meeting' = [meeting EXCEPT
           !.status = IF action = "approve" THEN "concluded" ELSE "recorder_reviewing",
           !.approved = IF action = "approve" THEN meeting.digest ELSE meeting.approved]
  BY ONLY <1>2, SoundReview
<1>4. DOMAIN cands' = DOMAIN cands /\ \A j \in DOMAIN cands : cands'[j].of = cands[j].of
  BY ReviewBasic DEF Grows
<1>5. ASSUME NEW j \in DOMAIN cands, cands[j].of = meeting.result
      PROVE  action = "approve" => cands'[j].design = "accepted"
  <2>1. /\ cands'[j] = [cands[j] EXCEPT !.design = items[j].design,
                                        !.context = items[j].context,
                                        !.status = CandidateStatus(items[j].design)]
        /\ action = "approve" => items[j].design = "accepted"
    BY <1>3, <1>5 DEF DecidedAll
  <2>2. cands[j] \in Candidate
    BY <1>1
  <2>3. QED
    BY ONLY <2>1, <2>2 DEF Candidate
<1>6. /\ meeting'.protocol = 2 /\ meeting'.result = meeting.result
      /\ meeting'.cycle = meeting.cycle
      /\ action = "continue" => meeting'.status = "recorder_reviewing"
  BY <1>1, <1>3 DEF Row
<1>7. Asked'
  BY <1>3, <1>4, <1>5, <1>6 DEF Asked, Open, Rejected
<1>8. Later'
  BY <1>3 DEF Later
<1>9. Ordered'
  <2> SUFFICES ASSUME NEW i \in DOMAIN cands, NEW j \in DOMAIN cands, Rejected(i)',
                      cands[j].of > cands[i].of
               PROVE  contents[cands[j].of].cycle > contents[cands[i].of].cycle
    BY <1>3, <1>4 DEF Ordered
  <2>1. cands[i].of # meeting.result
    BY <1>3, OfResult
  <2>2. cands'[i] = cands[i]
    BY <1>3, <2>1 DEF DecidedAll
  <2>3. Rejected(i)
    BY <2>2 DEF Rejected
  <2>4. QED
    BY <1>3, <2>3 DEF Owed, Ordered
<1>10. QED
  BY <1>6, <1>7, <1>8, <1>9 DEF Owed

\* The worker moves on: an answer leaves it open, the seats are asked to meet.
LEMMA OwedByStatus ==
    ASSUME Basic, Shape, Owed, Verify \/ BackToReview \/ Reconvene \/ Deliberate \/ FailMeeting
    PROVE  Owed'
<1>1. /\ work' = Free /\ UNCHANGED <<contents, cands>>
      /\ meeting'.protocol = meeting.protocol /\ meeting'.result = meeting.result
      /\ meeting'.cycle = IF Reconvene THEN meeting.cycle + 1 ELSE meeting.cycle
  BY StatusBasic
<1>2. CASE meeting.protocol = 1
  BY <1>1, <1>2, OwedFirst DEF Owed
<1>3. CASE meeting.protocol = 2
  <2>1. work'.pc = "free"
    BY <1>1 DEF Free
  <2>2. \A i \in DOMAIN cands : Rejected(i)' <=> Rejected(i)
    BY <1>1 DEF Rejected
  <2>3. Later' /\ Ordered'
    BY <1>1, <1>3, <2>1, <2>2 DEF Owed, Later, Ordered
  <2>4. ASSUME Open'
        PROVE  meeting'.status \in {"awaiting_user_review", "recorder_reviewing", "failed"}
    <3>1. PICK i \in DOMAIN cands : /\ Rejected(i) /\ cands[i].of = meeting.result
                                    /\ meeting'.cycle <= contents[meeting.result].cycle
      BY <1>1, <2>2, <2>4 DEF Open
    <3>2. /\ contents[meeting.result].cycle <= meeting.cycle
          /\ contents[meeting.result].cycle \in Nat /\ meeting.cycle \in Nat
      BY <1>3, OfResult, Typed
    <3>3. meeting'.cycle = meeting.cycle
      BY <1>1, <3>1, <3>2
    <3>4. Open
      BY <3>1, <3>3 DEF Open
    <3>5. meeting.status \in {"awaiting_user_review", "recorder_reviewing", "failed"}
      BY <1>3, <3>4 DEF Owed, Asked
    <3>6. QED
      BY <3>2, <3>3, <3>5, StatusMoves
  <2>5. Asked'
    BY <2>1, <2>4 DEF Asked
  <2>6. QED
    BY <1>1, <1>3, <2>3, <2>5 DEF Owed
<1>4. meeting.protocol \in {1, 2}
  BY Typed
<1>5. QED
  BY <1>2, <1>3, <1>4

\* The content of a Result is only written when nothing is open.
LEMMA OwedByContent ==
    ASSUME Basic, Shape, Owed, NEW output \in Output, RecordV2(output) \/ Patch(output)
    PROVE  Owed'
<1>1. AddResult(output) /\ ValidResult(output) /\ meeting.protocol = 2
  BY DEF RecordV2, Patch, Basic, Worker
<1>2. Asked /\ Later /\ Ordered
  BY <1>1 DEF Owed
<1>3. ~Open
  BY <1>2 DEF RecordV2, Patch, Asked
<1>4. /\ work' = [pc |-> "items", output |-> output] /\ UNCHANGED <<meeting, cands>>
      /\ Len(contents') = Len(contents) + 1
      /\ \A k \in DOMAIN contents : contents'[k] = contents[k]
      /\ contents'[Len(contents) + 1] = [text |-> output.text, cycle |-> meeting.cycle]
  BY <1>1, ContentBasic, Zenon
<1>5. contents'[Len(contents')].cycle = meeting.cycle
  BY <1>4
<1>6. \A i \in DOMAIN cands : /\ contents'[cands[i].of] = contents[cands[i].of]
                              /\ contents'[meeting.result] = contents[meeting.result]
  BY <1>1, <1>4, OfResult
<1>7. \A i \in DOMAIN cands : Rejected(i)' <=> Rejected(i)
  BY <1>4 DEF Rejected
<1>8. Later'
  BY <1>1, <1>2, <1>3, <1>4, <1>5, <1>6, <1>7, NothingOpen DEF Later
<1>9. Ordered'
  BY <1>2, <1>4, <1>6, <1>7 DEF Ordered
<1>10. ~Open'
  BY <1>3, <1>4, <1>6, <1>7 DEF Open
<1>11. QED
  BY <1>1, <1>4, <1>8, <1>9, <1>10 DEF Owed, Asked

\* The candidates of a new Result are of a later cycle than what was rejected.
LEMMA OwedByCandidates ==
    ASSUME Basic, Shape, Owed, PersistResultCandidates PROVE Owed'
<1>1. /\ work' = Free /\ UNCHANGED contents
      /\ Len(contents) \in Nat
      /\ \A i \in DOMAIN cands : i \in DOMAIN cands' /\ cands'[i] = cands[i]
      /\ \A i \in DOMAIN cands' :
           i \in DOMAIN cands \/ /\ cands'[i].of = Len(contents)
                                 /\ cands'[i].design = "unreviewed"
      /\ meeting' = [meeting EXCEPT !.status = "awaiting_user_review",
                                    !.result = Len(contents),
                                    !.digest = work.output.text]
  BY PersistBasic DEF AddsNew
<1>2. work.pc = "items" /\ meeting.protocol = 2
  BY DEF PersistResultCandidates, Basic, Worker
<1>3. Later /\ Ordered /\ meeting \in Row
  BY <1>2 DEF Owed, Basic, TypeOK
<1>4. /\ meeting'.protocol = 2 /\ meeting'.result = Len(contents)
      /\ meeting'.status = "awaiting_user_review"
  BY <1>1, <1>2, <1>3 DEF Row
<1>5. ASSUME NEW i \in DOMAIN cands', Rejected(i)'
      PROVE  /\ i \in DOMAIN cands /\ Rejected(i) /\ cands'[i] = cands[i]
             /\ cands[i].of \in Nat /\ cands[i].of < Len(contents)
  <2>1. i \in DOMAIN cands /\ cands'[i] = cands[i]
    BY <1>1, <1>5 DEF Rejected
  <2>2. QED
    BY <1>2, <1>5, <2>1, Typed DEF Rejected, Shape, Rows
<1>6. Asked'
  BY <1>1, <1>4 DEF Asked, Free
<1>7. Later'
  BY <1>1 DEF Later, Free
<1>8. Ordered'
  <2> SUFFICES ASSUME NEW i \in DOMAIN cands', NEW j \in DOMAIN cands', Rejected(i)',
                      cands'[j].of > cands'[i].of
               PROVE  contents[cands'[j].of].cycle > contents[cands'[i].of].cycle
    BY <1>1 DEF Ordered
  <2>1. i \in DOMAIN cands /\ Rejected(i) /\ cands'[i] = cands[i]
    BY <1>5
  <2>2. CASE j \in DOMAIN cands
    BY <1>1, <1>3, <2>1, <2>2 DEF Ordered
  <2>3. CASE j \notin DOMAIN cands
    <3>1. cands'[j].of = Len(contents)
      BY <1>1, <2>3
    <3>2. contents[cands[i].of].cycle < contents[Len(contents)].cycle
      BY <1>2, <1>3, <2>1 DEF Later
    <3>3. cands[i].of \in DOMAIN contents /\ Len(contents) \in DOMAIN contents
          /\ \A k \in DOMAIN contents : contents[k].cycle \in Nat
      BY <1>1, <1>2, <2>1, OfResult, Typed
    <3>4. QED
      BY <2>1, <3>1, <3>2, <3>3
  <2>4. QED
    BY <2>2, <2>3
<1>9. QED
  BY <1>4, <1>6, <1>7, <1>8 DEF Owed

\* The steps of protocol v1.
LEMMA OwedByFirst ==
    ASSUME Basic, Shape, Owed, torn' = 0,
           \/ \E h \in Handlers : Answer(h)
           \/ \E h \in Handlers : \E i \in 1..MaxCandidates :
                \E d \in {"selected", "rejected", "deferred"} : Disposition(h, i, d)
           \/ \E output \in Output : Record(output)
    PROVE  Owed'
<1>1. meeting \in Row /\ \A j \in DOMAIN cands : cands[j] \in Candidate
  BY DEF Basic, TypeOK
<1> DEFINE Stay == /\ meeting'.protocol = 1
                   /\ \A i \in DOMAIN cands' : cands'[i].design = "unreviewed"
<1>2. ASSUME NEW h \in Handlers, Answer(h) PROVE Stay
  <2>1. /\ meeting.protocol = 1 /\ UNCHANGED <<contents, cands, work, handed>>
        /\ meeting' = [meeting EXCEPT !.status = "deliberating", !.cycle = meeting.cycle + 1]
    BY <1>2, SoundAnswer DEF Shape
  <2>2. QED
    BY <1>1, <2>1 DEF Owed, Row
<1>3. ASSUME NEW h \in Handlers, NEW i \in 1..MaxCandidates,
             NEW d \in {"selected", "rejected", "deferred"}, Disposition(h, i, d)
      PROVE  Stay
  <2>1. Basic /\ Place /\ Disposition(h, i, d) /\ torn' = 0
    BY <1>3 DEF Shape
  <2>2. meeting.protocol = 1 /\ DecidedOne(i, d) /\ meeting' = Disposed(i)
    BY ONLY <2>1, SoundDisposition
  <2>3. meeting'.protocol = 1
    BY <1>1, <2>2 DEF Disposed, Row
  <2>4. ASSUME NEW j \in DOMAIN cands' PROVE cands'[j].design = "unreviewed"
    <3>1. j \in DOMAIN cands /\ cands'[j] = IF j = i THEN [cands[j] EXCEPT !.status = d]
                                                     ELSE cands[j]
      BY <2>2 DEF DecidedOne
    <3>2. cands[j] \in Candidate /\ cands[j].design = "unreviewed"
      BY <1>1, <2>2, <3>1 DEF Owed
    <3>3. QED
      BY ONLY <3>1, <3>2 DEF Candidate
  <2>5. QED
    BY <2>3, <2>4
<1>4. ASSUME NEW output \in Output, Record(output) PROVE Stay
  <2>1. /\ meeting.protocol = 1 /\ output.hard # <<>>
        /\ cands' = cands \o Added(output, 0)
        /\ meeting' = [meeting EXCEPT !.status = "verifying", !.digest = output.text]
    BY <1>4 DEF Record, ValidResult
  <2>2. /\ \A j \in DOMAIN cands : j \in DOMAIN cands' /\ cands'[j] = cands[j]
        /\ \A j \in DOMAIN cands' : j \in DOMAIN cands \/ cands'[j].design = "unreviewed"
    <3>1. /\ \A j \in DOMAIN cands : j \in DOMAIN cands' /\ cands'[j] = cands[j]
          /\ AddsNew(0)
      BY <2>1, Adds
    <3>2. QED
      BY ONLY <3>1 DEF AddsNew
  <2>3. QED
    BY <1>1, <2>1, <2>2 DEF Owed, Row
<1>5. Stay
  <2> HIDE DEF Stay
  <2>1. QED
    BY <1>2, <1>3, <1>4
<1>6. QED
  BY <1>5, OwedFirst

\* What commits nothing: the Recorder's review is bound to the rejection.
LEMMA OwedByRest ==
    ASSUME Basic, Owed,
           \/ \E h \in Handlers : \/ ReadRow(h) \/ ReadCandidates(h) \/ ReadVersion(h)
                                  \/ Return(h) \/ Handoff(h)
           \/ ReviewStarts \/ Crash \/ UNCHANGED vars
    PROVE  Owed'
<1>1. UNCHANGED <<meeting, contents, cands>>
  BY RowsRest
<1>2. \A i \in DOMAIN cands : Rejected(i)' <=> Rejected(i)
  BY <1>1 DEF Rejected
<1>3. Open' <=> Open
  BY <1>1, <1>2 DEF Open
<1>4. Ordered => Ordered'
  BY <1>1, <1>2 DEF Ordered
<1>5. ASSUME work' = work \/ work' = Free, meeting.protocol = 2 PROVE Asked' /\ Later'
  BY <1>1, <1>2, <1>3, <1>5 DEF Owed, Asked, Later, Free
<1>6. ASSUME ReviewStarts, meeting.protocol = 2 PROVE Asked' /\ Later'
  <2>1. /\ work' = [pc |-> "review", swarm |-> RequiresSwarmReview]
        /\ meeting.status = "recorder_reviewing"
    BY <1>6 DEF ReviewStarts
  <2>2. work'.pc = "review" /\ work'.swarm = RequiresSwarmReview
    BY <2>1
  <2>3. Open => RequiresSwarmReview
    BY DEF Open, Rejected, RequiresSwarmReview
  <2>4. QED
    BY <1>1, <1>3, <2>1, <2>2, <2>3 DEF Asked, Later
<1>7. ~ReviewStarts => work' = work \/ work' = Free
  BY DEF ReadRow, ReadCandidates, ReadVersion, Return, Handoff, Crash, vars
<1>8. meeting.protocol = 2 => Asked' /\ Later'
  BY <1>5, <1>6, <1>7
<1>9. QED
  BY <1>1, <1>4, <1>8 DEF Owed

\* Every sound step keeps what is owed to the seats.
LEMMA OwedStep == ASSUME Basic, Shape, Owed, [Next]_vars, torn' = 0 PROVE Owed'
BY Steps, OwedByReview, OwedByStatus, OwedByContent, OwedByCandidates, OwedByFirst,
   OwedByRest

-----------------------------------------------------------------------------
(* The theorems.                                                           *)

\* What holds as long as every command has committed on what was the case.
Deep == Sound => Shape /\ Left /\ Alike /\ Kept /\ Owed

\* A Meeting starts sound, with nothing decided ...
LEMMA DeepInit == Init => Deep
<1> SUFFICES ASSUME Init PROVE Shape /\ Left /\ Alike /\ Kept /\ Owed
  BY DEF Deep
<1>1. /\ meeting.protocol \in {1, 2} /\ meeting.status = "recording"
      /\ meeting.cycle = 1 /\ meeting.result = 0 /\ meeting.approved = None
      /\ contents = <<>> /\ cands = <<>> /\ work.pc = "free"
      /\ handed = {} /\ \A h \in Handlers : view[h].pc = "idle"
  BY DEF Init, Free, Nothing
<1>2. DOMAIN contents = {} /\ DOMAIN cands = {} /\ Len(contents) = 0
  BY <1>1
<1>3. Shape
  BY <1>1, <1>2 DEF Shape, Place, Rows, Cycles
<1>4. Left /\ Alike
  BY <1>1, <1>2 DEF Left, Alike
<1>5. Kept
  BY <1>1 DEF Kept, Approval, Over
<1>6. Owed
  BY <1>1, <1>2 DEF Owed, Asked, Open, Later, Ordered
<1>7. QED
  BY <1>3, <1>4, <1>5, <1>6

\* ... and no sound step changes that.
LEMMA DeepStep == ASSUME Basic, Deep, [Next]_vars PROVE Deep'
<1> SUFFICES ASSUME torn' = 0 PROVE (Shape /\ Left /\ Alike /\ Kept /\ Owed)'
  BY DEF Deep, Sound
<1>1. torn = 0
  BY SoundBefore
<1>2. Shape /\ Left /\ Alike /\ Kept /\ Owed
  BY <1>1 DEF Deep, Sound
<1>3. QED
  BY <1>2, ShapeStep, LeftStep, AlikeStep, KeptStep, OwedStep

\* Whatever commands are served at once, and wherever the process dies, as
\* long as no view is torn.
THEOREM DeepCorrect == Spec => [](Basic /\ Deep)
<1>1. Init => Basic /\ Deep
  BY BasicInit, DeepInit
<1>2. Basic /\ Deep /\ [Next]_vars => (Basic /\ Deep)'
  BY BasicStep, DeepStep
<1>3. QED
  BY <1>1, <1>2, PTL DEF Spec

\* A Result is decided as a whole (service.go:400, 446).
THEOREM DecidedCorrect == Spec => []DecidedAsAWhole
<1>1. Deep => DecidedAsAWhole
  BY DEF Deep, Left, Alike, DecidedAsAWhole, SomethingLeft
<1>2. QED
  BY <1>1, DeepCorrect, PTL

\* What was approved is whole and stays what Handoff returns (service.go:446).
THEOREM ApprovedCorrect == Spec => []ApprovedIsWhole
<1>1. Deep => ApprovedIsWhole
  BY DEF Deep, Kept, Approval, Given, ApprovedIsWhole
<1>2. QED
  BY <1>1, DeepCorrect, PTL

\* A rejected boundary or invariant goes back to the seats (service.go:1021).
THEOREM RejectionCorrect == Spec => []RejectionReachesSwarm
<1>1. Basic /\ Deep => RejectionReachesSwarm
  <2> SUFFICES ASSUME Basic, Owed PROVE
        \A i, j \in DOMAIN cands :
            cands[i].hard /\ cands[i].design = "rejected" /\ cands[j].of > cands[i].of =>
                contents[cands[j].of].cycle > contents[cands[i].of].cycle
    BY DEF Deep, RejectionReachesSwarm
  <2>1. meeting.protocol \in {1, 2}
    BY Typed
  <2>2. QED
    BY <2>1 DEF Owed, Ordered, Rejected
<1>2. QED
  BY <1>1, DeepCorrect, PTL

\* No step takes a decision back (service.go:400, 446), unless it commits on a
\* torn view itself: those that follow one are held to it again.
THEOREM DecisionsCorrect == Spec => DecisionsStay
<1>1. Basic /\ [Next]_vars => [torn' = torn => \A i \in DOMAIN cands : Stays(i)]_vars
  BY StayStep
<1>2. QED
  BY <1>1, BasicCorrect, PTL DEF Spec, DecisionsStay, Stays
=============================================================================
