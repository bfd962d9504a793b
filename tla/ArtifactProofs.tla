--------------------------- MODULE ArtifactProofs --------------------------
(***************************************************************************)
(* Theorems about ArtifactStore, for any goroutines and contents and any   *)
(* number of deaths of the process and of the machine.                     *)
(***************************************************************************)
EXTENDS ArtifactStore, TLAPS

Places == {"idle", "look", "write", "sync", "rename", "syncDirectory",
           "append"}
Put == [pc : Places, content : Contents \cup {None}, file : Files,
        reused : BOOLEAN]

\* A goroutine in Put has a content.
Busy == \A w \in Writers : put[w].pc # "idle" => put[w].content \in Contents

Typed == TypeOK /\ Busy

\* What the order of Put's system calls is for: a file is renamed only when
\* its bytes are on the disk, and Put returns a Record of its own only when
\* the entry is.
Ordered ==
    /\ \A c \in Contents : target[c] \in {"absent", "synced"}
    /\ \A c \in Contents : durable[c] => target[c] = "synced"
    /\ \A w \in Writers :
         /\ put[w].pc = "rename" => put[w].file = "synced"
         /\ put[w].pc \in {"syncDirectory", "append"} =>
              target[put[w].content] = "synced"
         /\ put[w].pc = "append" /\ ~put[w].reused =>
              durable[put[w].content]

\* An event is committed when its artifact is there, and, unless that was
\* early, durable.
Kept ==
    \A r \in events :
        \/ target[r.content] = "synced" /\ (r.early \/ durable[r.content])
        \/ r.early /\ powerLosses > 0

-----------------------------------------------------------------------------
LEMMA TypedInit == ASSUME Init PROVE Typed
  BY ArtifactAssumption DEF Init, Typed, TypeOK, Busy, Idle, Files

LEMMA TypedNext == ASSUME Typed, [Next]_vars PROVE Typed'
<1> USE DEF Typed, TypeOK, Busy, Files, Idle, At
<1>1. CASE UNCHANGED vars
  BY <1>1 DEF vars
<1>2. ASSUME NEW w \in Writers, Begin(w) PROVE Typed'
  <2>1. PICK c \in Contents :
          put' = [put EXCEPT ![w] = [put[w] EXCEPT !.pc = "look",
                                                   !.content = c]]
    BY <1>2 DEF Begin
  <2>2. put' \in [Writers -> Put] /\ Busy'
    <3>1. [put[w] EXCEPT !.pc = "look", !.content = c] \in Put
      BY DEF Put, Places
    <3>2. [put[w] EXCEPT !.pc = "look", !.content = c].content = c
      BY DEF Put, Places
    <3>3. QED
      BY <2>1, <3>1, <3>2 DEF Put, Places
  <2>3. QED
    BY <1>2, <2>2 DEF Begin, disk, Put, Places
<1>3. ASSUME NEW w \in Writers, Reuse(w) PROVE Typed'
  BY <1>3 DEF Reuse, disk
<1>4. ASSUME NEW w \in Writers, CreateTemp(w) \/ WriteTemp(w) \/ SyncTemp(w)
      PROVE Typed'
  <2>1. PICK pc \in {"write", "sync", "rename"}, f \in Files :
          put' = [put EXCEPT ![w] = [put[w] EXCEPT !.pc = pc, !.file = f]]
    BY <1>4 DEF CreateTemp, WriteTemp, SyncTemp
  <2>2. put[w].content \in Contents
    BY <1>4 DEF CreateTemp, WriteTemp, SyncTemp
  <2>3. put' \in [Writers -> Put] /\ Busy'
    <3>1. [put[w] EXCEPT !.pc = pc, !.file = f] \in Put
      BY DEF Put, Places
    <3>2. [put[w] EXCEPT !.pc = pc, !.file = f].content \in Contents
      BY <2>2 DEF Put, Places
    <3>3. QED
      BY <2>1, <3>1, <3>2 DEF Put, Places
  <2>4. UNCHANGED <<target, durable, events, up, kills, powerLosses>>
    BY <1>4 DEF CreateTemp, WriteTemp, SyncTemp, disk
  <2>5. QED
    BY <2>3, <2>4 DEF Put, Places
<1>5. ASSUME NEW w \in Writers, Rename(w) PROVE Typed'
  <2>1. /\ target' = [target EXCEPT ![put[w].content] = put[w].file]
        /\ put' = [put EXCEPT ![w] = [put[w] EXCEPT !.pc = "syncDirectory",
                                                    !.file = "absent"]]
        /\ UNCHANGED <<durable, events, up, kills, powerLosses>>
    BY <1>5 DEF Rename
  <2>2. put[w].file \in Files /\ put[w].content \in Contents
    BY <1>5 DEF Rename
  <2>3. put' \in [Writers -> Put] /\ Busy'
    <3>1. [put[w] EXCEPT !.pc = "syncDirectory", !.file = "absent"] \in Put
      BY DEF Put, Places
    <3>2. [put[w] EXCEPT !.pc = "syncDirectory", !.file = "absent"].content
             \in Contents
      BY <2>2 DEF Put, Places
    <3>3. QED
      BY <2>1, <3>1, <3>2 DEF Put, Places
  <2>4. target' \in [Contents -> Files]
    BY <2>1, <2>2
  <2>5. QED
    BY <2>1, <2>3, <2>4 DEF Put, Places
<1>6. ASSUME NEW w \in Writers, SyncDirectory(w) PROVE Typed'
  BY <1>6 DEF SyncDirectory
<1>7. ASSUME NEW w \in Writers, Fails(w) PROVE Typed'
  BY <1>7 DEF Fails, disk
<1>8. ASSUME NEW w \in Writers, Commit(w) PROVE Typed'
  <2>1. put[w].content \in Contents /\ durable[put[w].content] \in BOOLEAN
    BY <1>8 DEF Commit
  <2>2. [content |-> put[w].content,
         early |-> put[w].reused /\ ~durable[put[w].content]] \in Reference
    BY <2>1 DEF Reference
  <2>3. events' \subseteq Reference
    BY <1>8, <2>2 DEF Commit
  <2>4. QED
    BY <1>8, <2>3 DEF Commit, disk
<1>9. CASE Boot
  BY <1>9 DEF Boot, disk
<1>10. CASE Kill
  <2>1. kills' \in 0..MaxKills
    BY <1>10, ArtifactAssumption DEF Kill
  <2>2. QED
    BY <1>10, <2>1 DEF Kill, Die, disk
<1>11. CASE PowerLoss
  <2>1. target' \in [Contents -> Files] /\ durable' \in [Contents -> BOOLEAN]
    BY <1>11 DEF PowerLoss
  <2>2. powerLosses' \in 0..MaxPowerLosses
    BY <1>11, ArtifactAssumption DEF PowerLoss
  <2>3. QED
    BY <1>11, <2>1, <2>2 DEF PowerLoss, Die
<1>12. QED
  BY <1>1, <1>2, <1>3, <1>4, <1>5, <1>6, <1>7, <1>8, <1>9, <1>10, <1>11
  DEF Next

\* Every variable of the store keeps its type.
THEOREM TypeCorrect == Spec => []TypeOK
<1>1. Typed => TypeOK
  BY DEF Typed
<1>2. QED
  BY TypedInit, TypedNext, <1>1, PTL DEF Spec

-----------------------------------------------------------------------------
LEMMA OrderedNext ==
  ASSUME Typed, Ordered, Kept, [Next]_vars PROVE Ordered' /\ Kept'
<1> USE DEF Typed, TypeOK, Busy, Ordered, Kept, At, Reference
<1>1. CASE UNCHANGED vars
  BY <1>1 DEF vars
<1>2. ASSUME NEW w \in Writers, Begin(w) PROVE Ordered' /\ Kept'
  BY <1>2 DEF Begin, disk
<1>3. ASSUME NEW w \in Writers, Reuse(w) PROVE Ordered' /\ Kept'
  BY <1>3 DEF Reuse, disk, Idle, Whole
<1>4. ASSUME NEW w \in Writers, CreateTemp(w) \/ WriteTemp(w) \/ SyncTemp(w)
      PROVE Ordered' /\ Kept'
  BY <1>4 DEF CreateTemp, WriteTemp, SyncTemp, disk
<1>5. ASSUME NEW w \in Writers, Rename(w) PROVE Ordered' /\ Kept'
  BY <1>5 DEF Rename
<1>6. ASSUME NEW w \in Writers, SyncDirectory(w) PROVE Ordered' /\ Kept'
  BY <1>6 DEF SyncDirectory
<1>7. ASSUME NEW w \in Writers, Fails(w) PROVE Ordered' /\ Kept'
  BY <1>7 DEF Fails, disk, Idle
<1>8. ASSUME NEW w \in Writers, Commit(w) PROVE Ordered' /\ Kept'
  BY <1>8 DEF Commit, disk, Idle
<1>9. CASE Boot
  BY <1>9 DEF Boot, disk
<1>10. CASE Kill
  BY <1>10 DEF Kill, Die, disk, Idle
<1>11. CASE PowerLoss
  <2>1. \A c \in Contents :
          /\ target'[c] \in {"absent", "synced"}
          /\ durable[c] => target'[c] = "synced"
          /\ durable'[c] = (target'[c] # "absent")
    BY <1>11 DEF PowerLoss, AfterLoss
  <2>2. powerLosses' > 0 /\ events' = events
    BY <1>11 DEF PowerLoss, Die
  <2>3. Ordered'
    BY <1>11, <2>1 DEF PowerLoss, Die, Idle
  <2>4. Kept'
    BY <2>1, <2>2
  <2>5. QED
    BY <2>3, <2>4
<1>12. QED
  BY <1>1, <1>2, <1>3, <1>4, <1>5, <1>6, <1>7, <1>8, <1>9, <1>10, <1>11
  DEF Next

LEMMA StoreCorrect == Spec => [](Typed /\ Ordered /\ Kept)
<1>1. Init => Typed /\ Ordered /\ Kept
  BY TypedInit DEF Init, Ordered, Kept, Idle
<1>2. Typed /\ Ordered /\ Kept /\ [Next]_vars => (Typed /\ Ordered /\ Kept)'
  BY TypedNext, OrderedNext
<1>3. QED
  BY <1>1, <1>2, PTL DEF Spec

\* No death of the process or of the machine leaves an object cut short.
THEOREM WholeCorrect == Spec => []NeverTorn
<1>1. Ordered => NeverTorn
  BY DEF Ordered, NeverTorn
<1>2. QED
  BY <1>1, StoreCorrect, PTL

\* The artifacts of committed events are there, save those an event was
\* committed with too early when the machine then lost power.
THEOREM ReferencesCorrect == Spec => []ReferencesHold
<1>1. Kept => ReferencesHold
  BY DEF Kept, ReferencesHold, Whole
<1>2. QED
  BY <1>1, StoreCorrect, PTL
=============================================================================
