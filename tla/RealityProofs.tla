---------------------------- MODULE RealityProofs ----------------------------
(***************************************************************************)
(* Proofs about Reality.tla for any parts of the tree and any bounds: a    *)
(* bundle that two equal captures confirm is the tree of one moment, an    *)
(* edit made while a Meeting deliberates is noticed, every Workdir has the *)
(* whole bundle.  What the proofs turn on is that a part only grows: a     *)
(* view that is read twice with one result has had it all the time in      *)
(* between.                                                                *)
(***************************************************************************)
EXTENDS Reality, SequenceTheorems, TLAPS

-----------------------------------------------------------------------------
(* The history of the tree: an edit adds a state, and a part only grows.   *)
Histories ==
    /\ history \in Seq([Parts -> Nat])
    /\ Len(history) \in Nat \ {0} /\ Len(history) <= MaxEdits + 1
    /\ \A t \in 1..Len(history), p \in Parts : history[t][p] <= t - 1
    /\ \A t, u \in 1..Len(history), p \in Parts : t <= u => history[t][p] <= history[u][p]

\* The view that the command i of a capture returns.
Place(i) == IF i <= 7 THEN i ELSE i - 7
Looks == UNION {[Views[i] -> Nat] : i \in 1..7}

\* What was read was read in order, from the moment on.
Reading(views, trees, moment) ==
    \E at \in [1..Len(views) -> moment..Len(trees)] :
        /\ \A i, j \in 1..Len(views) : i <= j => at[i] <= at[j]
        /\ \A i \in 1..Len(views) : views[i] = View(Place(i), trees[at[i]])

Captures ==
    /\ got \in Seq(Looks) /\ Len(got) <= 14
    /\ captured \in 1..Len(history) /\ observed \in 1..Len(history)
    /\ pc = "capture" => Reading(got, history, captured)
    /\ pc = "observe" => Reading(got, history, observed) /\ Len(got) <= 7

\* The bundle is the tree of one moment, from the capture up to another.
Frozen(moment) == \E t \in captured..moment : Snapshot(history[t]) = bundle

Order ==
    /\ pc \in {"capture", "create"} => status = "none"
    /\ pc = "prepare" => status \in {"preparing", "sealed_proposals"}
    /\ pc = "restore" => status = "preparing"
    /\ pc = "deliberate" => status = "sealed_proposals"
    /\ pc = "observe" => status = "verifying"
    /\ pc = "done" => status \in {"awaiting_human", "failed"}
    /\ status = "awaiting_human" => pc = "done"

Bundles ==
    /\ status = "none" /\ pc # "create" => bundle = NoBundle
    /\ status # "none" \/ pc = "create" => Frozen(Len(history)) /\ Len(bundle) = 7
    /\ pc = "observe" => Frozen(observed)

\* An environment is left half restored by a death, or while it is worked on.
Environments ==
    /\ cut \subseteq 1..Seats
    /\ restored \in [1..Seats -> 0..6]
    /\ seat \in 1..(Seats + 1)
    /\ \A s \in cut : restored[s] >= 2
    /\ pc = "restore" => seat \in 1..Seats /\ restored[seat] \in 1..5
    /\ status # "failed" =>
         \A s \in 1..Seats : \/ restored[s] \in {0, 1, 6}
                             \/ s \in cut
                             \/ pc = "restore" /\ s = seat
    /\ pc \in {"prepare", "restore"} =>
         \A s \in 1..(seat - 1) : restored[s] = 6 \/ s \in cut

Places ==
    /\ status \in {"none", "preparing", "sealed_proposals", "verifying",
                   "awaiting_human", "failed"}
    /\ pc \in {"idle", "capture", "create", "prepare", "restore",
               "deliberate", "observe", "done"}
    /\ deaths \in 0..MaxDeaths

Inv ==
    /\ Places /\ Order /\ Histories /\ Captures
    /\ Bundles /\ EditsAreNoticed
    /\ Environments /\ WorkdirsRestored

-----------------------------------------------------------------------------
LEMMA Element ==
    ASSUME NEW S, NEW s \in Seq(S)
    PROVE  Len(s) \in Nat /\ \A i \in 1..Len(s) : s[i] \in S
  OBVIOUS

LEMMA ViewsFacts ==
    /\ Len(Views) = 7 /\ DOMAIN Views = 1..7
    /\ \A i \in 1..7 : Views[i] \subseteq Parts
<1>1. Len(Views) = 7 /\ DOMAIN Views = 1..7
  BY DEF Views
<1>2. \A i \in 1..7 : i = 1 \/ i = 2 \/ i = 3 \/ i = 4 \/ i = 5 \/ i = 6 \/ i = 7
  OBVIOUS
<1>3. /\ Views[1] \subseteq Parts /\ Views[2] \subseteq Parts /\ Views[3] \subseteq Parts
      /\ Views[4] \subseteq Parts /\ Views[5] \subseteq Parts /\ Views[6] \subseteq Parts
      /\ Views[7] \subseteq Parts
  BY DEF Views, Parts
<1>4. QED
  BY <1>1, <1>2, <1>3

LEMMA PlaceTwice == \A i \in 1..7 : Place(i) = i /\ Place(i + 7) = i
  BY DEF Place

LEMMA NotEmpty == ASSUME NEW s, Len(s) = 7 PROVE s # <<>>
  OBVIOUS

\* Seven values that are read in order, then seven more.
LEMMA InOrder ==
    ASSUME NEW low \in Nat \ {0}, NEW high \in Nat, NEW at \in [1..14 -> low..high],
           \A i, j \in 1..14 : i <= j => at[i] <= at[j]
    PROVE  \A i \in 1..7 :
             /\ at[i] \in 1..high /\ at[i + 7] \in 1..high /\ at[7] \in low..high
             /\ at[7] \in 1..high /\ at[i] <= at[7] /\ at[7] <= at[i + 7]
             /\ i + 7 \in 1..14 /\ i \in 1..14
<1> SUFFICES ASSUME NEW i \in 1..7
             PROVE  /\ at[i] \in 1..high /\ at[i + 7] \in 1..high /\ at[7] \in low..high
                    /\ at[7] \in 1..high /\ at[i] <= at[7] /\ at[7] <= at[i + 7]
                    /\ i + 7 \in 1..14 /\ i \in 1..14
  OBVIOUS
<1>1. i \in 1..14 /\ 7 \in 1..14 /\ i + 7 \in 1..14 /\ i <= 7 /\ 7 <= i + 7
  OBVIOUS
<1>2. at[i] \in low..high /\ at[7] \in low..high /\ at[i + 7] \in low..high
  BY <1>1
<1>3. at[i] \in 1..high /\ at[7] \in 1..high /\ at[i + 7] \in 1..high
  BY <1>2
<1>4. at[i] <= at[7] /\ at[7] <= at[i + 7]
  BY <1>1
<1>5. QED
  BY <1>1, <1>2, <1>3, <1>4

LEMMA PlaceFacts ==
    ASSUME NEW n \in 0..13
    PROVE  (n % 7) + 1 = Place(n + 1) /\ Place(n + 1) \in 1..7
<1>1. CASE n \in 0..6
  BY <1>1 DEF Place
<1>2. CASE n \in 7..13
  BY <1>2 DEF Place
<1>3. QED
  BY <1>1, <1>2

\* What a view shows at two moments it shows in between.
LEMMA Squeezed ==
    ASSUME Histories, NEW i \in 1..7,
           NEW t \in 1..Len(history), NEW u \in 1..Len(history), NEW v \in 1..Len(history),
           t <= u, u <= v, View(i, history[t]) = View(i, history[v])
    PROVE  View(i, history[u]) = View(i, history[t])
<1>1. ASSUME NEW p \in Views[i] PROVE history[u][p] = history[t][p]
  <2>1. p \in Parts
    BY ViewsFacts
  <2>2. history[t][p] = history[v][p]
    BY DEF View
  <2>3. history[t][p] <= history[u][p] /\ history[u][p] <= history[v][p]
    BY <2>1 DEF Histories
  <2>4. history[t] \in [Parts -> Nat] /\ history[u] \in [Parts -> Nat]
    BY DEF Histories
  <2>5. history[t][p] \in Nat /\ history[u][p] \in Nat
    BY <2>1, <2>4
  <2>6. QED
    BY <2>2, <2>3, <2>5
<1>2. QED
  BY <1>1 DEF View

LEMMA Viewed ==
    ASSUME Histories, NEW i \in 1..7, NEW t \in 1..Len(history)
    PROVE  View(i, history[t]) \in Looks
<1>1. history[t] \in [Parts -> Nat]
  BY DEF Histories
<1>2. Views[i] \subseteq Parts
  BY ViewsFacts
<1>3. View(i, history[t]) \in [Views[i] -> Nat]
  BY <1>1, <1>2 DEF View
<1>4. QED
  BY <1>3 DEF Looks

\* The next view.
LEMMA Looked ==
    ASSUME Histories, NEW moment \in 1..Len(history), Reading(got, history, moment),
           got \in Seq(Looks), NEW n \in 0..14, Len(got) < n, Look(n)
    PROVE  got' \in Seq(Looks) /\ Len(got') <= n /\ Reading(got', history', moment)
<1> DEFINE k == Len(got)
           now == Len(history)
<1>1. k \in 0..13 /\ now \in Nat \ {0}
  <2>1. k \in Nat /\ now \in Nat \ {0} /\ k < n
    BY Element DEF Histories
  <2> HIDE DEF k, now
  <2>2. QED
    BY <2>1
<1>2. PICK at \in [1..k -> moment..now] :
        /\ \A i, j \in 1..k : i <= j => at[i] <= at[j]
        /\ \A i \in 1..k : got[i] = View(Place(i), history[at[i]])
  BY DEF Reading
<1>3. got' = Append(got, View(Place(k + 1), history[now])) /\ history' = history
  BY <1>1, PlaceFacts, ViewsFacts DEF Look, Last, tree
<1>4. View(Place(k + 1), history[now]) \in Looks
  <2>1. Place(k + 1) \in 1..7
    BY <1>1, PlaceFacts
  <2>2. now \in 1..Len(history)
    BY <1>1
  <2>3. QED
    BY <2>1, <2>2, Viewed
<1>5. /\ got' \in Seq(Looks) /\ Len(got') = k + 1
      /\ \A i \in 1..k : got'[i] = got[i]
      /\ got'[k + 1] = View(Place(k + 1), history[now])
  BY <1>3, <1>4
<1> DEFINE on == [i \in 1..(k + 1) |-> IF i = k + 1 THEN now ELSE at[i]]
<1>6. /\ on \in [1..(k + 1) -> moment..now] /\ on[k + 1] = now
      /\ \A i \in 1..k : on[i] = at[i]
  BY <1>1, <1>2
<1> HIDE DEF on, k, now
<1>7. ASSUME NEW i \in 1..(k + 1), NEW j \in 1..(k + 1), i <= j PROVE on[i] <= on[j]
  <2>1. CASE j = k + 1
    <3>1. on[i] \in moment..now
      BY <1>6
    <3>2. QED
      BY <1>1, <1>6, <2>1, <3>1
  <2>2. CASE j # k + 1
    <3>1. i \in 1..k /\ j \in 1..k
      BY <1>1, <1>7, <2>2
    <3>2. QED
      BY <1>2, <1>6, <1>7, <3>1
  <2>3. QED
    BY <2>1, <2>2
<1>8. ASSUME NEW i \in 1..(k + 1) PROVE got'[i] = View(Place(i), history[on[i]])
  <2>1. CASE i = k + 1
    BY <1>5, <1>6, <2>1
  <2>2. CASE i # k + 1
    <3>1. i \in 1..k
      BY <1>1, <2>2
    <3>2. QED
      BY <1>2, <1>5, <1>6, <3>1
  <2>3. QED
    BY <2>1, <2>2
<1>9. Len(got') = k + 1 /\ Len(history') = now /\ history' = history
  BY <1>3, <1>5 DEF now
<1>10. Reading(got', history', moment)
  <2>1. \E f \in [1..Len(got') -> moment..Len(history')] :
          /\ \A i, j \in 1..Len(got') : i <= j => f[i] <= f[j]
          /\ \A i \in 1..Len(got') : got'[i] = View(Place(i), history'[f[i]])
    <3> SUFFICES \E f \in [1..(k + 1) -> moment..now] :
                   /\ \A i, j \in 1..(k + 1) : i <= j => f[i] <= f[j]
                   /\ \A i \in 1..(k + 1) : got'[i] = View(Place(i), history[f[i]])
      BY <1>9
    <3>1. QED
      BY <1>6, <1>7, <1>8
  <2>2. QED
    BY <2>1 DEF Reading
<1>11. QED
  BY <1>1, <1>5, <1>10 DEF k

\* What was read stays read when the tree changes.
LEMMA StillReading ==
    ASSUME Histories, NEW moment \in 1..Len(history), Reading(got, history, moment), got' = got,
           Len(got) \in Nat,
           Len(history') \in Nat, Len(history') >= Len(history),
           \A t \in 1..Len(history) : history'[t] = history[t]
    PROVE  Reading(got', history', moment)
<1> DEFINE k == Len(got)
           now == Len(history)
<1>1. PICK at \in [1..k -> moment..now] :
        /\ \A i, j \in 1..k : i <= j => at[i] <= at[j]
        /\ \A i \in 1..k : got[i] = View(Place(i), history[at[i]])
  BY DEF Reading
<1>2. now \in Nat /\ now <= Len(history') /\ moment \in 1..now
  BY DEF Histories
<1>3. \A i \in 1..k : at[i] \in moment..now /\ at[i] \in 1..now
  BY <1>1, <1>2
<1>4. at \in [1..k -> moment..Len(history')]
  BY <1>1, <1>2, <1>3
<1>5. \A i \in 1..k : got[i] = View(Place(i), history'[at[i]])
  BY <1>1, <1>3
<1>6. QED
  BY <1>1, <1>4, <1>5 DEF Reading

\* Nothing has been read yet.
LEMMA StartReading ==
    ASSUME got' = <<>>, history' = history, NEW moment \in Nat
    PROVE  Reading(got', history', moment)
<1>1. Len(got') = 0 /\ 1..0 = {}
  OBVIOUS
<1>2. [i \in 1..0 |-> 0] \in [1..0 -> moment..Len(history)]
  OBVIOUS
<1>3. QED
  BY <1>1, <1>2 DEF Reading

\* Two equal captures are the tree of a moment.
LEMMA Compared ==
    ASSUME Histories, NEW moment \in 1..Len(history), Reading(got, history, moment),
           got \in Seq(Looks), Len(got) = 14, First = Second
    PROVE  /\ \E t \in moment..Len(history) : Snapshot(history[t]) = First
           /\ Len(First) = 7 /\ First # <<>>
<1> DEFINE now == Len(history)
<1>1. PICK at \in [1..14 -> moment..now] :
        /\ \A i, j \in 1..14 : i <= j => at[i] <= at[j]
        /\ \A i \in 1..14 : got[i] = View(Place(i), history[at[i]])
  BY DEF Reading
<1>2. now \in Nat /\ moment \in 1..now
  BY DEF Histories
<1> HIDE DEF now
<1>3. /\ First = [i \in 1..7 |-> got[i]] /\ Len(First) = 7
      /\ \A i \in 1..7 : Second[i] = got[i + 7]
  <2>1. First = SubSeq(got, 1, 7) /\ Second = SubSeq(got, 8, 14)
    <3>1. 7 + 1 = 8 /\ 2 * 7 = 14
      OBVIOUS
    <3>2. QED
      BY <3>1, ViewsFacts DEF First, Second
  <2>2. \A i \in 1..14 : got[i] \in Looks
    <3>1. \A i \in 1..Len(got) : got[i] \in Looks
      BY Element
    <3>2. QED
      BY <3>1
  <2>3. /\ Len(SubSeq(got, 1, 7)) = 7 /\ SubSeq(got, 1, 7) \in Seq(Looks)
        /\ \A i \in 1..7 : SubSeq(got, 1, 7)[i] = got[1 + i - 1]
    BY <2>2, SubSeqProperties
  <2>4. \A i \in 1..7 : SubSeq(got, 8, 14)[i] = got[8 + i - 1]
    BY <2>2, SubSeqProperties
  <2>5. \A i \in 1..7 : 1 + i - 1 = i /\ 8 + i - 1 = i + 7
    OBVIOUS
  <2> DEFINE a == SubSeq(got, 1, 7)
             b == SubSeq(got, 8, 14)
  <2>6. a \in Seq(Looks) /\ Len(a) = 7 /\ \A i \in 1..7 : a[i] = got[i] /\ b[i] = got[i + 7]
    BY <2>3, <2>4, <2>5
  <2> HIDE DEF a, b
  <2>7. a = [i \in 1..7 |-> got[i]]
    BY <2>6
  <2>8. QED
    BY <2>1, <2>6, <2>7 DEF a, b
<1> DEFINE t == at[7]
<1>4. \A i \in 1..7 :
        /\ at[i] \in 1..now /\ at[i + 7] \in 1..now /\ t \in moment..now
        /\ t \in 1..now /\ at[i] <= t /\ t <= at[i + 7]
        /\ i + 7 \in 1..14 /\ i \in 1..14
  <2>1. moment \in Nat \ {0}
    BY <1>2
  <2>2. QED
    BY <1>1, <1>2, <2>1, InOrder
<1>5. ASSUME NEW i \in 1..7 PROVE View(i, history[t]) = got[i]
  <2>1. /\ at[i] \in 1..now /\ at[i + 7] \in 1..now /\ at[i] <= t /\ t <= at[i + 7]
        /\ i + 7 \in 1..14 /\ i \in 1..14 /\ t \in 1..now
    BY <1>1, <1>4
  <2>2. got[i] = View(i, history[at[i]]) /\ got[i + 7] = View(i, history[at[i + 7]])
    <3>1. Place(i) = i /\ Place(i + 7) = i
      BY PlaceTwice
    <3>2. QED
      BY <1>1, <2>1, <3>1
  <2>3. got[i] = got[i + 7]
    BY <1>3
  <2>4. View(i, history[t]) = View(i, history[at[i]])
    <3> HIDE DEF t
    <3>1. View(i, history[at[i]]) = View(i, history[at[i + 7]])
      BY <2>2, <2>3
    <3>2. QED
      BY <2>1, <3>1, Squeezed DEF now
  <2>5. QED
    BY <2>2, <2>4
<1>6. Snapshot(history[t]) = First
  <2> HIDE DEF t
  <2> QED
    BY <1>3, <1>5, ViewsFacts DEF Snapshot
<1>7. First # <<>>
  BY <1>3, NotEmpty
<1>8. t \in moment..Len(history)
  BY <1>4 DEF now
<1>9. QED
  BY <1>3, <1>6, <1>7, <1>8

\* A moment from another one on.
LEMMA Onwards ==
    ASSUME NEW now \in Nat, NEW moment \in 1..now, NEW later \in moment..now
    PROVE  later \in 1..now /\ moment <= later
  OBVIOUS

\* A capture that finds the tree as it was before it began, but for the
\* branch: but for the branch, it has not changed.
LEMMA Noticed ==
    ASSUME Histories, NEW moment \in 1..Len(history), Reading(got, history, moment),
           got \in Seq(Looks), Len(got) = 7, captured \in 1..Len(history), Frozen(moment),
           Observation(got) = Observation(bundle)
    PROVE  Observation(Snapshot(history[moment])) = Observation(bundle)
<1> DEFINE now == Len(history)
<1>1. PICK at \in [1..7 -> moment..now] :
        \A i \in 1..7 : got[i] = View(Place(i), history[at[i]])
  BY DEF Reading
<1>2. PICK t \in captured..moment : Snapshot(history[t]) = bundle
  BY DEF Frozen
<1>3. now \in Nat /\ moment \in 1..now /\ t \in 1..now /\ t <= moment
  BY DEF Histories
<1>4. DOMAIN got = 1..7 /\ DOMAIN bundle = 1..7 /\ DOMAIN Snapshot(history[moment]) = 1..7
  BY <1>2, ViewsFacts DEF Snapshot
<1>5. \A i \in (1..7) \ {2} : got[i] = bundle[i]
  <2>1. \A i \in (1..7) \ {2} : Observation(got)[i] = got[i] /\ Observation(bundle)[i] = bundle[i]
    BY <1>4 DEF Observation
  <2>2. QED
    BY <2>1
<1>6. ASSUME NEW i \in (1..7) \ {2} PROVE View(i, history[moment]) = bundle[i]
  <2>1. at[i] \in 1..now /\ moment <= at[i]
    <3>1. i \in 1..7
      OBVIOUS
    <3>2. at[i] \in moment..now
      BY <1>1, <3>1
    <3> HIDE DEF now
    <3>3. QED
      BY <1>3, <3>2, Onwards
  <2>2. got[i] = View(i, history[at[i]])
    <3>1. Place(i) = i
      BY PlaceTwice
    <3>2. QED
      BY <1>1, <3>1
  <2>3. bundle[i] = View(i, history[t])
    BY <1>2, ViewsFacts DEF Snapshot
  <2>4. View(i, history[t]) = View(i, history[at[i]])
    BY <1>5, <2>2, <2>3
  <2>5. View(i, history[moment]) = View(i, history[t])
    BY <1>3, <2>1, <2>4, Squeezed
  <2>6. QED
    BY <2>3, <2>5
<1>7. \A i \in (1..7) \ {2} : Snapshot(history[moment])[i] = bundle[i]
  BY <1>6, ViewsFacts DEF Snapshot
<1>8. QED
  BY <1>4, <1>7 DEF Observation

-----------------------------------------------------------------------------
LEMMA InvInit == Init => Inv
<1> SUFFICES ASSUME Init PROVE Inv
  OBVIOUS
<1>1. Places /\ Order
  BY RealityAssumption DEF Init, Places, Order
<1>2. /\ history = << [p \in Parts |-> 0] >> /\ got = <<>>
      /\ Len(history) = 1 /\ Len(got) = 0 /\ history[1] = [p \in Parts |-> 0]
  BY DEF Init
<1>3. Histories
  <2>1. history \in Seq([Parts -> Nat])
    <3>1. [p \in Parts |-> 0] \in [Parts -> Nat]
      OBVIOUS
    <3>2. QED
      BY <1>2, <3>1
  <2>2. \A t \in 1..1 : t = 1
    OBVIOUS
  <2>3. \A t \in 1..Len(history), p \in Parts : history[t][p] = 0 /\ t = 1
    BY <1>2, <2>2
  <2>4. 1 <= MaxEdits + 1
    BY RealityAssumption
  <2>5. QED
    BY <1>2, <2>1, <2>3, <2>4 DEF Histories
<1>4. Captures
  BY <1>2 DEF Captures, Init
<1>5. Bundles /\ EditsAreNoticed
  BY DEF Bundles, EditsAreNoticed, Init
<1>6. Environments /\ WorkdirsRestored
  <2>1. 1 \in 1..(Seats + 1)
    BY RealityAssumption
  <2>2. QED
    BY <2>1 DEF Environments, WorkdirsRestored, Init
<1>7. QED
  BY <1>1, <1>3, <1>4, <1>5, <1>6 DEF Inv

\* The Human changes the tree: what was read and frozen stays what it was.
LEMMA EditKeeps == ASSUME Inv, Edit PROVE Inv'
<1> DEFINE n == Len(history)
<1>1. /\ history \in Seq([Parts -> Nat]) /\ n \in Nat \ {0} /\ n <= MaxEdits
      /\ \A t \in 1..n, p \in Parts : history[t][p] <= t - 1
      /\ \A t, u \in 1..n, p \in Parts : t <= u => history[t][p] <= history[u][p]
  BY DEF Inv, Histories, Edit, Now
<1>2. PICK q \in Parts : history' = Append(history, [history[n] EXCEPT ![q] = @ + 1])
  BY DEF Edit, Last
<1>3. UNCHANGED <<deaths, look, bundle, status, pc, seat, envs>>
  BY DEF Edit
<1> DEFINE new == [history[n] EXCEPT ![q] = @ + 1]
<1>4. history[n] \in [Parts -> Nat]
  BY <1>1
<1>5. /\ new \in [Parts -> Nat]
      /\ \A p \in Parts : new[p] \in Nat /\ history[n][p] <= new[p] /\ new[p] <= history[n][p] + 1
  BY <1>4
<1> HIDE DEF new
<1>6. /\ history' \in Seq([Parts -> Nat]) /\ Len(history') = n + 1
      /\ \A t \in 1..n : history'[t] = history[t]
      /\ history'[n + 1] = new
  BY <1>1, <1>2, <1>5 DEF new
<1>7. \A t \in 1..n, p \in Parts : history[t][p] \in Nat
  <2>1. \A t \in 1..Len(history) : history[t] \in [Parts -> Nat]
    BY <1>1, Element
  <2>2. QED
    BY <2>1
<1> HIDE DEF n
<1>8. Histories'
  <2>1. ASSUME NEW t \in 1..(n + 1), NEW p \in Parts PROVE history'[t][p] <= t - 1
    <3>1. CASE t \in 1..n
      BY <1>1, <1>6, <3>1
    <3>2. CASE t = n + 1
      <4>1. n \in 1..n /\ history[n][p] <= n - 1
        BY <1>1
      <4>2. QED
        BY <1>1, <1>5, <1>6, <1>7, <3>2, <4>1
    <3>3. QED
      BY <1>1, <3>1, <3>2
  <2>2. ASSUME NEW t \in 1..(n + 1), NEW u \in 1..(n + 1), NEW p \in Parts, t <= u
        PROVE  history'[t][p] <= history'[u][p]
    <3>1. CASE t \in 1..n /\ u \in 1..n
      BY <1>1, <1>6, <2>2, <3>1
    <3>2. CASE t \in 1..n /\ u = n + 1
      <4>1. n \in 1..n /\ t <= n
        BY <1>1, <3>2
      <4>2. history[t][p] <= history[n][p]
        BY <1>1, <3>2, <4>1
      <4>3. QED
        BY <1>5, <1>6, <1>7, <3>2, <4>1, <4>2
    <3>3. CASE t = n + 1 /\ u = n + 1
      BY <1>5, <1>6, <3>3
    <3>4. QED
      BY <1>1, <2>2, <3>1, <3>2, <3>3
  <2>3. Len(history') \in Nat \ {0} /\ Len(history') <= MaxEdits + 1
    BY <1>1, <1>6, RealityAssumption
  <2>4. QED
    BY <1>6, <2>1, <2>2, <2>3 DEF Histories
<1>9. /\ Len(history') \in Nat /\ Len(history') >= Len(history)
      /\ \A t \in 1..Len(history) : history'[t] = history[t]
      /\ \A t \in 1..Len(history) : t \in 1..Len(history')
  BY <1>1, <1>6 DEF n
<1>10. Captures'
  <2>1. /\ got \in Seq(Looks) /\ Len(got) <= 14 /\ Len(got) \in Nat
        /\ captured \in 1..Len(history) /\ observed \in 1..Len(history)
        /\ pc = "capture" => Reading(got, history, captured)
        /\ pc = "observe" => Reading(got, history, observed) /\ Len(got) <= 7
    BY DEF Inv, Captures
  <2>2. got' = got /\ captured' = captured /\ observed' = observed /\ pc' = pc
    BY <1>3 DEF look
  <2>3. Histories
    BY DEF Inv
  <2>4. pc = "capture" => Reading(got', history', captured)
    BY <1>9, <2>1, <2>2, <2>3, StillReading
  <2>5. pc = "observe" => Reading(got', history', observed)
    BY <1>9, <2>1, <2>2, <2>3, StillReading
  <2>6. QED
    BY <1>9, <2>1, <2>2, <2>4, <2>5 DEF Captures
<1>11. Bundles' /\ EditsAreNoticed'
  <2>1. captured \in 1..Len(history) /\ observed \in 1..Len(history) /\ Len(history) \in Nat
    BY DEF Inv, Captures, Histories
  <2>2. captured' = captured /\ observed' = observed /\ pc' = pc /\ status' = status /\ bundle' = bundle
    BY <1>3 DEF look
  <2>3. \A t \in captured..Len(history) : t \in captured..Len(history') /\ history'[t] = history[t]
    BY <1>9, <2>1
  <2>4. \A t \in captured..observed : history'[t] = history[t]
    BY <1>9, <2>1
  <2>5. Frozen(Len(history)) => \E t \in captured..Len(history') : Snapshot(history'[t]) = bundle
    BY <2>3 DEF Frozen
  <2>6. Frozen(observed) => \E t \in captured..observed : Snapshot(history'[t]) = bundle
    BY <2>4 DEF Frozen
  <2>7. Bundles'
    BY <2>2, <2>5, <2>6 DEF Inv, Bundles, Frozen
  <2>8. EditsAreNoticed'
    BY <1>9, <2>1, <2>2 DEF Inv, EditsAreNoticed
  <2>9. QED
    BY <2>7, <2>8
<1>12. Places' /\ Order' /\ Environments' /\ WorkdirsRestored'
  BY <1>3 DEF Inv, Places, Order, Environments, WorkdirsRestored, envs
<1>13. QED
  BY <1>8, <1>10, <1>11, <1>12 DEF Inv

\* A capture is neither begun nor continued.
LEMMA NoCapture ==
    ASSUME Histories, Captures, UNCHANGED <<history, captured, observed>>,
           got' = got \/ got' = <<>>, pc' \notin {"capture", "observe"}
    PROVE  Histories' /\ Captures'
<1>1. Histories'
  BY DEF Histories
<1>2. got' \in Seq(Looks) /\ Len(got') <= 14
  <2>1. CASE got' = got
    BY <2>1 DEF Captures
  <2>2. CASE got' = <<>>
    BY <2>2
  <2>3. QED
    BY <2>1, <2>2
<1>3. QED
  BY <1>1, <1>2 DEF Captures

LEMMA BeginCreateKeeps == ASSUME Inv, BeginCreate PROVE Inv'
<1>1. /\ pc = "idle" /\ status = "none" /\ pc' = "capture" /\ got' = <<>>
      /\ captured' = Len(history) /\ history' = history /\ deaths' = deaths
      /\ UNCHANGED <<observed, bundle, status, seat, envs>>
  BY DEF BeginCreate, tree, Now
<1>2. Len(history) \in Nat \ {0} /\ Len(got') = 0 /\ got' \in Seq(Looks)
  BY <1>1 DEF Inv, Histories
<1>3. Reading(got', history', Len(history))
  BY <1>1, <1>2, StartReading
<1>4. Histories' /\ Captures'
  BY <1>1, <1>2, <1>3 DEF Inv, Histories, Captures
<1>5. Places' /\ Order' /\ Bundles' /\ EditsAreNoticed'
  BY <1>1 DEF Inv, Places, Order, Bundles, EditsAreNoticed
<1>6. Environments' /\ WorkdirsRestored'
  BY <1>1 DEF Inv, Environments, WorkdirsRestored, envs
<1>7. QED
  BY <1>4, <1>5, <1>6 DEF Inv

\* A command of a capture, of Create or of the Verifier's step.
LEMMA LookKeeps ==
    ASSUME Inv,
           \/ pc = "capture" /\ Look(2 * Len(Views))
           \/ pc = "observe" /\ Look(Len(Views))
    PROVE  Inv'
<1>1. /\ history' = history /\ deaths' = deaths
      /\ UNCHANGED <<captured, observed, bundle, status, pc, seat, envs>>
  BY DEF Look, tree
<1>2. Histories /\ got \in Seq(Looks) /\ Captures
  BY DEF Inv, Captures
<1>3. Histories' /\ Captures'
  <2>1. CASE pc = "capture" /\ Look(2 * Len(Views))
    <3>1. Look(14) /\ Len(got) < 14 /\ 14 \in 0..14
      BY <2>1, ViewsFacts DEF Look
    <3>2. captured \in 1..Len(history) /\ Reading(got, history, captured)
      BY <1>2, <2>1 DEF Captures
    <3>3. got' \in Seq(Looks) /\ Len(got') <= 14 /\ Reading(got', history', captured)
      BY <1>2, <3>1, <3>2, Looked
    <3>4. QED
      BY <1>1, <1>2, <2>1, <3>3 DEF Histories, Captures
  <2>2. CASE pc = "observe" /\ Look(Len(Views))
    <3>1. Look(7) /\ Len(got) < 7 /\ 7 \in 0..14
      BY <2>2, ViewsFacts DEF Look
    <3>2. observed \in 1..Len(history) /\ Reading(got, history, observed)
      BY <1>2, <2>2 DEF Captures
    <3>3. got' \in Seq(Looks) /\ Len(got') <= 7 /\ Reading(got', history', observed)
      BY <1>2, <3>1, <3>2, Looked
    <3>4. Len(got') <= 14
      BY <3>3, Element
    <3>5. QED
      BY <1>1, <1>2, <2>2, <3>3, <3>4 DEF Histories, Captures
  <2>3. QED
    BY <2>1, <2>2
<1>4. Places' /\ Order' /\ Bundles' /\ EditsAreNoticed'
  BY <1>1 DEF Inv, Places, Order, Bundles, EditsAreNoticed, Frozen
<1>5. Environments' /\ WorkdirsRestored'
  BY <1>1 DEF Inv, Environments, WorkdirsRestored, envs
<1>6. QED
  BY <1>3, <1>4, <1>5 DEF Inv

LEMMA CompareKeeps == ASSUME Inv, Compare PROVE Inv'
<1>1. /\ pc = "capture" /\ Len(got) = 14
      /\ bundle' = (IF First = Second THEN First ELSE NoBundle)
      /\ pc' = (IF First = Second THEN "create" ELSE "idle")
      /\ got' = <<>> /\ history' = history /\ deaths' = deaths
      /\ UNCHANGED <<captured, observed, status, seat, envs>>
  BY ViewsFacts DEF Compare, tree
<1>2. status = "none" /\ Histories /\ Captures
  BY <1>1 DEF Inv, Order
<1>3. Histories' /\ Captures'
  BY <1>1, <1>2, NoCapture
<1>4. First = Second =>
        /\ \E t \in captured..Len(history) : Snapshot(history[t]) = First
        /\ Len(First) = 7
  <2>1. captured \in 1..Len(history) /\ got \in Seq(Looks) /\ Reading(got, history, captured)
    BY <1>1, <1>2 DEF Captures
  <2>2. QED
    BY <1>1, <1>2, <2>1, Compared
<1>5. Bundles'
  <2>1. CASE First = Second
    BY <1>1, <1>2, <1>4, <2>1 DEF Bundles, Frozen
  <2>2. CASE First # Second
    BY <1>1, <1>2, <2>2 DEF Bundles
  <2>3. QED
    BY <2>1, <2>2
<1>6. Places' /\ Order' /\ EditsAreNoticed'
  BY <1>1, <1>2 DEF Inv, Places, Order, EditsAreNoticed
<1>7. Environments' /\ WorkdirsRestored'
  BY <1>1 DEF Inv, Environments, WorkdirsRestored, envs
<1>8. QED
  BY <1>3, <1>5, <1>6, <1>7 DEF Inv

LEMMA CreateKeeps == ASSUME Inv, Created \/ CreateFails PROVE Inv'
<1>1. /\ pc \in {"capture", "create"} /\ pc' = "idle"
      /\ got' = got \/ got' = <<>>
      /\ history' = history /\ deaths' = deaths
      /\ UNCHANGED <<captured, observed, seat, envs>>
  BY DEF Created, CreateFails, tree, look
<1>2. status = "none"
  BY <1>1 DEF Inv, Order
<1>3. Histories' /\ Captures'
  BY <1>1, NoCapture DEF Inv
<1>4. CASE Created
  <2>1. pc = "create" /\ status' = "preparing" /\ bundle' = bundle
    BY <1>4 DEF Created
  <2>2. Places' /\ Order' /\ Bundles' /\ EditsAreNoticed'
    BY <1>1, <1>2, <2>1 DEF Inv, Places, Order, Bundles, Frozen, EditsAreNoticed
  <2>3. Environments' /\ WorkdirsRestored'
    BY <1>1, <1>2, <2>1 DEF Inv, Environments, WorkdirsRestored, envs
  <2>4. QED
    BY <1>3, <2>2, <2>3 DEF Inv
<1>5. CASE CreateFails
  <2>1. status' = status /\ bundle' = NoBundle
    BY <1>5 DEF CreateFails
  <2>2. Places' /\ Order' /\ Bundles' /\ EditsAreNoticed'
    BY <1>1, <1>2, <2>1 DEF Inv, Places, Order, Bundles, EditsAreNoticed
  <2>3. Environments' /\ WorkdirsRestored'
    BY <1>1, <1>2, <2>1 DEF Inv, Environments, WorkdirsRestored, envs
  <2>4. QED
    BY <1>3, <2>2, <2>3 DEF Inv
<1>6. QED
  BY <1>4, <1>5

\* The Meeting has a bundle, and the Verifier's step begins at the moment it is run.
LEMMA FrozenNow == ASSUME Inv, status # "none" PROVE Frozen(Len(history)) /\ Len(bundle) = 7
  BY DEF Inv, Bundles

LEMMA RunKeeps == ASSUME Inv, Run PROVE Inv'
<1>1. /\ pc = "idle" /\ status \in {"preparing", "sealed_proposals", "verifying"}
      /\ pc' = (IF status = "verifying" THEN "observe" ELSE "prepare")
      /\ seat' = 1 /\ got' = <<>> /\ observed' = Len(history)
      /\ history' = history /\ deaths' = deaths
      /\ UNCHANGED <<captured, bundle, status, envs>>
  BY DEF Run, tree, Now
<1>2. Len(history) \in Nat \ {0} /\ Len(got') = 0 /\ got' \in Seq(Looks)
  BY <1>1 DEF Inv, Histories
<1>3. Reading(got', history', Len(history))
  BY <1>1, <1>2, StartReading
<1>4. Histories' /\ Captures'
  BY <1>1, <1>2, <1>3 DEF Inv, Histories, Captures
<1>5. Frozen(Len(history)) /\ Len(bundle) = 7
  BY <1>1, FrozenNow
<1>6. Places' /\ Order' /\ Bundles' /\ EditsAreNoticed'
  BY <1>1, <1>5 DEF Inv, Places, Order, Bundles, Frozen, EditsAreNoticed
<1>7. Environments'
  <2>1. 1 \in 1..(Seats + 1) /\ 1..(1 - 1) = {}
    BY RealityAssumption
  <2>2. QED
    BY <1>1, <2>1 DEF Inv, Environments, envs
<1>8. WorkdirsRestored'
  BY <1>1 DEF Inv, WorkdirsRestored, envs
<1>9. QED
  BY <1>4, <1>6, <1>7, <1>8 DEF Inv

\* The environments: nothing else changes.
LEMMA EnvironmentsKeep ==
    ASSUME Inv, SeatReady \/ MakeDirectories \/ Restore \/ PrepareFails
    PROVE  Inv'
<1>1. /\ history' = history /\ deaths' = deaths /\ UNCHANGED <<look, bundle, cut>>
      /\ pc \in {"prepare", "restore"} /\ pc' \in {"prepare", "restore", "idle"}
  BY DEF SeatReady, MakeDirectories, Restore, PrepareFails, tree, envs
<1>2. Histories' /\ Captures'
  BY <1>1, NoCapture DEF Inv, look
<1>3. /\ status \in {"preparing", "sealed_proposals"}
      /\ pc = "restore" => status = "preparing"
      /\ cut \subseteq 1..Seats /\ restored \in [1..Seats -> 0..6] /\ seat \in 1..(Seats + 1)
      /\ \A s \in cut : restored[s] >= 2
      /\ pc = "restore" => seat \in 1..Seats /\ restored[seat] \in 1..5
      /\ \A s \in 1..Seats : \/ restored[s] \in {0, 1, 6} \/ s \in cut
                             \/ pc = "restore" /\ s = seat
      /\ \A s \in 1..(seat - 1) : restored[s] = 6 \/ s \in cut
      /\ Seats \in Nat
  BY <1>1, RealityAssumption DEF Inv, Order, Environments
<1>4. status = "sealed_proposals" => \A s \in 1..Seats : restored[s] = 6 \/ s \in cut
  BY DEF Inv, WorkdirsRestored, Complete
<1>5. Bundles' /\ EditsAreNoticed'
  <2>1. status' \in {status, "failed"}
    BY DEF SeatReady, MakeDirectories, Restore, PrepareFails
  <2>2. QED
    BY <1>1, <1>3, <2>1 DEF Inv, Bundles, Frozen, EditsAreNoticed, look
<1>6. CASE SeatReady
  <2>1. /\ pc = "prepare" /\ seat \in 1..Seats /\ restored[seat] >= 2 /\ seat' = seat + 1
        /\ UNCHANGED <<status, pc, restored, cut>>
    BY <1>3, <1>6 DEF SeatReady, Cloned, envs
  <2>2. Places' /\ Order' /\ WorkdirsRestored'
    BY <1>1, <2>1 DEF Inv, Places, Order, WorkdirsRestored
  <2>3. restored[seat] = 6 \/ seat \in cut
    BY <1>3, <2>1
  <2>4. \A s \in 1..(seat' - 1) : restored[s] = 6 \/ s \in cut
    BY <1>3, <2>1, <2>3
  <2>5. seat' \in 1..(Seats + 1)
    BY <1>3, <2>1
  <2>6. Environments'
    BY <1>3, <2>1, <2>4, <2>5 DEF Environments
  <2>7. QED
    BY <1>2, <1>5, <2>2, <2>6 DEF Inv
<1>7. CASE MakeDirectories
  <2>1. /\ pc = "prepare" /\ seat \in 1..Seats /\ restored[seat] = 0 /\ pc' = "restore"
        /\ restored' = [restored EXCEPT ![seat] = 1] /\ UNCHANGED <<status, seat, cut>>
    BY <1>3, <1>7 DEF MakeDirectories
  <2>2. seat \notin cut
    BY <1>3, <2>1
  <2>3. status = "preparing"
    BY <1>3, <1>4, <2>1, <2>2
  <2>4. Places' /\ Order' /\ WorkdirsRestored'
    BY <1>1, <2>1, <2>3 DEF Inv, Places, Order, WorkdirsRestored
  <2>5. /\ restored' \in [1..Seats -> 0..6] /\ restored'[seat] = 1
        /\ \A s \in 1..Seats : s # seat => restored'[s] = restored[s]
    BY <1>3, <2>1
  <2>6. Environments'
    BY <1>3, <2>1, <2>2, <2>5 DEF Environments
  <2>7. QED
    BY <1>2, <1>5, <2>4, <2>6 DEF Inv
<1>8. CASE Restore
  <2>1. /\ pc = "restore" /\ restored' = [restored EXCEPT ![seat] = @ + 1]
        /\ pc' = (IF restored[seat] + 1 = 6 THEN "prepare" ELSE pc)
        /\ seat' = (IF restored[seat] + 1 = 6 THEN seat + 1 ELSE seat)
        /\ UNCHANGED <<status, cut>>
    BY <1>8 DEF Restore, Complete
  <2>2. status = "preparing" /\ seat \in 1..Seats /\ restored[seat] \in 1..5
    BY <1>3, <2>1
  <2>3. Places' /\ Order' /\ WorkdirsRestored'
    BY <1>1, <2>1, <2>2 DEF Inv, Places, Order, WorkdirsRestored
  <2>4. /\ restored' \in [1..Seats -> 0..6] /\ restored'[seat] = restored[seat] + 1
        /\ \A s \in 1..Seats : s # seat => restored'[s] = restored[s]
    BY <1>3, <2>1, <2>2
  <2>5. CASE restored[seat] + 1 = 6
    <3>1. restored'[seat] = 6 /\ seat' = seat + 1 /\ pc' = "prepare"
      BY <2>1, <2>4, <2>5
    <3>2. \A s \in 1..(seat' - 1) : restored'[s] = 6 \/ s \in cut
      BY <1>3, <2>2, <2>4, <3>1
    <3>3. \A s \in 1..Seats : restored'[s] \in {0, 1, 6} \/ s \in cut
      BY <1>3, <2>4, <3>1
    <3>4. \A s \in cut : restored'[s] >= 2
      BY <1>3, <2>4, <3>1
    <3>5. seat' \in 1..(Seats + 1)
      BY <1>3, <2>2, <3>1
    <3>6. QED
      BY <1>2, <1>3, <1>5, <2>1, <2>3, <2>4, <3>1, <3>2, <3>3, <3>4, <3>5 DEF Inv, Environments
  <2>6. CASE restored[seat] + 1 # 6
    <3>1. restored'[seat] \in 1..5 /\ seat' = seat /\ pc' = "restore"
      BY <2>1, <2>2, <2>4, <2>6
    <3>2. \A s \in 1..(seat - 1) : restored'[s] = 6 \/ s \in cut
      BY <1>3, <2>2, <2>4
    <3>3. \A s \in 1..Seats : restored'[s] \in {0, 1, 6} \/ s \in cut \/ s = seat
      BY <1>3, <2>4
    <3>4. \A s \in cut : restored'[s] >= 2
      BY <1>3, <2>2, <2>4
    <3>5. QED
      BY <1>2, <1>3, <1>5, <2>1, <2>2, <2>3, <2>4, <3>1, <3>2, <3>3, <3>4 DEF Inv, Environments
  <2>7. QED
    BY <2>5, <2>6
<1>9. CASE PrepareFails
  <2>1. status' = "failed" /\ pc' = "idle" /\ UNCHANGED <<seat, restored, cut>>
    BY <1>9 DEF PrepareFails, envs
  <2>2. Places' /\ Order' /\ WorkdirsRestored'
    BY <1>1, <2>1 DEF Inv, Places, Order, WorkdirsRestored
  <2>3. Environments'
    BY <1>3, <2>1 DEF Environments
  <2>4. QED
    BY <1>2, <1>5, <2>2, <2>3 DEF Inv
<1>10. QED
  BY <1>6, <1>7, <1>8, <1>9

LEMMA PreparedKeeps == ASSUME Inv, Prepared PROVE Inv'
<1>1. /\ pc = "prepare" /\ seat > Seats /\ status' = "sealed_proposals" /\ pc' = "deliberate"
      /\ history' = history /\ deaths' = deaths
      /\ UNCHANGED <<got, captured, observed, bundle, seat, restored, cut>>
  BY DEF Prepared, tree, look, envs
<1>2. Histories' /\ Captures'
  BY <1>1, NoCapture DEF Inv
<1>3. status # "none" /\ status # "failed"
  BY <1>1 DEF Inv, Order
<1>4. \A s \in 1..Seats : restored[s] = 6 \/ s \in cut
  <2>1. seat - 1 = Seats
    BY <1>1, RealityAssumption DEF Inv, Environments
  <2>2. QED
    BY <1>1, <2>1 DEF Inv, Environments
<1>5. Places' /\ Order' /\ Bundles' /\ EditsAreNoticed'
  BY <1>1, <1>3 DEF Inv, Places, Order, Bundles, Frozen, EditsAreNoticed
<1>6. Environments' /\ WorkdirsRestored'
  BY <1>1, <1>3, <1>4 DEF Inv, Environments, WorkdirsRestored, Complete
<1>7. QED
  BY <1>2, <1>5, <1>6 DEF Inv

LEMMA DeliberateKeeps == ASSUME Inv, Deliberate PROVE Inv'
<1>1. /\ pc = "deliberate" /\ status' = "verifying" /\ pc' = "observe"
      /\ got' = <<>> /\ observed' = Len(history) /\ history' = history /\ deaths' = deaths
      /\ UNCHANGED <<captured, bundle, seat, restored, cut>>
  BY DEF Deliberate, tree, Now, envs
<1>2. status = "sealed_proposals"
  BY <1>1 DEF Inv, Order
<1>3. Len(history) \in Nat \ {0} /\ Len(got') = 0 /\ got' \in Seq(Looks)
  BY <1>1 DEF Inv, Histories
<1>4. Reading(got', history', Len(history))
  BY <1>1, <1>3, StartReading
<1>5. Histories' /\ Captures'
  BY <1>1, <1>3, <1>4 DEF Inv, Histories, Captures
<1>6. Frozen(Len(history)) /\ Len(bundle) = 7
  BY <1>2, FrozenNow
<1>7. Places' /\ Order' /\ Bundles' /\ EditsAreNoticed'
  BY <1>1, <1>6 DEF Inv, Places, Order, Bundles, Frozen, EditsAreNoticed
<1>8. Environments' /\ WorkdirsRestored'
  BY <1>1, <1>2 DEF Inv, Environments, WorkdirsRestored
<1>9. QED
  BY <1>5, <1>7, <1>8 DEF Inv

\* The Verifier's step: the answer is accepted if the tree is the bundle's, but for the branch.
LEMMA AcceptKeeps == ASSUME Inv, Accept \/ ObserveFails PROVE Inv'
<1>1. /\ pc = "observe" /\ pc' = "done"
      /\ status' \in {"awaiting_human", "failed"}
      /\ status' = "awaiting_human" => Len(got) = 7 /\ Observation(got) = Observation(bundle)
      /\ history' = history /\ deaths' = deaths
      /\ UNCHANGED <<got, captured, observed, bundle, seat, restored, cut>>
  BY ViewsFacts DEF Accept, ObserveFails, tree, look, envs
<1>2. Histories' /\ Captures'
  BY <1>1, NoCapture DEF Inv
<1>3. status = "verifying"
  BY <1>1 DEF Inv, Order
<1>4. EditsAreNoticed'
  <2>1. /\ Histories /\ observed \in 1..Len(history) /\ captured \in 1..Len(history)
        /\ Reading(got, history, observed) /\ Frozen(observed) /\ got \in Seq(Looks)
    BY <1>1 DEF Inv, Captures, Bundles
  <2>2. status' = "awaiting_human" =>
            Observation(Snapshot(history[observed])) = Observation(bundle)
    BY <1>1, <2>1, Noticed
  <2>3. QED
    BY <1>1, <2>2 DEF EditsAreNoticed
<1>5. Places' /\ Order' /\ Bundles'
  BY <1>1, <1>3 DEF Inv, Places, Order, Bundles, Frozen
<1>6. Environments' /\ WorkdirsRestored'
  BY <1>1, <1>3 DEF Inv, Environments, WorkdirsRestored
<1>7. QED
  BY <1>2, <1>4, <1>5, <1>6 DEF Inv

\* A death in the middle of a clone or after it leaves the seat marked.
LEMMA DieKeeps == ASSUME Inv, Die PROVE Inv'
<1>1. /\ pc \notin {"idle", "done"} /\ pc' = "idle" /\ got' = <<>>
      /\ bundle' = (IF status = "none" THEN NoBundle ELSE bundle)
      /\ cut' = (IF pc = "restore" /\ restored[seat] >= 2 THEN cut \cup {seat} ELSE cut)
      /\ UNCHANGED <<history, captured, observed, status, seat, restored>>
  BY DEF Die, Cloned
<1>2. Histories' /\ Captures'
  BY <1>1, NoCapture DEF Inv
<1>3. deaths' \in 0..MaxDeaths
  BY RealityAssumption DEF Inv, Places, Die
<1>4. Places' /\ Order' /\ EditsAreNoticed'
  BY <1>1, <1>3 DEF Inv, Places, Order, EditsAreNoticed
<1>5. Bundles'
  BY <1>1 DEF Inv, Bundles, Frozen
<1>6. /\ cut \subseteq cut' /\ cut' \subseteq 1..Seats /\ \A s \in cut' : restored[s] >= 2
      /\ pc = "restore" /\ restored[seat] >= 2 => seat \in cut'
      /\ pc = "restore" => restored[seat] \in 1..5
  BY <1>1 DEF Inv, Environments
<1>7. status # "failed" => \A s \in 1..Seats : restored[s] \in {0, 1, 6} \/ s \in cut'
  <2>1. pc = "restore" => restored[seat] \in {0, 1, 6} \/ seat \in cut'
    BY <1>6
  <2>2. QED
    BY <1>6, <2>1 DEF Inv, Environments
<1>8. Environments'
  BY <1>1, <1>6, <1>7 DEF Inv, Environments
<1>9. WorkdirsRestored'
  BY <1>1, <1>6 DEF Inv, WorkdirsRestored
<1>10. QED
  BY <1>2, <1>4, <1>5, <1>8, <1>9 DEF Inv

LEMMA InvNext == Inv /\ [Next]_vars => Inv'
<1> SUFFICES ASSUME Inv, [Next]_vars PROVE Inv'
  OBVIOUS
<1>1. CASE UNCHANGED vars
  BY <1>1 DEF Inv, Places, Order, Histories, Captures, Reading, Bundles, Frozen, EditsAreNoticed,
              Environments, WorkdirsRestored, vars, tree, look, envs
<1>2. QED
  BY <1>1, EditKeeps, BeginCreateKeeps, LookKeeps, CompareKeeps, CreateKeeps, RunKeeps,
     EnvironmentsKeep, PreparedKeeps, DeliberateKeeps, AcceptKeeps, DieKeeps DEF Next

LEMMA Always == Spec => []Inv
  BY InvInit, InvNext, PTL DEF Spec

(* Every variable has its type: a part of the tree has been edited at most *)
(* once for every state of the tree that came before.                      *)
THEOREM TypeCorrect == Spec => []TypeOK
<1>1. Inv => TypeOK
  <2> SUFFICES ASSUME Inv PROVE TypeOK
    OBVIOUS
  <2>1. /\ Histories /\ Captures /\ Places /\ Environments /\ Bundles
        /\ Len(history) \in Nat \ {0} /\ Len(history) <= MaxEdits + 1
    BY DEF Inv, Histories
  <2>2. Now \in 1..(MaxEdits + 1)
    BY <2>1, RealityAssumption DEF Now
  <2>3. ASSUME NEW t \in 1..Len(history) PROVE history[t] \in [Parts -> 0..MaxEdits]
    <3>1. history[t] \in [Parts -> Nat]
      BY <2>1, Element DEF Histories
    <3>2. \A p \in Parts : history[t][p] <= t - 1
      BY <2>1 DEF Histories
    <3>3. t - 1 <= MaxEdits
      BY <2>1, RealityAssumption
    <3>4. \A p \in Parts : history[t][p] \in 0..MaxEdits
      BY <2>1, <3>1, <3>2, <3>3, RealityAssumption
    <3>5. QED
      BY <3>1, <3>4
  <2>4. DOMAIN history = 1..Len(history)
    BY <2>1 DEF Histories
  <2>5. Len(got) <= 2 * Len(Views) /\ {captured, observed} \subseteq 1..Now
    BY <2>1, ViewsFacts DEF Captures, Now
  <2>6. bundle # NoBundle => Len(bundle) = Len(Views)
    BY <2>1, ViewsFacts DEF Bundles
  <2>7. QED
    BY <2>1, <2>2, <2>3, <2>4, <2>5, <2>6 DEF TypeOK, Places, Environments, Complete
<1>2. QED
  BY <1>1, Always, PTL

(* Two equal captures in a row are the tree of one moment: what a view     *)
(* showed twice it showed all the time in between, and all views have been *)
(* read once when the second capture begins.                               *)
THEOREM BundleCorrect == Spec => []BundleIsReality
<1>1. Inv => BundleIsReality
  BY DEF Inv, Bundles, Frozen, BundleIsReality, Now
<1>2. QED
  BY <1>1, Always, PTL

(* A result is handed to the Human only if the tree was the bundle's when  *)
(* the last observation of it began, but for the branch that its commit is *)
(* checked out under.                                                      *)
THEOREM EditsCorrect == Spec => []EditsAreNoticed
<1>1. Inv => EditsAreNoticed
  BY DEF Inv
<1>2. QED
  BY <1>1, Always, PTL

(* A Meeting deliberates on the whole bundle in every Workdir, except      *)
(* those in which the process died after the clone.                        *)
THEOREM WorkdirsCorrect == Spec => []WorkdirsRestored
<1>1. Inv => WorkdirsRestored
  BY DEF Inv
<1>2. QED
  BY <1>1, Always, PTL
=============================================================================
