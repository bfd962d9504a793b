---------------------------- MODULE StoreProofs ----------------------------
(***************************************************************************)
(* Proofs about EventStore.tla and the two modules that use it, for any    *)
(* Projects, repositories, handlers and bounds.                            *)
(*                                                                         *)
(* The reducers first: what applyEvent makes of a stream, one event after  *)
(* the other, is what can be read off the stream at once (lemmas Reduced,  *)
(* Grown and Replayed).  It is an induction over the events, by the least  *)
(* number that would not have the property (lemmas Least and Induction).   *)
(*                                                                         *)
(* Then Projects.tla: rows and seals follow the streams, a repository has  *)
(* one owner, Realities advance; and Maintenance.tla: the gate covers      *)
(* every drift, commands find sound Projects, a replay repairs.            *)
(***************************************************************************)
EXTENDS Projects, Maintenance, FiniteSetTheorems, SequenceTheorems,
        WellFoundedInduction, TLAPS

-----------------------------------------------------------------------------
(* Natural numbers.                                                        *)

\* A set of them has a least one.
LEMMA Least ==
    ASSUME NEW T \in SUBSET Nat, T # {}
    PROVE  \E n \in T : \A m \in T : n <= m
<1> DEFINE R == OpToRel(<, Nat)
<1>1. IsWellFoundedOn(R, Nat)
  BY NatLessThanWellFounded
<1>2. \A m, n \in Nat : m < n => <<m, n>> \in R
  BY DEF OpToRel
<1> HIDE DEF R
<1>3. PICK n \in T : \A m \in T : <<m, n>> \notin R
  BY <1>1, WFMin
<1>4. \A m \in T : ~(m < n)
  BY <1>2, <1>3
<1>5. QED
  BY <1>4

\* A set of numbers that holds 0, and with every number its successor.
LEMMA Induction ==
    ASSUME NEW G, 0 \in G, \A i \in Nat : i \in G => i + 1 \in G
    PROVE  \A i \in Nat : i \in G
<1> DEFINE T == {i \in Nat : i \notin G}
<1>1. SUFFICES ASSUME T # {} PROVE FALSE
  OBVIOUS
<1>2. PICK k \in T : \A m \in T : k <= m
  BY <1>1, Least
<1>3. k # 0 /\ k - 1 \in Nat /\ k - 1 \notin T
  BY <1>2
<1>4. k - 1 \in G
  BY <1>3
<1>5. QED
  BY <1>2, <1>3, <1>4

\* The states the reducers go through, up to the event n.
Through(f, base, items, taken, n) ==
    f = [i \in 0..n |-> IF i = 0 THEN base ELSE Reduce(f[i - 1], items[i], taken)]

LEMMA ThroughFacts ==
    ASSUME NEW base, NEW items, NEW taken, NEW n \in Nat, NEW f, Through(f, base, items, taken, n)
    PROVE  /\ f[0] = base
           /\ \A i \in 0..(n - 1) : f[i + 1] = Reduce(f[i], items[i + 1], taken)
<1>1. 0 \in 0..n /\ \A i \in 0..(n - 1) : i + 1 \in 0..n /\ i + 1 # 0 /\ i + 1 - 1 = i
  OBVIOUS
<1>2. \A i \in 0..n : f[i] = IF i = 0 THEN base ELSE Reduce(f[i - 1], items[i], taken)
  BY DEF Through
<1>3. QED
  BY <1>1, <1>2

LEMMA ThroughExists ==
    ASSUME NEW base, NEW items, NEW taken
    PROVE  \A n \in Nat : \E f : Through(f, base, items, taken, n)
<1> DEFINE G == {k \in Nat : \E f : Through(f, base, items, taken, k)}
<1>1. 0 \in G
  <2>1. Through([i \in 0..0 |-> base], base, items, taken, 0)
    BY DEF Through
  <2>2. QED
    BY <2>1
<1>2. ASSUME NEW k \in Nat, k \in G PROVE k + 1 \in G
  <2>1. PICK f : Through(f, base, items, taken, k)
    BY <1>2
  <2> DEFINE g == [i \in 0..(k + 1) |->
                      IF i = k + 1 THEN Reduce(f[k], items[k + 1], taken) ELSE f[i]]
  <2>2. \A i \in 0..k : f[i] = IF i = 0 THEN base ELSE Reduce(f[i - 1], items[i], taken)
    BY <2>1 DEF Through
  <2>3. /\ g[k + 1] = Reduce(f[k], items[k + 1], taken)
        /\ \A i \in 0..k : g[i] = f[i]
        /\ g = [i \in 0..(k + 1) |-> g[i]]
    OBVIOUS
  <2> HIDE DEF g
  <2>4. ASSUME NEW i \in 0..k
        PROVE  g[i] = IF i = 0 THEN base ELSE Reduce(g[i - 1], items[i], taken)
    <3>1. i # 0 => i - 1 \in 0..k
      OBVIOUS
    <3>2. QED
      BY <2>2, <2>3, <3>1
  <2>5. g[k + 1] = Reduce(g[k + 1 - 1], items[k + 1], taken)
    BY <2>3
  <2>6. \A i \in 0..(k + 1) : g[i] = IF i = 0 THEN base ELSE Reduce(g[i - 1], items[i], taken)
    BY <2>4, <2>5
  <2>7. Through(g, base, items, taken, k + 1)
    BY <2>3, <2>6 DEF Through
  <2>8. QED
    BY <2>7
<1> HIDE DEF G
<1>3. \A n \in Nat : n \in G
  BY <1>1, <1>2, Induction
<1>4. QED
  BY <1>3 DEF G

Start(base, sequence) == [ok |-> TRUE, row |-> base, sequence |-> sequence]

\* Those that Apply goes through.
Walk(base, sequence, items, taken) ==
    CHOOSE f : Through(f, Start(base, sequence), items, taken, Len(items))

LEMMA Walked ==
    ASSUME NEW p, NEW base, NEW sequence, NEW items, Len(items) \in Nat
    PROVE  LET f == Walk(base, sequence, items, TakenDirs(p))
           IN  /\ f[0] = Start(base, sequence)
               /\ \A i \in 0..(Len(items) - 1) :
                     f[i + 1] = Reduce(f[i], items[i + 1], TakenDirs(p))
               /\ Apply(p, base, sequence, items) = f[Len(items)]
<1> DEFINE f == Walk(base, sequence, items, TakenDirs(p))
           n == Len(items)
           taken == TakenDirs(p)
           first == Start(base, sequence)
<1>1. Through(f, first, items, taken, n)
  <2>1. \E g : Through(g, first, items, taken, n)
    BY ThroughExists
  <2>2. QED
    BY <2>1 DEF Walk
<1>2. Apply(p, base, sequence, items) = f[n]
  BY DEF Apply, Through, Start, Walk
<1>3. /\ f[0] = first
      /\ \A i \in 0..(n - 1) : f[i + 1] = Reduce(f[i], items[i + 1], taken)
  <2> HIDE DEF f, n, taken, first
  <2>1. n \in Nat
    BY DEF n
  <2>2. f[0] = first
    BY <1>1, <2>1, ThroughFacts
  <2>3. \A i \in 0..(n - 1) : f[i + 1] = Reduce(f[i], items[i + 1], taken)
    BY <1>1, <2>1, ThroughFacts
  <2>4. QED
    BY <2>2, <2>3
<1>4. QED
  BY <1>2, <1>3

-----------------------------------------------------------------------------
(* What the events of a stream say, up to one of them.                     *)
Found(s, types, k) == {i \in 1..k : s[i].type \in types}
Greatest(S) == IF S = {} THEN 0 ELSE CHOOSE i \in S : \A j \in S : j <= i
LastTo(s, types, k) == Greatest(Found(s, types, k))
CountTo(s, type, k) == Cardinality({i \in 1..k : s[i].type = type})

TruthTo(s, k) ==
    [exists   |-> LastTo(s, {"registered"}, k) # 0,
     dir      |-> IF LastTo(s, {"bound", "relinked"}, k) = 0 THEN NoDir
                  ELSE s[LastTo(s, {"bound", "relinked"}, k)].dir,
     branch   |-> IF LastTo(s, {"bound", "relinked"}, k) = 0 THEN NoBranch
                  ELSE s[LastTo(s, {"bound", "relinked"}, k)].branch,
     reality  |-> LastTo(s, {"captured"}, k),
     meetings |-> CountTo(s, "meeting", k),
     contents |-> CountTo(s, "content", k)]

LEMMA TruthAll ==
    ASSUME NEW s, DOMAIN s = 1..Len(s) PROVE TruthOf(s) = TruthTo(s, Len(s))
<1>1. \A types : LastOf(s, types) = LastTo(s, types, Len(s))
  BY DEF LastOf, LastTo, Greatest, Found
<1>2. \A type : CountOf(s, type) = CountTo(s, type, Len(s))
  BY DEF CountOf, CountTo
<1>3. QED
  BY <1>1, <1>2 DEF TruthOf, TruthTo

\* The greatest place at which such an event is.
LEMMA LastFacts ==
    ASSUME NEW s, NEW types, NEW k \in Nat
    PROVE  /\ LastTo(s, types, k) \in 0..k
           /\ LastTo(s, types, k) # 0 => s[LastTo(s, types, k)].type \in types
           /\ s[k + 1].type \in types => LastTo(s, types, k + 1) = k + 1
           /\ s[k + 1].type \notin types => LastTo(s, types, k + 1) = LastTo(s, types, k)
<1> DEFINE F == Found(s, types, k)
<1>1. F # {} => \E i \in F : \A j \in F : j <= i
  <2> SUFFICES ASSUME F # {} PROVE \E i \in F : \A j \in F : j <= i
    OBVIOUS
  <2> DEFINE T == {k - i : i \in F}
  <2>1. T \in SUBSET Nat /\ T # {} /\ F \subseteq 1..k
    BY DEF Found
  <2>2. PICK t \in T : \A m \in T : t <= m
    BY <2>1, Least
  <2>3. PICK i \in F : t = k - i
    BY <2>2
  <2> HIDE DEF F
  <2>4. ASSUME NEW j \in F PROVE j <= i
    <3>1. k - j \in T /\ i \in Nat /\ j \in Nat
      BY <2>1
    <3>2. k - i <= k - j
      BY <2>2, <2>3, <3>1
    <3>3. QED
      BY <3>1, <3>2
  <2>5. QED
    BY <2>4
<1>2. F \subseteq 1..k /\ \A i \in F : s[i].type \in types
  BY DEF Found
<1>3. F # {} => LastTo(s, types, k) \in F
  <2> HIDE DEF F
  <2> SUFFICES ASSUME F # {} PROVE LastTo(s, types, k) \in F
    OBVIOUS
  <2>1. LastTo(s, types, k) = CHOOSE i \in F : \A j \in F : j <= i
    BY DEF LastTo, Greatest, F
  <2>2. PICK i \in F : \A j \in F : j <= i
    BY <1>1
  <2>3. QED
    BY <2>1, <2>2
<1>4. F = {} => LastTo(s, types, k) = 0
  BY DEF LastTo, Greatest
<1>5. /\ LastTo(s, types, k) \in 0..k
      /\ LastTo(s, types, k) # 0 => s[LastTo(s, types, k)].type \in types
  <2> HIDE DEF F
  <2>1. CASE F = {}
    BY <1>4, <2>1
  <2>2. CASE F # {}
    <3>1. LastTo(s, types, k) \in F
      BY <1>3, <2>2
    <3> DEFINE at == LastTo(s, types, k)
    <3>2. at \in 1..k /\ s[at].type \in types
      BY <1>2, <3>1
    <3> HIDE DEF at
    <3>3. at \in 0..k
      BY <3>2
    <3>4. QED
      BY <3>2, <3>3 DEF at
  <2>3. QED
    BY <2>1, <2>2
<1>6. ASSUME s[k + 1].type \notin types PROVE LastTo(s, types, k + 1) = LastTo(s, types, k)
  <2>1. Found(s, types, k + 1) = F
    BY <1>6 DEF Found
  <2>2. QED
    BY <2>1 DEF LastTo
<1>7. ASSUME s[k + 1].type \in types PROVE LastTo(s, types, k + 1) = k + 1
  <2> DEFINE H == Found(s, types, k + 1)
  <2>1. k + 1 \in H /\ \A j \in H : j \in Nat /\ j <= k + 1
    BY <1>7 DEF Found
  <2>2. LastTo(s, types, k + 1) = CHOOSE i \in H : \A j \in H : j <= i
    BY <2>1 DEF LastTo, Greatest
  <2> HIDE DEF H
  <2>3. \A i \in H : (\A j \in H : j <= i) => i = k + 1
    BY <2>1
  <2>4. QED
    BY <2>1, <2>2, <2>3
<1>8. QED
  BY <1>5, <1>6, <1>7

LEMMA CountFacts ==
    ASSUME NEW s, NEW type, NEW k \in Nat
    PROVE  /\ CountTo(s, type, k) \in 0..k
           /\ s[k + 1].type = type => CountTo(s, type, k + 1) = CountTo(s, type, k) + 1
           /\ s[k + 1].type # type => CountTo(s, type, k + 1) = CountTo(s, type, k)
<1> DEFINE C == {i \in 1..k : s[i].type = type}
<1>1. IsFiniteSet(1..k) /\ Cardinality(1..k) = k
  BY FS_Interval
<1>2. IsFiniteSet(C) /\ Cardinality(C) \in Nat /\ Cardinality(C) <= k
  BY <1>1, FS_Subset, FS_CardinalityType
<1>3. ASSUME s[k + 1].type = type PROVE CountTo(s, type, k + 1) = CountTo(s, type, k) + 1
  <2>1. {i \in 1..(k + 1) : s[i].type = type} = C \cup {k + 1} /\ k + 1 \notin C
    BY <1>3
  <2> HIDE DEF C
  <2>2. Cardinality(C \cup {k + 1}) = Cardinality(C) + 1
    BY <1>2, <2>1, FS_AddElement
  <2>3. QED
    BY <2>1, <2>2 DEF CountTo, C
<1>4. ASSUME s[k + 1].type # type PROVE CountTo(s, type, k + 1) = CountTo(s, type, k)
  <2>1. {i \in 1..(k + 1) : s[i].type = type} = C
    BY <1>4
  <2>2. QED
    BY <2>1 DEF CountTo
<1>5. QED
  BY <1>2, <1>3, <1>4 DEF CountTo

LEMMA TruthEmpty == ASSUME NEW s PROVE TruthTo(s, 0) = EmptyRow
<1>1. \A types : LastTo(s, types, 0) = 0
  BY DEF LastTo, Greatest, Found
<1>2. \A type : CountTo(s, type, 0) = 0
  <2>1. \A type : CountTo(s, type, 0) \in 0..0
    BY CountFacts
  <2>2. QED
    BY <2>1
<1>3. QED
  BY <1>1, <1>2 DEF TruthTo, EmptyRow

\* Only the events up to the place count.
LEMMA TruthPrefix ==
    ASSUME NEW s, NEW u, NEW k \in Nat, \A i \in 1..k : s[i] = u[i]
    PROVE  TruthTo(s, k) = TruthTo(u, k)
<1>1. \A types : Found(s, types, k) = Found(u, types, k)
  BY DEF Found
<1>2. \A types : LastTo(s, types, k) = LastTo(u, types, k)
  BY <1>1 DEF LastTo
<1>3. \A type : CountTo(s, type, k) = CountTo(u, type, k)
  BY DEF CountTo
<1>4. \A types : LastTo(s, types, k) # 0 => s[LastTo(s, types, k)] = u[LastTo(s, types, k)]
  BY LastFacts
<1>5. QED
  BY <1>2, <1>3, <1>4 DEF TruthTo

\* The event of a place is the only one that makes the rows before it and the
\* rows after it differ.
After(r, item, k) ==
    CASE item.type = "registered" -> [r EXCEPT !.exists = TRUE]
      [] item.type \in {"bound", "relinked"} ->
           [r EXCEPT !.dir = item.dir, !.branch = item.branch]
      [] item.type = "captured" -> [r EXCEPT !.reality = k]
      [] item.type = "meeting"  -> [r EXCEPT !.meetings = @ + 1]
      [] item.type = "content"  -> [r EXCEPT !.contents = @ + 1]

LEMMA TruthNext ==
    ASSUME NEW s, NEW k \in Nat, s[k + 1].type \in Types
    PROVE  TruthTo(s, k + 1) = After(TruthTo(s, k), s[k + 1], k + 1)
<1> DEFINE type == s[k + 1].type
<1>1. \A types : type \in types => LastTo(s, types, k + 1) = k + 1
  BY LastFacts
<1>2. \A types : type \notin types => LastTo(s, types, k + 1) = LastTo(s, types, k)
  BY LastFacts
<1>3. \A t : type = t => CountTo(s, t, k + 1) = CountTo(s, t, k) + 1
  BY CountFacts
<1>4. \A t : type # t => CountTo(s, t, k + 1) = CountTo(s, t, k)
  BY CountFacts
<1>5. k + 1 # 0
  OBVIOUS
<1>6. CASE type = "registered"
  <2>1. /\ LastTo(s, {"registered"}, k + 1) # 0
        /\ LastTo(s, {"bound", "relinked"}, k + 1) = LastTo(s, {"bound", "relinked"}, k)
        /\ LastTo(s, {"captured"}, k + 1) = LastTo(s, {"captured"}, k)
        /\ CountTo(s, "meeting", k + 1) = CountTo(s, "meeting", k)
        /\ CountTo(s, "content", k + 1) = CountTo(s, "content", k)
    BY <1>1, <1>2, <1>4, <1>5, <1>6
  <2>2. QED
    BY <1>6, <2>1 DEF TruthTo, After
<1>7. CASE type \in {"bound", "relinked"}
  <2>1. /\ LastTo(s, {"registered"}, k + 1) = LastTo(s, {"registered"}, k)
        /\ LastTo(s, {"bound", "relinked"}, k + 1) = k + 1
        /\ LastTo(s, {"captured"}, k + 1) = LastTo(s, {"captured"}, k)
        /\ CountTo(s, "meeting", k + 1) = CountTo(s, "meeting", k)
        /\ CountTo(s, "content", k + 1) = CountTo(s, "content", k)
    BY <1>1, <1>2, <1>4, <1>7
  <2>2. QED
    BY <1>5, <1>7, <2>1 DEF TruthTo, After
<1>8. CASE type = "captured"
  <2>1. /\ LastTo(s, {"registered"}, k + 1) = LastTo(s, {"registered"}, k)
        /\ LastTo(s, {"bound", "relinked"}, k + 1) = LastTo(s, {"bound", "relinked"}, k)
        /\ LastTo(s, {"captured"}, k + 1) = k + 1
        /\ CountTo(s, "meeting", k + 1) = CountTo(s, "meeting", k)
        /\ CountTo(s, "content", k + 1) = CountTo(s, "content", k)
    BY <1>1, <1>2, <1>4, <1>8
  <2>2. QED
    BY <1>8, <2>1 DEF TruthTo, After
<1>9. CASE type \in {"meeting", "content"}
  <2>1. /\ LastTo(s, {"registered"}, k + 1) = LastTo(s, {"registered"}, k)
        /\ LastTo(s, {"bound", "relinked"}, k + 1) = LastTo(s, {"bound", "relinked"}, k)
        /\ LastTo(s, {"captured"}, k + 1) = LastTo(s, {"captured"}, k)
    BY <1>2, <1>9
  <2>2. CASE type = "meeting"
    <3>1. /\ CountTo(s, "meeting", k + 1) = CountTo(s, "meeting", k) + 1
          /\ CountTo(s, "content", k + 1) = CountTo(s, "content", k)
      BY <1>3, <1>4, <2>2
    <3>2. QED
      BY <2>1, <2>2, <3>1 DEF TruthTo, After
  <2>3. CASE type = "content"
    <3>1. /\ CountTo(s, "meeting", k + 1) = CountTo(s, "meeting", k)
          /\ CountTo(s, "content", k + 1) = CountTo(s, "content", k) + 1
      BY <1>3, <1>4, <2>3
    <3>2. QED
      BY <2>1, <2>3, <3>1 DEF TruthTo, After
  <2>4. QED
    BY <1>9, <2>2, <2>3
<1>10. QED
  BY <1>6, <1>7, <1>8, <1>9 DEF Types

\* What a reducer may make of the rows of a stream up to an event.
Reached(acc, s, k, d, taken) ==
    /\ acc = Start(TruthTo(s, k), k)
    /\ acc.row.dir = d \/ acc.row.dir \notin taken

LEMMA Reducing ==
    ASSUME NEW s, NEW k \in Nat, NEW acc, NEW d, NEW taken,
           Reached(acc, s, k, d, taken), s[k + 1].type \in Types
    PROVE  LET next == Reduce(acc, s[k + 1], taken)
           IN  ~next.ok \/ Reached(next, s, k + 1, d, taken)
<1> DEFINE item == s[k + 1]
           next == Reduce(acc, item, taken)
           r == TruthTo(s, k)
           grown == TruthTo(s, k + 1)
<1>1. acc = [ok |-> TRUE, row |-> r, sequence |-> k]
  BY DEF Reached, Start
<1>2. grown = After(r, item, k + 1)
  BY TruthNext
<1>3. r = [exists |-> r.exists, dir |-> r.dir, branch |-> r.branch, reality |-> r.reality,
           meetings |-> r.meetings, contents |-> r.contents]
  BY DEF TruthTo
<1>4. r.dir = d \/ r.dir \notin taken
  BY <1>1 DEF Reached
<1>5. item.type \in Types
  OBVIOUS
<1> HIDE DEF item, r, grown
<1>6. next = Refuse(acc) \/ next = Accept(acc, grown)
  BY <1>1, <1>2, <1>5 DEF Reduce, After, Types
<1>7. next = Accept(acc, grown) => grown.dir = r.dir \/ grown.dir \notin taken
  <2> SUFFICES ASSUME next = Accept(acc, grown) PROVE grown.dir = r.dir \/ grown.dir \notin taken
    OBVIOUS
  <2>1. CASE item.type \in {"bound", "relinked"}
    <3>1. next = Refuse(acc) => FALSE
      BY <1>1 DEF Refuse, Accept
    <3>2. item.dir \notin taken
      BY <2>1, <3>1, <1>1 DEF Reduce
    <3>3. grown.dir = item.dir
      BY <1>2, <1>3, <2>1 DEF After
    <3>4. QED
      BY <3>2, <3>3
  <2>2. CASE item.type \notin {"bound", "relinked"}
    BY <1>2, <1>3, <1>5, <2>2 DEF After, Types
  <2>3. QED
    BY <2>1, <2>2
<1>8. ~Refuse(acc).ok
  BY <1>1 DEF Refuse
<1>9. Accept(acc, grown) = [ok |-> TRUE, row |-> grown, sequence |-> k + 1]
  <2>1. acc.sequence = k
    BY <1>1
  <2>2. Accept(acc, grown) = [acc EXCEPT !.row = grown, !.sequence = k + 1]
    BY <2>1 DEF Accept
  <2>3. QED
    BY <1>1, <2>2
<1>10. ASSUME next = Accept(acc, grown) PROVE Reached(next, s, k + 1, d, taken)
  <2>1. next = Start(TruthTo(s, k + 1), k + 1)
    BY <1>9, <1>10 DEF Start, grown
  <2>2. next.row.dir = d \/ next.row.dir \notin taken
    BY <1>4, <1>7, <1>9, <1>10
  <2>3. QED
    BY <2>1, <2>2 DEF Reached
<1>11. QED
  BY <1>6, <1>8, <1>10 DEF item

LEMMA Refused ==
    ASSUME NEW acc, NEW item, NEW taken, ~acc.ok PROVE Reduce(acc, item, taken) = acc
  BY DEF Reduce

\* items are what the stream s says after the place start.
Continues(s, start, items) ==
    \A i \in 1..Len(items) : s[start + i] = items[i] /\ items[i].type \in Types

\* Apply of the events that follow a place to the rows up to that place.
LEMMA Reduced ==
    ASSUME NEW p, NEW s, NEW items, NEW start \in Nat, Len(items) \in Nat,
           Continues(s, start, items), NEW base, base = TruthTo(s, start)
    PROVE  LET acc == Apply(p, base, start, items)
           IN  ~acc.ok \/ Reached(acc, s, start + Len(items), base.dir, TakenDirs(p))
<1> DEFINE n == Len(items)
           taken == TakenDirs(p)
           d == base.dir
           f == Walk(base, start, items, taken)
<1>1. Apply(p, base, start, items) = f[n]
  BY Walked
<1>2. /\ f[0] = Start(base, start)
      /\ \A i \in 0..(n - 1) : f[i + 1] = Reduce(f[i], items[i + 1], taken)
  BY Walked
<1> HIDE DEF f
<1> DEFINE Fine(i) == ~f[i].ok \/ Reached(f[i], s, start + i, d, taken)
           G == {i \in Nat : i <= n => Fine(i)}
<1>3. 0 \in G
  <2>1. start + 0 = start
    OBVIOUS
  <2>2. f[0].row.dir = d
    BY <1>2 DEF Start
  <2>3. Reached(f[0], s, start, d, taken)
    BY <1>2, <2>2 DEF Reached
  <2>4. QED
    BY <2>1, <2>3
<1>4. ASSUME NEW i \in Nat, i \in G PROVE i + 1 \in G
  <2> SUFFICES ASSUME i + 1 <= n PROVE Fine(i + 1)
    OBVIOUS
  <2>1. i \in 0..(n - 1) /\ i + 1 \in 1..n /\ i <= n
    BY DEF n
  <2>2. Fine(i)
    BY <1>4, <2>1
  <2>3. f[i + 1] = Reduce(f[i], items[i + 1], taken)
    BY <1>2, <2>1
  <2>4. items[i + 1] = s[start + i + 1] /\ s[start + i + 1].type \in Types
    <3>1. start + (i + 1) = start + i + 1
      OBVIOUS
    <3>2. s[start + (i + 1)] = items[i + 1] /\ items[i + 1].type \in Types
      BY <2>1 DEF Continues
    <3>3. QED
      BY <3>1, <3>2
  <2>5. CASE ~f[i].ok
    BY <2>3, <2>5, Refused
  <2>6. CASE Reached(f[i], s, start + i, d, taken)
    <3>1. start + i \in Nat /\ start + (i + 1) = start + i + 1
      OBVIOUS
    <3> HIDE DEF taken, d, n
    <3>2. ~f[i + 1].ok \/ Reached(f[i + 1], s, start + i + 1, d, taken)
      BY <2>3, <2>4, <2>6, <3>1, Reducing
    <3>3. QED
      BY <3>1, <3>2
  <2>7. QED
    BY <2>2, <2>5, <2>6
<1> HIDE DEF G
<1>5. \A i \in Nat : i \in G
  BY <1>3, <1>4, Induction
<1>6. Fine(n)
  BY <1>5 DEF G
<1>7. QED
  BY <1>1, <1>6

-----------------------------------------------------------------------------
(* Projects: what holds of the store and of the commands.                  *)

\* An event as the commands and the reducers write it.
Events == [type : Types, dir : Dirs \cup {NoDir}, branch : Branches \cup {NoBranch},
           prev : Dirs \cup {NoDir}, seen : Nat]
Placed(item) ==
    item.type \in {"bound", "relinked", "captured"} =>
        item.dir \in Dirs /\ item.branch \in Branches

Streams ==
    /\ stream \in [Projects -> Seq(Events)]
    /\ \A p \in Projects : \A i \in 1..Len(stream[p]) : Placed(stream[p][i])

\* The rows and the seal are what the events say.
Follows ==
    /\ row = [p \in Projects |-> Truth(p)]
    /\ seal = [p \in Projects |-> [version |-> Version(p), digest |-> Digest(row[p])]]

Short == \A p \in Projects : Len(stream[p]) <= MaxLength

Places == {"idle", "binding", "version", "find", "resolve", "confirm", "append"}
Locals ==
    /\ pc \in [Handlers -> Places]
    /\ op \in [Handlers -> {"none", "register", "capture", "relink"}]
    /\ dir \in [Handlers -> Dirs \cup {NoDir}]
    /\ branch \in [Handlers -> Branches \cup {NoBranch}]
    /\ proj \in [Handlers -> Projects \cup {NoProject}]
    /\ prev \in [Handlers -> Dirs \cup {NoDir}]
    /\ ver \in [Handlers -> Nat]
    /\ seen \in [Handlers -> Nat]

\* A command that works has a Project and a repository; the one it captures is
\* bound, and the branch to be captured is chosen before the commit is read.
Working(h) ==
    /\ pc[h] = "idle" => ver[h] = 0
    /\ pc[h] # "idle" =>
        /\ proj[h] \in Projects /\ dir[h] \in Dirs
        /\ op[h] \in {"register", "capture", "relink"}
        /\ ver[h] <= Version(proj[h])
        /\ op[h] = "capture" => row[proj[h]].dir # NoDir
        /\ \/ pc[h] \in {"resolve", "confirm", "append"}
           \/ pc[h] = "version" /\ op[h] = "capture"
           => branch[h] \in Branches
        /\ pc[h] \in {"binding", "version"} => op[h] # "register"

Histories == refs \in [Dirs -> [Branches -> Seq(Commits)]]

\* A Reality is of a commit its branch has been at.
Recorded ==
    \A p \in Projects : \A i \in 1..Len(stream[p]) :
        stream[p][i].type = "captured"
        => stream[p][i].seen <= Len(refs[stream[p][i].dir][stream[p][i].branch])

\* As long as its Project has the version a command read, no Reality of the
\* branch is recorded that is later than the commit the command has seen.
Caught(h) ==
    pc[h] \in {"confirm", "append"} =>
        /\ seen[h] <= Len(refs[dir[h]][branch[h]])
        /\ ver[h] = Version(proj[h]) =>
             \A i \in 1..Len(stream[proj[h]]) :
                LET item == stream[proj[h]][i] IN
                item.type = "captured" /\ item.dir = dir[h] /\ item.branch = branch[h]
                => item.seen <= seen[h]

-----------------------------------------------------------------------------
(* The transactions.                                                       *)

LEMMA TruthTyped ==
    ASSUME NEW s, NEW k \in Nat, \A i \in 1..k : s[i] \in Events /\ Placed(s[i])
    PROVE  /\ TruthTo(s, k).dir \in Dirs \cup {NoDir}
           /\ TruthTo(s, k).branch \in Branches \cup {NoBranch}
           /\ TruthTo(s, k).dir # NoDir => TruthTo(s, k).branch \in Branches
           /\ k <= MaxLength => TruthTo(s, k) \in Rows
<1> DEFINE b == LastTo(s, {"bound", "relinked"}, k)
<1>1. b \in 0..k /\ (b # 0 => s[b].type \in {"bound", "relinked"})
  BY LastFacts
<1>2. b # 0 => s[b].dir \in Dirs /\ s[b].branch \in Branches
  <2> SUFFICES ASSUME b # 0 PROVE s[b].dir \in Dirs /\ s[b].branch \in Branches
    OBVIOUS
  <2>1. b \in 1..k
    BY <1>1
  <2>2. QED
    BY <1>1, <2>1 DEF Placed
<1>3. LastTo(s, {"captured"}, k) \in 0..k
  BY LastFacts
<1>4. CountTo(s, "meeting", k) \in 0..k /\ CountTo(s, "content", k) \in 0..k
  BY CountFacts
<1>5. /\ TruthTo(s, k).dir = IF b = 0 THEN NoDir ELSE s[b].dir
      /\ TruthTo(s, k).branch = IF b = 0 THEN NoBranch ELSE s[b].branch
  BY DEF TruthTo
<1> HIDE DEF b
<1>6. /\ TruthTo(s, k).dir \in Dirs \cup {NoDir}
      /\ TruthTo(s, k).branch \in Branches \cup {NoBranch}
      /\ TruthTo(s, k).dir # NoDir => TruthTo(s, k).branch \in Branches
  BY <1>2, <1>5
<1>7. ASSUME k <= MaxLength PROVE TruthTo(s, k) \in Rows
  <2>1. 0..k \subseteq 0..MaxLength
    BY <1>7, EventStoreAssumption
  <2>2. /\ TruthTo(s, k).reality \in 0..MaxLength
        /\ TruthTo(s, k).meetings \in 0..MaxLength
        /\ TruthTo(s, k).contents \in 0..MaxLength
    BY <1>3, <1>4, <2>1 DEF TruthTo
  <2>3. TruthTo(s, k).exists \in BOOLEAN
    BY DEF TruthTo
  <2>4. TruthTo(s, k) = [exists |-> TruthTo(s, k).exists, dir |-> TruthTo(s, k).dir,
                         branch |-> TruthTo(s, k).branch, reality |-> TruthTo(s, k).reality,
                         meetings |-> TruthTo(s, k).meetings,
                         contents |-> TruthTo(s, k).contents]
    BY DEF TruthTo
  <2>5. QED
    BY <1>6, <2>2, <2>3, <2>4 DEF Rows
<1>8. QED
  BY <1>6, <1>7

\* What the rows are after the events items, if all of them are accepted.
LEMMA Grown ==
    ASSUME NEW p, NEW s \in Seq(Events), NEW items \in Seq(Events),
           LET acc == Apply(p, TruthOf(s), Len(s), items) IN acc.ok
    PROVE  LET acc == Apply(p, TruthOf(s), Len(s), items)
           IN  /\ acc.row = TruthOf(s \o items)
               /\ acc.row.dir = TruthOf(s).dir \/ acc.row.dir \notin TakenDirs(p)
<1> DEFINE n == Len(s)
           m == Len(items)
           u == s \o items
           acc == Apply(p, TruthOf(s), n, items)
<1>1. /\ u \in Seq(Events) /\ Len(u) = n + m /\ n \in Nat /\ m \in Nat
      /\ \A i \in 1..n : s[i] = u[i]
      /\ \A i \in 1..m : u[n + i] = items[i]
  BY ConcatProperties
<1>2. \A i \in 1..m : items[i].type \in Types
  <2>1. \A i \in 1..m : items[i] \in Events
    OBVIOUS
  <2>2. QED
    BY <2>1 DEF Events
<1>3. TruthOf(s) = TruthTo(s, n) /\ TruthOf(u) = TruthTo(u, n + m)
  <2>1. DOMAIN s = 1..Len(s) /\ DOMAIN u = 1..Len(u)
    BY <1>1
  <2>2. TruthOf(s) = TruthTo(s, Len(s)) /\ TruthOf(u) = TruthTo(u, Len(u))
    BY <2>1, TruthAll
  <2>3. QED
    BY <1>1, <2>2
<1>4. TruthTo(s, n) = TruthTo(u, n)
  BY <1>1, TruthPrefix
<1> HIDE DEF n, m, u
<1>5. ~acc.ok \/ Reached(acc, u, n + m, TruthOf(s).dir, TakenDirs(p))
  <2>1. Continues(u, n, items)
    BY <1>1, <1>2 DEF Continues, m
  <2>2. QED
    BY <1>1, <1>3, <1>4, <2>1, Reduced DEF m
<1>6. Reached(acc, u, n + m, TruthOf(s).dir, TakenDirs(p))
  BY <1>5 DEF n
<1>7. acc.row = TruthTo(u, n + m)
  BY <1>6 DEF Reached, Start
<1>8. QED
  BY <1>3, <1>6, <1>7 DEF Reached, u, n

\* A replay applies the events to no rows.
LEMMA Replayed ==
    ASSUME NEW p \in Projects, Streams, Rebuilt(p).ok
    PROVE  Rebuilt(p).row = Truth(p)
<1> DEFINE none == <<>>
<1>1. none \in Seq(Events) /\ Len(none) = 0 /\ none \o stream[p] = stream[p]
  BY DEF Streams
<1>2. TruthOf(none) = EmptyRow
  <2>1. DOMAIN none = 1..Len(none)
    OBVIOUS
  <2>2. TruthOf(none) = TruthTo(none, 0)
    BY <1>1, <2>1, TruthAll
  <2>3. QED
    BY <2>2, TruthEmpty
<1>3. stream[p] \in Seq(Events)
  BY DEF Streams
<1>4. Rebuilt(p) = Apply(p, TruthOf(none), Len(none), stream[p])
  BY <1>1, <1>2 DEF Rebuilt
<1> HIDE DEF none
<1>5. Rebuilt(p).row = TruthOf(none \o stream[p])
  <2> DEFINE acc == Apply(p, TruthOf(none), Len(none), stream[p])
  <2>1. acc.ok
    BY <1>4
  <2>2. acc.row = TruthOf(none \o stream[p])
    BY <1>1, <1>3, <2>1, Grown
  <2>3. QED
    BY <1>4, <2>2
<1>6. QED
  BY <1>1, <1>5 DEF Truth

\* The fields of an event are what it is made of.
LEMMA Made ==
    ASSUME NEW t \in Types, NEW d \in Dirs \cup {NoDir}, NEW b \in Branches \cup {NoBranch},
           NEW e \in Dirs \cup {NoDir}, NEW n \in Nat
    PROVE  /\ Event(t, d, b, e, n) \in Events
           /\ Event(t, d, b, e, n).type = t
           /\ Event(t, d, b, e, n).dir = d
           /\ Event(t, d, b, e, n).branch = b
           /\ Event(t, d, b, e, n).seen = n
  BY DEF Event, Events

\* An Append: what it leaves of the stream, and of the other Projects.
LEMMA Appended ==
    ASSUME NEW p \in Projects, NEW expected, NEW items \in Seq(Events),
           \A i \in 1..Len(items) : Placed(items[i]),
           Streams, Follows, Short,
           Appends(p, expected, items), AppendTx(p, expected, items)
    PROVE  /\ Streams' /\ Follows' /\ Short'
           /\ stream' = [stream EXCEPT ![p] = @ \o items]
           /\ \A q \in Projects \ {p} : row'[q] = row[q]
           /\ row'[p].dir = row[p].dir \/ row'[p].dir \notin TakenDirs(p)
           /\ row'[p].dir # NoDir
           /\ expected = Version(p)
<1> DEFINE acc == Apply(p, row[p], expected, items)
           s == stream[p]
           n == Len(s)
           m == Len(items)
<1>1. /\ s \in Seq(Events) /\ n \in Nat /\ m \in Nat
      /\ \A i \in 1..n : Placed(s[i])
  BY DEF Streams
<1>2. expected = n /\ n + m <= MaxLength /\ acc.ok /\ acc.row.dir # NoDir
  BY DEF Appends, Version, Complete
<1>3. row[p] = TruthOf(s)
  BY DEF Follows, Truth
<1>4. /\ acc.row = TruthOf(s \o items)
      /\ acc.row.dir = row[p].dir \/ acc.row.dir \notin TakenDirs(p)
  <2>1. acc = Apply(p, TruthOf(s), Len(s), items)
    BY <1>2, <1>3
  <2> HIDE DEF acc, s
  <2> DEFINE same == Apply(p, TruthOf(s), Len(s), items)
  <2>2. same.ok
    BY <1>2, <2>1
  <2>3. /\ same.row = TruthOf(s \o items)
        /\ same.row.dir = TruthOf(s).dir \/ same.row.dir \notin TakenDirs(p)
    BY <1>1, <2>2, Grown DEF n
  <2>4. QED
    BY <1>3, <2>1, <2>3
<1>5. /\ stream' = [stream EXCEPT ![p] = s \o items]
      /\ row' = [row EXCEPT ![p] = acc.row]
      /\ seal' = [seal EXCEPT ![p] = [version |-> expected + m, digest |-> Digest(acc.row)]]
  BY DEF AppendTx
<1>6. /\ s \o items \in Seq(Events) /\ Len(s \o items) = n + m
      /\ \A i \in 1..(n + m) : Placed((s \o items)[i])
  <2>1. /\ s \o items \in Seq(Events) /\ Len(s \o items) = n + m
        /\ \A i \in 1..n : (s \o items)[i] = s[i]
        /\ \A i \in 1..m : (s \o items)[n + i] = items[i]
    BY <1>1, ConcatProperties
  <2>2. ASSUME NEW i \in 1..(n + m) PROVE Placed((s \o items)[i])
    <3> HIDE DEF n, m, s
    <3>1. CASE i \in 1..n
      BY <1>1, <2>1, <3>1
    <3>2. CASE i \notin 1..n
      <4>1. i - n \in 1..m /\ n + (i - n) = i
        BY <1>1, <3>2
      <4>2. (s \o items)[i] = items[i - n]
        BY <2>1, <4>1
      <4>3. Placed(items[i - n])
        BY <4>1 DEF m
      <4>4. QED
        BY <4>2, <4>3
    <3>3. QED
      BY <3>1, <3>2
  <2>3. QED
    BY <2>1, <2>2
<1>7. stream \in [Projects -> Seq(Events)] /\ DOMAIN row = Projects /\ DOMAIN seal = Projects
  BY DEF Streams, Follows
<1>8. /\ stream'[p] = s \o items /\ row'[p] = acc.row
      /\ seal'[p] = [version |-> n + m, digest |-> Digest(acc.row)]
      /\ \A q \in Projects \ {p} : stream'[q] = stream[q] /\ row'[q] = row[q] /\ seal'[q] = seal[q]
      /\ stream' \in [Projects -> Seq(Events)]
      /\ row' = [q \in Projects |-> row'[q]] /\ seal' = [q \in Projects |-> seal'[q]]
  <2> HIDE DEF s, acc
  <2> QED
    BY <1>2, <1>5, <1>6, <1>7
<1>9. Streams'
  <2>1. ASSUME NEW q \in Projects, NEW i \in 1..Len(stream'[q]) PROVE Placed(stream'[q][i])
    <3>1. CASE q = p
      BY <1>6, <1>8, <3>1
    <3>2. CASE q # p
      BY <1>8, <3>2 DEF Streams
    <3>3. QED
      BY <3>1, <3>2
  <2>2. QED
    BY <1>8, <2>1 DEF Streams
<1>10. Follows'
  <2> HIDE DEF s, acc
  <2>1. ASSUME NEW q \in Projects
        PROVE  /\ row'[q] = TruthOf(stream'[q])
               /\ seal'[q] = [version |-> Len(stream'[q]), digest |-> Digest(row'[q])]
    <3>1. CASE q = p
      BY <1>4, <1>6, <1>8, <3>1
    <3>2. CASE q # p
      BY <1>8, <3>2 DEF Follows, Truth, Version
    <3>3. QED
      BY <3>1, <3>2
  <2>2. QED
    BY <1>8, <2>1 DEF Follows, Truth, Version
<1>11. Short'
  <2>1. ASSUME NEW q \in Projects PROVE Len(stream'[q]) <= MaxLength
    <3>1. CASE q = p
      BY <1>2, <1>6, <1>8, <3>1
    <3>2. CASE q # p
      BY <1>8, <3>2 DEF Short
    <3>3. QED
      BY <3>1, <3>2
  <2>2. QED
    BY <2>1 DEF Short
<1>12. QED
  BY <1>2, <1>4, <1>5, <1>8, <1>9, <1>10, <1>11 DEF Version

\* A Replay changes nothing.
LEMMA ReplayedSame ==
    ASSUME NEW p \in Projects, Streams, Follows, Replays(p), ReplayTx(p)
    PROVE  UNCHANGED storeVars
<1>1. Rebuilt(p).row = row[p]
  <2>1. Rebuilt(p).ok
    BY DEF Replays
  <2>2. QED
    BY <2>1, Replayed DEF Follows
<1>2. seal[p] = [version |-> Version(p), digest |-> Digest(row[p])]
  BY DEF Follows
<1>3. row \in [Projects -> {row[q] : q \in Projects}] /\ seal \in [Projects -> {seal[q] : q \in Projects}]
  BY DEF Follows
<1>4. row' = [row EXCEPT ![p] = row[p]] /\ seal' = [seal EXCEPT ![p] = seal[p]]
  BY <1>1, <1>2 DEF ReplayTx
<1>5. row' = row /\ seal' = seal
  BY <1>3, <1>4
<1>6. QED
  BY <1>5 DEF ReplayTx, storeVars

LEMMA RowTyped ==
    ASSUME Streams, Follows, NEW p \in Projects
    PROVE  /\ row[p].dir \in Dirs \cup {NoDir} /\ row[p].branch \in Branches \cup {NoBranch}
           /\ row[p].dir # NoDir => row[p].branch \in Branches
           /\ Len(stream[p]) <= MaxLength => row[p] \in Rows
<1> DEFINE s == stream[p]
           n == Len(s)
<1>1. s \in Seq(Events) /\ n \in Nat /\ DOMAIN s = 1..n /\ \A i \in 1..n : Placed(s[i])
  BY DEF Streams
<1>2. \A i \in 1..n : s[i] \in Events
  BY <1>1
<1>3. row[p] = TruthTo(s, n)
  BY <1>1, TruthAll DEF Follows, Truth
<1> HIDE DEF s, n
<1>4. QED
  BY <1>1, <1>2, <1>3, TruthTyped DEF n, s

-----------------------------------------------------------------------------
(* The commands.                                                           *)

\* Two batches joined.
LEMMA Pair == ASSUME NEW a, NEW b PROVE <<a>> \o <<b>> = <<a, b>>
<1> DEFINE E == {a, b}
           u == <<a>> \o <<b>>
<1>1. <<a>> \in Seq(E) /\ <<b>> \in Seq(E) /\ Len(<<a>>) = 1 /\ Len(<<b>>) = 1
  OBVIOUS
<1>2. u \in Seq(E) /\ Len(u) = 2 /\ u[1] = a /\ u[2] = b
  <2>1. /\ u \in Seq(E) /\ Len(u) = Len(<<a>>) + Len(<<b>>)
        /\ \A i \in 1..Len(<<a>>) : u[i] = <<a>>[i]
        /\ \A i \in 1..Len(<<b>>) : u[Len(<<a>>) + i] = <<b>>[i]
    BY <1>1, ConcatProperties
  <2>2. QED
    BY <1>1, <2>1
<1>3. <<a, b>> \in Seq(E) /\ Len(<<a, b>>) = 2
  OBVIOUS
<1> HIDE DEF u, E
<1>4. \A i \in 1..Len(u) : u[i] = <<a, b>>[i]
  BY <1>2
<1>5. QED
  BY <1>2, <1>3, <1>4, SeqEqual DEF u

LEMMA Triple == ASSUME NEW a, NEW b, NEW c PROVE <<a, b>> \o <<c>> = <<a, b, c>>
<1> DEFINE E == {a, b, c}
           u == <<a, b>> \o <<c>>
<1>1. <<a, b>> \in Seq(E) /\ <<c>> \in Seq(E) /\ Len(<<a, b>>) = 2 /\ Len(<<c>>) = 1
  OBVIOUS
<1>2. u \in Seq(E) /\ Len(u) = 3 /\ u[1] = a /\ u[2] = b /\ u[3] = c
  <2>1. /\ u \in Seq(E) /\ Len(u) = Len(<<a, b>>) + Len(<<c>>)
        /\ \A i \in 1..Len(<<a, b>>) : u[i] = <<a, b>>[i]
        /\ \A i \in 1..Len(<<c>>) : u[Len(<<a, b>>) + i] = <<c>>[i]
    BY <1>1, ConcatProperties
  <2>2. QED
    BY <1>1, <2>1
<1>3. <<a, b, c>> \in Seq(E) /\ Len(<<a, b, c>>) = 3
  OBVIOUS
<1> HIDE DEF u, E
<1>4. \A i \in 1..Len(u) : u[i] = <<a, b, c>>[i]
  BY <1>2
<1>5. QED
  BY <1>2, <1>3, <1>4, SeqEqual DEF u

\* The batch of a command: one Reality, its last event.
LEMMA Batched ==
    ASSUME NEW h \in Handlers, Locals, Working(h), pc[h] = "append"
    PROVE  /\ Batch(h) \in Seq(Events) /\ Len(Batch(h)) \in Nat \ {0}
           /\ \A i \in 1..Len(Batch(h)) : Placed(Batch(h)[i])
           /\ \A i \in 1..Len(Batch(h)) : Batch(h)[i].type = "captured" =>
                /\ i = Len(Batch(h))
                /\ Batch(h)[i].dir = dir[h] /\ Batch(h)[i].branch = branch[h]
                /\ Batch(h)[i].seen = seen[h]
<1> DEFINE registered == Event("registered", NoDir, NoBranch, NoDir, 0)
           bound == Event("bound", dir[h], branch[h], NoDir, 0)
           relinked == Event("relinked", dir[h], branch[h], prev[h], 0)
           captured == Event("captured", dir[h], branch[h], NoDir, seen[h])
<1>1. /\ dir[h] \in Dirs /\ branch[h] \in Branches /\ op[h] \in {"register", "capture", "relink"}
      /\ prev[h] \in Dirs \cup {NoDir} /\ seen[h] \in Nat
  BY DEF Working, Locals
<1>2. /\ registered \in Events /\ bound \in Events /\ relinked \in Events /\ captured \in Events
      /\ registered.type = "registered" /\ bound.type = "bound" /\ relinked.type = "relinked"
      /\ captured.type = "captured"
      /\ bound.dir = dir[h] /\ relinked.dir = dir[h] /\ captured.dir = dir[h]
      /\ bound.branch = branch[h] /\ relinked.branch = branch[h] /\ captured.branch = branch[h]
      /\ captured.seen = seen[h]
  BY <1>1 DEF Event, Events, Types
<1>3. Placed(registered) /\ Placed(bound) /\ Placed(relinked) /\ Placed(captured)
  BY <1>1, <1>2 DEF Placed
<1>4. CASE op[h] = "register"
  <2>1. Batch(h) = <<registered, bound, captured>>
    BY <1>4, Triple DEF Batch, Registration, Capture
  <2> HIDE DEF registered, bound, captured
  <2>2. /\ Batch(h) \in Seq(Events) /\ Len(Batch(h)) = 3
        /\ Batch(h)[1] = registered /\ Batch(h)[2] = bound /\ Batch(h)[3] = captured
    BY <1>2, <2>1
  <2>3. \A i \in 1..3 : i = 1 \/ i = 2 \/ i = 3
    OBVIOUS
  <2>4. QED
    BY <1>2, <1>3, <2>2, <2>3
<1>5. CASE op[h] = "relink"
  <2>1. Batch(h) = <<relinked, captured>>
    BY <1>5, Pair DEF Batch, Relinking, Capture
  <2> HIDE DEF relinked, captured
  <2>2. /\ Batch(h) \in Seq(Events) /\ Len(Batch(h)) = 2
        /\ Batch(h)[1] = relinked /\ Batch(h)[2] = captured
    BY <1>2, <2>1
  <2>3. \A i \in 1..2 : i = 1 \/ i = 2
    OBVIOUS
  <2>4. QED
    BY <1>2, <1>3, <2>2, <2>3
<1>6. CASE op[h] = "capture"
  <2>1. Batch(h) = <<captured>>
    BY <1>6 DEF Batch, Capture
  <2> HIDE DEF captured
  <2>2. Batch(h) \in Seq(Events) /\ Len(Batch(h)) = 1 /\ Batch(h)[1] = captured
    BY <1>2, <2>1
  <2>3. \A i \in 1..1 : i = 1
    OBVIOUS
  <2>4. QED
    BY <1>2, <1>3, <2>2, <2>3
<1>7. QED
  BY <1>1, <1>4, <1>5, <1>6

Only(h) ==
    \A g \in Handlers \ {h} :
        /\ pc'[g] = pc[g] /\ op'[g] = op[g] /\ dir'[g] = dir[g] /\ branch'[g] = branch[g]
        /\ proj'[g] = proj[g] /\ prev'[g] = prev[g] /\ ver'[g] = ver[g] /\ seen'[g] = seen[g]

LEMMA Returned ==
    ASSUME NEW h \in Handlers, Locals, Return(h)
    PROVE  Locals' /\ Only(h) /\ Working(h)' /\ Caught(h)'
<1>1. pc'[h] = "idle" /\ ver'[h] = 0
  BY DEF Locals, Return
<1>2. Locals'
  BY DEF Locals, Return, Places
<1>3. Only(h)
  BY DEF Locals, Return, Only
<1>4. QED
  BY <1>1, <1>2, <1>3 DEF Working, Caught

\* One handler moves, in its own state.
Alone(h) ==
    /\ Locals' /\ Only(h) /\ Working(h)' /\ Caught(h)'
    /\ UNCHANGED <<storeVars, refs>>

LEMMA Began ==
    ASSUME NEW h \in Handlers, NEW o \in {"register", "capture", "relink"}, NEW d \in Dirs,
           NEW b \in Branches \cup {NoBranch}, NEW p \in Projects,
           NEW at \in {"resolve", "binding"},
           at = "resolve" => b \in Branches, at = "binding" => o # "register",
           o = "capture" => row[p].dir # NoDir,
           Locals, Streams, Working(h), Begin(h, o, d, b, p, at)
    PROVE  Alone(h)
<1>1. /\ pc'[h] = at /\ op'[h] = o /\ dir'[h] = d /\ branch'[h] = b /\ proj'[h] = p
      /\ ver'[h] = 0 /\ row' = row /\ stream' = stream
  BY DEF Begin, Locals, Working, storeVars
<1>2. Locals'
  BY DEF Begin, Locals, Places
<1>3. Only(h)
  BY DEF Begin, Locals, Only
<1>4. Len(stream[p]) \in Nat
  BY DEF Streams
<1>5. Working(h)'
  BY <1>1, <1>4 DEF Working, Version
<1>6. Caught(h)'
  BY <1>1 DEF Caught
<1>7. QED
  BY <1>2, <1>3, <1>5, <1>6 DEF Alone, Begin

\* Each command alone.
LEMMA Alones ==
    ASSUME NEW h \in Handlers, Streams, Follows, Locals, Histories, Recorded, Working(h),
           Caught(h),
           \/ \E d \in Dirs : OpenNew(h, d) \/ OpenExisting(h, d)
           \/ \E p \in Projects, d \in Dirs : Relink(h, p, d)
           \/ ReadBinding(h) \/ ReadVersion(h) \/ FindOther(h)
           \/ Resolve(h) \/ Confirm(h) \/ CaptureFails(h)
    PROVE  Alone(h)
<1>1. ASSUME NEW d \in Dirs, OpenNew(h, d) PROVE Alone(h)
  <2>1. PICK p \in Unused, b \in Selectable : Begin(h, "register", d, b, p, "resolve")
    BY <1>1 DEF OpenNew
  <2>2. p \in Projects /\ b \in Branches
    BY DEF Unused, Selectable
  <2>3. QED
    BY <2>1, <2>2, Began
<1>2. ASSUME NEW d \in Dirs, OpenExisting(h, d) PROVE Alone(h)
  <2>1. PICK p \in Owner(d) : Begin(h, "capture", d, NoBranch, p, "binding")
    BY <1>2 DEF OpenExisting
  <2>2. p \in Projects /\ row[p].dir # NoDir
    BY EventStoreAssumption DEF Owner
  <2>3. QED
    BY <2>1, <2>2, Began
<1>3. ASSUME NEW p \in Projects, NEW d \in Dirs, Relink(h, p, d) PROVE Alone(h)
  BY <1>3, Began DEF Relink
<1>4. ASSUME ReadBinding(h) PROVE Alone(h)
  <2>1. /\ pc[h] = "binding" /\ pc'[h] = "version" /\ op'[h] = op[h] /\ dir'[h] = dir[h]
        /\ proj'[h] = proj[h] /\ ver'[h] = ver[h] /\ row' = row /\ stream' = stream
    BY <1>4 DEF ReadBinding, Locals, storeVars
  <2>2. proj[h] \in Projects /\ (op[h] = "capture" => row[proj[h]].dir # NoDir)
    BY <2>1 DEF Working
  <2>3. /\ row[proj[h]].branch \in Branches \cup {NoBranch}
        /\ row[proj[h]].dir \in Dirs \cup {NoDir}
        /\ row[proj[h]].dir # NoDir => row[proj[h]].branch \in Branches
    BY <2>2, RowTyped
  <2>4. Locals' /\ Only(h)
    BY <1>4, <2>3 DEF ReadBinding, Locals, Places, Only
  <2>5. op[h] = "capture" => branch'[h] \in Branches
    BY <1>4, <2>2, <2>3 DEF ReadBinding, Locals
  <2>6. Working(h)' /\ Caught(h)'
    BY <2>1, <2>5 DEF Working, Caught, Version
  <2>7. QED
    BY <1>4, <2>4, <2>6 DEF Alone, ReadBinding
<1>5. ASSUME ReadVersion(h) PROVE Alone(h)
  <2>1. /\ pc[h] = "version" /\ op'[h] = op[h] /\ dir'[h] = dir[h] /\ branch'[h] = branch[h]
        /\ pc'[h] = IF op[h] = "relink" THEN "find" ELSE "resolve"
        /\ proj'[h] = proj[h] /\ ver'[h] = seal[proj[h]].version /\ row' = row /\ stream' = stream
    BY <1>5 DEF ReadVersion, Locals, storeVars
  <2>2. proj[h] \in Projects
    BY <2>1 DEF Working
  <2>3. seal[proj[h]].version = Len(stream[proj[h]]) /\ Len(stream[proj[h]]) \in Nat
    BY <2>2 DEF Follows, Version, Streams
  <2>4. Locals' /\ Only(h)
    BY <1>5, <2>3 DEF ReadVersion, Locals, Places, Only
  <2>5. Working(h)' /\ Caught(h)'
    BY <2>1, <2>3 DEF Working, Caught, Version
  <2>6. QED
    BY <1>5, <2>4, <2>5 DEF Alone, ReadVersion
<1>6. ASSUME FindOther(h) PROVE Alone(h)
  <2>1. CASE Return(h)
    BY <1>6, <2>1, Returned DEF Alone, FindOther
  <2>2. CASE ~Return(h)
    <3>1. PICK b \in Branches : branch' = [branch EXCEPT ![h] = b]
      BY <1>6, <2>2 DEF FindOther, Selectable
    <3>2. /\ pc[h] = "find" /\ pc' = [pc EXCEPT ![h] = "resolve"]
          /\ UNCHANGED <<op, dir, proj, prev, ver, seen>> /\ UNCHANGED <<storeVars, refs>>
      BY <1>6, <2>2 DEF FindOther
    <3>3. Locals' /\ Only(h)
      BY <3>1, <3>2 DEF Locals, Places, Only
    <3>4. pc'[h] = "resolve" /\ branch'[h] = b
      BY <3>1, <3>2 DEF Locals
    <3>5. Working(h)' /\ Caught(h)'
      BY <3>2, <3>4 DEF Working, Caught, Version, storeVars
    <3>6. QED
      BY <3>2, <3>3, <3>5 DEF Alone
  <2>3. QED
    BY <2>1, <2>2
<1>7. ASSUME Resolve(h) PROVE Alone(h)
  <2>1. /\ pc[h] = "resolve" /\ pc' = [pc EXCEPT ![h] = "confirm"]
        /\ seen' = [seen EXCEPT ![h] = Len(refs[dir[h]][branch[h]])]
        /\ UNCHANGED <<op, dir, branch, proj, prev, ver>> /\ UNCHANGED <<storeVars, refs>>
    BY <1>7 DEF Resolve
  <2>2. dir[h] \in Dirs /\ branch[h] \in Branches /\ proj[h] \in Projects
    BY <2>1 DEF Working
  <2>3. Len(refs[dir[h]][branch[h]]) \in Nat
    BY <2>2 DEF Histories
  <2>4. Locals' /\ Only(h)
    BY <2>1, <2>3 DEF Locals, Places, Only
  <2>5. pc'[h] = "confirm" /\ seen'[h] = Len(refs[dir[h]][branch[h]])
    BY <2>1 DEF Locals
  <2>6. Working(h)'
    BY <2>1, <2>5 DEF Working, Version, storeVars
  <2>7. Caught(h)'
    <3>1. \A i \in 1..Len(stream[proj[h]]) :
             LET item == stream[proj[h]][i] IN
             item.type = "captured" /\ item.dir = dir[h] /\ item.branch = branch[h]
             => item.seen <= Len(refs[dir[h]][branch[h]])
      BY <2>2 DEF Recorded
    <3>2. QED
      BY <2>1, <2>3, <2>5, <3>1 DEF Caught, storeVars
  <2>8. QED
    BY <2>1, <2>4, <2>6, <2>7 DEF Alone
<1>8. ASSUME Confirm(h) PROVE Alone(h)
  <2>1. /\ pc[h] = "confirm" /\ pc' = [pc EXCEPT ![h] = "append"]
        /\ UNCHANGED <<op, dir, branch, proj, prev, ver, seen>> /\ UNCHANGED <<storeVars, refs>>
    BY <1>8 DEF Confirm
  <2>2. Locals' /\ Only(h) /\ pc'[h] = "append"
    BY <2>1 DEF Locals, Places, Only
  <2>3. Working(h)' /\ Caught(h)'
    BY <2>1, <2>2 DEF Working, Caught, Version, storeVars
  <2>4. QED
    BY <2>1, <2>2, <2>3 DEF Alone
<1>9. ASSUME CaptureFails(h) PROVE Alone(h)
  BY <1>9, Returned DEF CaptureFails, Alone
<1>10. QED
  BY <1>1, <1>2, <1>3, <1>4, <1>5, <1>6, <1>7, <1>8, <1>9

-----------------------------------------------------------------------------
(* The inductive invariant.                                                *)
Inv ==
    /\ Streams /\ Follows /\ Short /\ OneOwner
    /\ Locals /\ Histories /\ Recorded
    /\ \A h \in Handlers : Working(h) /\ Caught(h)
    /\ RealitiesAdvance

LEMMA InvInit == Init => Inv
<1> SUFFICES ASSUME Init PROVE Inv
  OBVIOUS
<1>1. \A p \in Projects : stream[p] = <<>> /\ Len(stream[p]) = 0
  BY DEF Init
<1>2. TruthOf(<<>>) = EmptyRow
  <2>1. DOMAIN <<>> = 1..Len(<<>>) /\ Len(<<>>) = 0
    OBVIOUS
  <2>2. TruthOf(<<>>) = TruthTo(<<>>, 0)
    BY <2>1, TruthAll
  <2>3. QED
    BY <2>2, TruthEmpty
<1>3. Streams
  BY <1>1 DEF Streams, Init
<1>4. Follows
  <2>1. Digest(EmptyRow) = EmptyRow
    <3> DEFINE r == EmptyRow
    <3>1. /\ r = [exists |-> r.exists, dir |-> r.dir, branch |-> r.branch, reality |-> r.reality,
                  meetings |-> r.meetings, contents |-> r.contents]
          /\ r.contents = 0
      BY DEF EmptyRow
    <3> HIDE DEF r
    <3>2. Digest(r) = r
      BY <3>1 DEF Digest
    <3>3. QED
      BY <3>2 DEF r
  <2>2. \A p \in Projects : Truth(p) = EmptyRow /\ Version(p) = 0 /\ row[p] = EmptyRow
    BY <1>1, <1>2 DEF Truth, Version, Init
  <2>3. QED
    BY <2>1, <2>2 DEF Follows, Init, NoSeal
<1>5. Short
  BY <1>1, EventStoreAssumption DEF Short
<1>6. OneOwner
  BY DEF OneOwner, Init, EmptyRow
<1>7. Locals
  BY DEF Locals, Init, Places
<1>8. Histories
  <2>1. (CHOOSE c \in Commits : TRUE) \in Commits
    BY ProjectsAssumption
  <2>2. <<CHOOSE c \in Commits : TRUE>> \in Seq(Commits)
    BY <2>1
  <2>3. QED
    BY <2>2 DEF Init, Histories
<1>9. Recorded /\ RealitiesAdvance
  BY <1>1 DEF Recorded, RealitiesAdvance
<1>10. \A h \in Handlers : Working(h) /\ Caught(h)
  BY DEF Init, Working, Caught
<1>11. QED
  BY <1>3, <1>4, <1>5, <1>6, <1>7, <1>8, <1>9, <1>10 DEF Inv

LEMMA AloneKeeps ==
    ASSUME Inv, NEW h \in Handlers, Alone(h) PROVE Inv'
<1>1. stream' = stream /\ row' = row /\ seal' = seal /\ refs' = refs
  BY DEF Alone, storeVars
<1>2. Streams' /\ Follows' /\ Short' /\ OneOwner' /\ Histories' /\ Recorded' /\ RealitiesAdvance'
  BY <1>1 DEF Inv, Streams, Follows, Short, OneOwner, Histories, Recorded, RealitiesAdvance,
              Truth, Version
<1>3. ASSUME NEW g \in Handlers PROVE Working(g)' /\ Caught(g)'
  <2>1. CASE g = h
    BY <2>1 DEF Alone
  <2>2. CASE g # h
    <3>1. /\ pc'[g] = pc[g] /\ op'[g] = op[g] /\ dir'[g] = dir[g] /\ branch'[g] = branch[g]
          /\ proj'[g] = proj[g] /\ ver'[g] = ver[g] /\ seen'[g] = seen[g]
      BY <2>2 DEF Alone, Only
    <3>2. Working(g) /\ Caught(g)
      BY DEF Inv
    <3>3. Working(g)'
      BY <1>1, <3>1, <3>2 DEF Working, Version
    <3>4. Caught(g)'
      BY <1>1, <3>1, <3>2 DEF Caught, Version
    <3>5. QED
      BY <3>3, <3>4
  <2>3. QED
    BY <2>1, <2>2
<1>4. QED
  BY <1>2, <1>3 DEF Inv, Alone

LEMMA MoveKeeps ==
    ASSUME Inv, NEW d \in Dirs, NEW b \in Branches, NEW c \in Commits, Move(d, b, c) PROVE Inv'
<1>1. /\ stream' = stream /\ row' = row /\ seal' = seal /\ UNCHANGED locals
      /\ refs' = [refs EXCEPT ![d][b] = Append(@, c)]
  BY DEF Move, storeVars
<1>2. Streams' /\ Follows' /\ Short' /\ OneOwner' /\ Locals' /\ RealitiesAdvance'
  BY <1>1 DEF Inv, Streams, Follows, Short, OneOwner, Locals, RealitiesAdvance,
              Truth, Version, locals
<1>3. refs \in [Dirs -> [Branches -> Seq(Commits)]]
  BY DEF Inv, Histories
<1>4. Append(refs[d][b], c) \in Seq(Commits) /\ Len(Append(refs[d][b], c)) = Len(refs[d][b]) + 1
  BY <1>3
<1>5. /\ Histories'
      /\ \A e \in Dirs, a \in Branches : Len(refs[e][a]) \in Nat /\ Len(refs[e][a]) <= Len(refs'[e][a])
  <2>1. Histories'
    BY <1>1, <1>3, <1>4 DEF Histories
  <2>2. ASSUME NEW e \in Dirs, NEW a \in Branches
        PROVE  Len(refs[e][a]) \in Nat /\ Len(refs[e][a]) <= Len(refs'[e][a])
    <3>1. Len(refs[e][a]) \in Nat
      BY <1>3
    <3>2. refs'[e][a] = IF e = d /\ a = b THEN Append(refs[d][b], c) ELSE refs[e][a]
      BY <1>1, <1>3
    <3>3. QED
      BY <1>4, <3>1, <3>2
  <2>3. QED
    BY <2>1, <2>2
<1>6. Recorded'
  <2>1. ASSUME NEW p \in Projects, NEW i \in 1..Len(stream[p]), stream[p][i].type = "captured"
        PROVE  stream[p][i].seen <= Len(refs'[stream[p][i].dir][stream[p][i].branch])
    <3> DEFINE e == stream[p][i]
    <3>1. e \in Events /\ e.dir \in Dirs /\ e.branch \in Branches
      BY <2>1 DEF Inv, Streams, Placed
    <3>2. e.seen \in Nat /\ e.seen <= Len(refs[e.dir][e.branch])
      BY <2>1, <3>1 DEF Inv, Recorded, Events
    <3> HIDE DEF e
    <3>3. e.seen <= Len(refs'[e.dir][e.branch])
      BY <1>5, <3>1, <3>2, <1>3
    <3>4. QED
      BY <3>3 DEF e
  <2>2. QED
    BY <1>1, <2>1 DEF Recorded
<1>7. ASSUME NEW g \in Handlers PROVE Working(g)' /\ Caught(g)'
  <2>1. Working(g) /\ Caught(g) /\ seen[g] \in Nat
    BY DEF Inv, Locals
  <2>2. Working(g)'
    BY <1>1, <2>1 DEF Working, Version, locals
  <2>3. pc[g] \in {"confirm", "append"} => seen[g] <= Len(refs'[dir[g]][branch[g]])
    <3>1. pc[g] \in {"confirm", "append"} =>
            /\ dir[g] \in Dirs /\ branch[g] \in Branches
            /\ seen[g] <= Len(refs[dir[g]][branch[g]])
      BY <2>1 DEF Working, Caught
    <3>2. pc[g] \in {"confirm", "append"} =>
            Len(refs'[dir[g]][branch[g]]) \in Nat
      BY <1>5, <3>1 DEF Histories
    <3>3. QED
      BY <1>5, <2>1, <3>1, <3>2
  <2>4. Caught(g)'
    BY <1>1, <2>1, <2>3 DEF Caught, Version, locals
  <2>5. QED
    BY <2>2, <2>4
<1>8. QED
  BY <1>2, <1>5, <1>6, <1>7 DEF Inv

LEMMA AppendKeeps ==
    ASSUME Inv, NEW h \in Handlers, AppendBatch(h) PROVE Inv'
<1> DEFINE p == proj[h]
           items == Batch(h)
           s == stream[p]
           n == Len(s)
           m == Len(items)
<1>1. /\ pc[h] = "append" /\ Return(h) /\ refs' = refs
      /\ \/ Appends(p, ver[h], items) /\ AppendTx(p, ver[h], items)
         \/ UNCHANGED storeVars
  BY DEF AppendBatch
<1>2. Locals /\ Working(h) /\ Caught(h) /\ Streams /\ Follows /\ Short
  BY DEF Inv
<1>3. Alone(h) \/ ~UNCHANGED storeVars
  BY <1>1, <1>2, Returned DEF Alone
<1>4. CASE UNCHANGED storeVars
  BY <1>3, <1>4, AloneKeeps
<1>5. CASE Appends(p, ver[h], items) /\ AppendTx(p, ver[h], items)
  <2>1. /\ p \in Projects /\ dir[h] \in Dirs /\ branch[h] \in Branches
    BY <1>1, <1>2 DEF Working
  <2>2. /\ items \in Seq(Events) /\ m \in Nat \ {0}
        /\ \A i \in 1..m : Placed(items[i])
        /\ \A i \in 1..m : items[i].type = "captured" =>
             /\ i = m /\ items[i].dir = dir[h] /\ items[i].branch = branch[h]
             /\ items[i].seen = seen[h]
    BY <1>1, <1>2, Batched
  <2>3. /\ Streams' /\ Follows' /\ Short'
        /\ stream' = [stream EXCEPT ![p] = @ \o items]
        /\ \A q \in Projects \ {p} : row'[q] = row[q]
        /\ row'[p].dir = row[p].dir \/ row'[p].dir \notin TakenDirs(p)
        /\ row'[p].dir # NoDir
        /\ ver[h] = Version(p)
    <3> HIDE DEF p, items
    <3> QED
      BY <1>2, <1>5, <2>1, <2>2, Appended DEF m
  <2>4. stream \in [Projects -> Seq(Events)] /\ s \in Seq(Events) /\ n \in Nat
    BY <1>2, <2>1 DEF Streams
  <2>5. /\ stream'[p] = s \o items /\ Len(stream'[p]) = n + m
        /\ \A i \in 1..n : stream'[p][i] = s[i]
        /\ \A i \in 1..m : stream'[p][n + i] = items[i]
        /\ \A q \in Projects \ {p} : stream'[q] = stream[q]
    <3>1. stream'[p] = s \o items /\ \A q \in Projects \ {p} : stream'[q] = stream[q]
      BY <2>1, <2>3, <2>4
    <3> HIDE DEF s, items
    <3>2. /\ Len(s \o items) = n + m
          /\ \A i \in 1..n : (s \o items)[i] = s[i]
          /\ \A i \in 1..m : (s \o items)[n + i] = items[i]
      BY <2>2, <2>4, ConcatProperties
    <3>3. QED
      BY <3>1, <3>2
  <2> HIDE DEF s, n, m, items, p
  \* An event of the new stream is an old one or the Reality of the command.
  <2>6. ASSUME NEW i \in 1..(n + m), stream'[p][i].type = "captured"
        PROVE  \/ i \in 1..n /\ stream'[p][i] = s[i]
               \/ /\ i = n + m
                  /\ stream'[p][i].dir = dir[h] /\ stream'[p][i].branch = branch[h]
                  /\ stream'[p][i].seen = seen[h]
    <3>1. CASE i \in 1..n
      BY <2>5, <3>1
    <3>2. CASE i \notin 1..n
      <4>1. i - n \in 1..m /\ n + (i - n) = i
        BY <2>2, <2>4, <3>2
      <4>2. stream'[p][i] = items[i - n]
        BY <2>5, <4>1
      <4>3. /\ i - n = m /\ items[i - n].dir = dir[h] /\ items[i - n].branch = branch[h]
            /\ items[i - n].seen = seen[h]
        BY <2>2, <2>6, <4>1, <4>2
      <4>4. QED
        BY <2>2, <2>4, <4>1, <4>2, <4>3
    <3>3. QED
      BY <3>1, <3>2
  <2>7. OneOwner'
    <3>1. ASSUME NEW q \in Projects, NEW r \in Projects, row'[q].dir = row'[r].dir,
                 row'[q].dir # NoDir, q # r
          PROVE  FALSE
      <4>1. CASE q # p /\ r # p
        BY <2>3, <3>1, <4>1 DEF Inv, OneOwner
      <4>2. CASE q = p
        BY <2>1, <2>3, <3>1, <4>2 DEF Inv, OneOwner, TakenDirs
      <4>3. CASE r = p
        BY <2>1, <2>3, <3>1, <4>3 DEF Inv, OneOwner, TakenDirs
      <4>4. QED
        BY <4>1, <4>2, <4>3
    <3>2. QED
      BY <3>1 DEF OneOwner
  <2>8. Histories' /\ Locals' /\ Only(h) /\ Working(h)' /\ Caught(h)'
    BY <1>1, <1>2, Returned DEF Inv, Histories
  <2>9. Recorded'
    <3>1. ASSUME NEW q \in Projects, NEW i \in 1..Len(stream'[q]), stream'[q][i].type = "captured"
          PROVE  stream'[q][i].seen <= Len(refs[stream'[q][i].dir][stream'[q][i].branch])
      <4>1. CASE q # p
        BY <2>5, <3>1, <4>1 DEF Inv, Recorded
      <4>2. CASE q = p
        <5>1. i \in 1..(n + m)
          BY <2>5, <4>2
        <5>2. CASE i \in 1..n /\ stream'[p][i] = s[i]
          BY <2>1, <3>1, <4>2, <5>2 DEF Inv, Recorded, s, n
        <5>3. CASE /\ stream'[p][i].dir = dir[h] /\ stream'[p][i].branch = branch[h]
                   /\ stream'[p][i].seen = seen[h]
          BY <1>1, <1>2, <4>2, <5>3 DEF Caught
        <5>4. QED
          BY <2>6, <3>1, <4>2, <5>1, <5>2, <5>3
      <4>3. QED
        BY <4>1, <4>2
    <3>2. QED
      BY <1>1, <3>1 DEF Recorded
  <2>10. RealitiesAdvance'
    <3>1. ASSUME NEW q \in Projects, NEW i \in DOMAIN stream'[q], NEW j \in DOMAIN stream'[q],
                 i < j, stream'[q][i].type = "captured", stream'[q][j].type = "captured",
                 stream'[q][i].dir = stream'[q][j].dir,
                 stream'[q][i].branch = stream'[q][j].branch
          PROVE  stream'[q][i].seen <= stream'[q][j].seen
      <4>1. CASE q # p
        BY <2>5, <3>1, <4>1 DEF Inv, RealitiesAdvance
      <4>2. CASE q = p
        <5>1. i \in 1..(n + m) /\ j \in 1..(n + m)
          BY <2>3, <2>5, <4>2 DEF Streams
        <5>2. i \in 1..n /\ stream'[p][i] = s[i]
          BY <2>2, <2>4, <2>6, <3>1, <4>2, <5>1
        <5>3. CASE j \in 1..n /\ stream'[p][j] = s[j]
          <6>1. DOMAIN s = 1..n
            BY <2>4 DEF n
          <6>2. QED
            BY <2>1, <3>1, <4>2, <5>2, <5>3, <6>1 DEF Inv, RealitiesAdvance, s
        <5>4. CASE /\ stream'[p][j].dir = dir[h] /\ stream'[p][j].branch = branch[h]
                   /\ stream'[p][j].seen = seen[h]
          <6>1. \A k \in 1..n :
                   s[k].type = "captured" /\ s[k].dir = dir[h] /\ s[k].branch = branch[h]
                   => s[k].seen <= seen[h]
            BY <1>1, <1>2, <2>3 DEF Caught, p, s, n
          <6>2. QED
            BY <3>1, <4>2, <5>2, <5>4, <6>1
        <5>5. QED
          BY <2>6, <3>1, <4>2, <5>1, <5>3, <5>4
      <4>3. QED
        BY <4>1, <4>2
    <3>2. QED
      BY <3>1 DEF RealitiesAdvance
  <2>11. ASSUME NEW g \in Handlers PROVE Working(g)' /\ Caught(g)'
    <3>1. CASE g = h
      BY <2>8, <3>1
    <3>2. CASE g # h
      <4>1. /\ pc'[g] = pc[g] /\ op'[g] = op[g] /\ dir'[g] = dir[g] /\ branch'[g] = branch[g]
            /\ proj'[g] = proj[g] /\ ver'[g] = ver[g] /\ seen'[g] = seen[g]
        BY <2>8, <3>2 DEF Only
      <4>2. Working(g) /\ Caught(g) /\ ver[g] \in Nat
        BY DEF Inv, Locals
      <4>3. \A q \in Projects : Version(q) \in Nat /\ Len(stream'[q]) \in Nat /\ Version(q) <= Len(stream'[q])
        BY <2>2, <2>3, <2>4, <2>5 DEF Version, n, s, Streams
      <4>4. Working(g)'
        <5>1. \A q \in Projects : row[q].dir # NoDir => row'[q].dir # NoDir
          BY <2>3
        <5>2. pc[g] # "idle" => ver[g] <= Len(stream'[proj[g]])
          <6>1. pc[g] # "idle" => proj[g] \in Projects /\ ver[g] <= Version(proj[g])
            BY <4>2 DEF Working
          <6>2. QED
            BY <4>2, <4>3, <6>1
        <5>3. pc[g] # "idle" => ver'[g] <= Len(stream'[proj'[g]])
          BY <4>1, <5>2
        <5>4. QED
          BY <4>1, <4>2, <5>1, <5>3 DEF Working, Version
      <4>5. Caught(g)'
        <5> SUFFICES ASSUME pc[g] \in {"confirm", "append"} PROVE Caught(g)'
          BY <4>1 DEF Caught
        <5>1. proj[g] \in Projects /\ ver[g] <= Version(proj[g])
          BY <4>2 DEF Working
        <5>2. CASE proj[g] = p
          <6>1. ver[g] # Len(stream'[p])
            <7>1. Version(p) < Len(stream'[p]) /\ Len(stream'[p]) \in Nat /\ Version(p) \in Nat
              BY <2>1, <2>2, <2>4, <2>5 DEF Version, n, s
            <7>2. QED
              BY <4>2, <5>1, <5>2, <7>1
          <6>2. QED
            BY <1>1, <4>1, <4>2, <5>2, <6>1 DEF Caught, Version
        <5>3. CASE proj[g] # p
          <6>1. stream'[proj[g]] = stream[proj[g]]
            BY <2>5, <5>1, <5>3
          <6>2. QED
            BY <1>1, <4>1, <4>2, <6>1 DEF Caught, Version
        <5>4. QED
          BY <5>2, <5>3
      <4>6. QED
        BY <4>4, <4>5
    <3>3. QED
      BY <3>1, <3>2
  <2>12. QED
    BY <2>3, <2>7, <2>8, <2>9, <2>10, <2>11 DEF Inv
<1>6. QED
  BY <1>1, <1>4, <1>5

LEMMA InvNext == Inv /\ [Next]_vars => Inv'
<1> SUFFICES ASSUME Inv, [Next]_vars PROVE Inv'
  OBVIOUS
<1>1. ASSUME NEW h \in Handlers,
             \/ \E d \in Dirs : OpenNew(h, d) \/ OpenExisting(h, d)
             \/ \E p \in Projects, d \in Dirs : Relink(h, p, d)
             \/ ReadBinding(h) \/ ReadVersion(h) \/ FindOther(h)
             \/ Resolve(h) \/ Confirm(h) \/ CaptureFails(h)
      PROVE  Inv'
  <2>1. Alone(h)
    BY <1>1, Alones DEF Inv
  <2>2. QED
    BY <2>1, AloneKeeps
<1>2. ASSUME NEW h \in Handlers, AppendBatch(h) PROVE Inv'
  BY <1>2, AppendKeeps
<1>3. ASSUME NEW p \in Projects, Replay(p) PROVE Inv'
  <2>1. UNCHANGED storeVars /\ UNCHANGED <<refs, locals>>
    BY <1>3, ReplayedSame DEF Replay, Inv
  <2>2. QED
    BY <2>1 DEF Inv, Streams, Follows, Short, OneOwner, Locals, Histories, Recorded, Working, Caught,
                RealitiesAdvance, Truth, Version, storeVars, locals
<1>4. ASSUME NEW d \in Dirs, NEW b \in Branches, NEW c \in Commits, Move(d, b, c) PROVE Inv'
  BY <1>4, MoveKeeps
<1>5. CASE UNCHANGED vars
  BY <1>5 DEF Inv, Streams, Follows, Short, OneOwner, Locals, Histories, Recorded, Working, Caught,
              RealitiesAdvance, Truth, Version, storeVars, locals, vars
<1>6. QED
  BY <1>1, <1>2, <1>3, <1>4, <1>5 DEF Next

LEMMA Always == Spec => []Inv
  BY InvInit, InvNext, PTL DEF Spec

(* The streams, the rows and the seals have their types: a stream is never *)
(* longer than its bound, and an event names common-dirs and branches.     *)
THEOREM StoreTyped == Spec => []StoreTypeOK
<1>1. Inv => StoreTypeOK
  <2> SUFFICES ASSUME Inv PROVE StoreTypeOK
    OBVIOUS
  <2>1. Streams /\ Follows /\ Short
    BY DEF Inv
  <2>2. ASSUME NEW p \in Projects
        PROVE  /\ Len(stream[p]) <= MaxLength /\ Len(stream[p]) \in 0..MaxLength
               /\ \A i \in DOMAIN stream[p] :
                    /\ stream[p][i].type \in Types
                    /\ {stream[p][i].dir, stream[p][i].prev} \subseteq Dirs \cup {NoDir}
                    /\ stream[p][i].branch \in Branches \cup {NoBranch}
                    /\ stream[p][i].seen \in Nat
               /\ row[p] \in Rows /\ Digest(row[p]) \in Rows
    <3>1. Len(stream[p]) \in Nat /\ Len(stream[p]) <= MaxLength
      BY <2>1 DEF Streams, Short
    <3>2. \A i \in DOMAIN stream[p] : stream[p][i] \in Events
      BY <2>1 DEF Streams
    <3>3. row[p] \in Rows
      BY <2>1, <3>1, RowTyped
    <3>4. Digest(row[p]) \in Rows
      <4>1. 0 \in 0..MaxLength
        BY EventStoreAssumption
      <4>2. QED
        BY <3>3, <4>1 DEF Digest, Rows
    <3>5. Len(stream[p]) \in 0..MaxLength
      BY <3>1, EventStoreAssumption
    <3>6. QED
      BY <3>1, <3>2, <3>3, <3>4, <3>5 DEF Events
  <2>3. row \in [Projects -> Rows]
    BY <2>1, <2>2 DEF Follows
  <2>4. seal \in [Projects -> [version : 0..MaxLength, digest : Rows]]
    BY <2>1, <2>2 DEF Follows, Version
  <2>5. QED
    BY <2>2, <2>3, <2>4 DEF StoreTypeOK
<1>2. QED
  BY <1>1, Always, PTL

(* What the database says of a Project is what its events say, sealed at   *)
(* the version of the stream, and a replay that succeeds changes nothing.  *)
THEOREM ProjectionCorrect == Spec => []ProjectionFollows
<1>1. Inv => ProjectionFollows
  <2> SUFFICES ASSUME Inv, NEW p \in Projects
               PROVE  /\ Intact(p)
                      /\ seal[p] = [version |-> Version(p), digest |-> Digest(row[p])]
                      /\ Rebuilt(p).ok => Rebuilt(p).row = row[p]
    BY DEF ProjectionFollows
  <2>1. Streams /\ Follows
    BY DEF Inv
  <2>2. Intact(p) /\ seal[p] = [version |-> Version(p), digest |-> Digest(row[p])]
    BY <2>1 DEF Follows, Intact
  <2>3. Rebuilt(p).ok => Rebuilt(p).row = row[p]
    BY <2>1, <2>2, Replayed DEF Intact
  <2>4. QED
    BY <2>2, <2>3
<1>2. QED
  BY <1>1, Always, PTL

(* No two Projects are bound to one common-dir: the UNIQUE column decides, *)
(* whatever Open and Relink found when they looked for an owner.           *)
THEOREM OwnerCorrect == Spec => []OneOwner
<1>1. Inv => OneOwner
  BY DEF Inv
<1>2. QED
  BY <1>1, Always, PTL

(* The Realities of one branch are recorded in the order the branch had    *)
(* the commits: the expected version of an Append keeps out every capture  *)
(* that a later one has overtaken.                                         *)
THEOREM RealitiesCorrect == Spec => []RealitiesAdvance
<1>1. Inv => RealitiesAdvance
  BY DEF Inv
<1>2. QED
  BY <1>1, Always, PTL

(* A replay of a Project none of whose rows was lost changes nothing: it   *)
(* deletes the rows and the reducers write the same ones, under the same   *)
(* seal.                                                                   *)
THEOREM ReplayIdle == Spec => [][\A p \in Projects : Replay(p) => UNCHANGED storeVars]_vars
<1>1. Inv /\ [Next]_vars => [\A p \in Projects : Replay(p) => UNCHANGED storeVars]_vars
  <2> SUFFICES ASSUME Inv, NEW p \in Projects, Replay(p) PROVE UNCHANGED storeVars
    OBVIOUS
  <2>1. QED
    BY ReplayedSame DEF Inv, Replay
<1>2. QED
  BY <1>1, Always, PTL DEF Spec

-----------------------------------------------------------------------------
(* Maintenance: the gate.                                                  *)

\* A seal is of the version of its stream, whatever rows have been lost.
Sealed(p) == Complete(row[p]) => seal[p].version = Version(p)

\* The columns of the rows.
Shaped(r) == DOMAIN r = {"exists", "dir", "branch", "reality", "meetings", "contents"}

Kept ==
    /\ Streams
    /\ DOMAIN row = Projects /\ DOMAIN seal = Projects
    /\ \A p \in Projects : Sealed(p) /\ Shaped(row[p])

Steps == {"idle", "command", "replay", "streams", "events", "projection", "digest", "current"}

\* A Reconcile that has read the versions misses no drift: it has found it, or
\* it has still to look at the Project, or looks at it.
Covers(h) ==
    task[h].pc \in {"events", "projection", "digest", "current"} =>
        \A p \in Projects : Drifts(p) =>
            \/ p \in task[h].drifted \cup task[h].todo
            \/ task[h].pc # "events" /\ p = task[h].cur

\* The fields of a task, as Idle has them.
Task(pc1, target1, streams1, todo1, cur1, digest1, drifted1) ==
    [pc |-> pc1, target |-> target1, streams |-> streams1, todo |-> todo1,
     cur |-> cur1, digest |-> digest1, drifted |-> drifted1]

Sees(h) ==
    /\ task[h] = Task(task[h].pc, task[h].target, task[h].streams, task[h].todo,
                      task[h].cur, task[h].digest, task[h].drifted)
    /\ task[h].pc \in Steps
    /\ task[h].pc # "idle" => task[h].target \in Projects
    /\ task[h].pc = "command" => \A p \in Projects : p = task[h].target => ~Drifts(p)
    /\ Covers(h)

InvGate ==
    /\ Kept
    /\ GateCovers
    /\ DOMAIN task = Handlers /\ \A h \in Handlers : Sees(h)

\* A batch after a stream.
LEMMA Longer ==
    ASSUME Streams, NEW p \in Projects, NEW items \in Seq(Events),
           \A i \in 1..Len(items) : Placed(items[i]),
           stream' = [stream EXCEPT ![p] = @ \o items]
    PROVE  /\ Streams'
           /\ Len(stream'[p]) = Len(stream[p]) + Len(items)
           /\ \A q \in Projects \ {p} : stream'[q] = stream[q]
<1> DEFINE s == stream[p]
           n == Len(s)
           m == Len(items)
<1>1. /\ s \in Seq(Events) /\ n \in Nat /\ m \in Nat
      /\ \A i \in 1..n : Placed(s[i])
  <2>1. s \in Seq(Events) /\ \A i \in 1..Len(s) : Placed(s[i])
    BY DEF Streams
  <2> HIDE DEF s
  <2>2. QED
    BY <2>1
<1>2. /\ s \o items \in Seq(Events) /\ Len(s \o items) = n + m
      /\ \A i \in 1..n : (s \o items)[i] = s[i]
      /\ \A i \in 1..m : (s \o items)[n + i] = items[i]
  BY <1>1, ConcatProperties
<1>3. stream'[p] = s \o items /\ \A q \in Projects \ {p} : stream'[q] = stream[q]
  BY DEF Streams
<1>4. ASSUME NEW i \in 1..(n + m) PROVE Placed((s \o items)[i])
  <2> HIDE DEF n, m, s
  <2>1. CASE i \in 1..n
    BY <1>1, <1>2, <2>1
  <2>2. CASE i \notin 1..n
    <3>1. i - n \in 1..m /\ n + (i - n) = i
      BY <1>1, <2>2
    <3>2. (s \o items)[i] = items[i - n]
      BY <1>2, <3>1
    <3>3. QED
      BY <3>1, <3>2 DEF m
  <2>3. QED
    BY <2>1, <2>2
<1>5. stream' \in [Projects -> Seq(Events)]
  BY <1>2 DEF Streams
<1>6. ASSUME NEW q \in Projects PROVE \A i \in 1..Len(stream'[q]) : Placed(stream'[q][i])
  <2>1. CASE q = p
    BY <1>2, <1>3, <1>4, <2>1
  <2>2. CASE q # p
    BY <1>3, <2>2 DEF Streams
  <2>3. QED
    BY <2>1, <2>2
<1>7. QED
  BY <1>2, <1>3, <1>5, <1>6 DEF Streams

\* What the reducers work on keeps its columns.
Whole(acc) == DOMAIN acc = {"ok", "row", "sequence"} /\ Shaped(acc.row)

LEMMA ReduceWhole ==
    ASSUME NEW acc, Whole(acc), NEW item, item.type \in Types, NEW taken
    PROVE  Whole(Reduce(acc, item, taken))
<1> DEFINE r == acc.row
           next == Reduce(acc, item, taken)
<1>1. Shaped(r)
  BY DEF Whole
<1>2. Whole(Refuse(acc))
  BY DEF Whole, Refuse
<1>3. ASSUME NEW changed, Shaped(changed) PROVE Whole(Accept(acc, changed))
  BY <1>3 DEF Whole, Accept
<1>4. /\ Shaped([r EXCEPT !.exists = TRUE])
      /\ Shaped([r EXCEPT !.dir = item.dir, !.branch = item.branch])
      /\ \A k : Shaped([r EXCEPT !.reality = k])
      /\ \A k : Shaped([r EXCEPT !.meetings = k])
      /\ \A k : Shaped([r EXCEPT !.contents = k])
  BY <1>1 DEF Shaped
<1>5. CASE ~acc.ok
  BY <1>5 DEF Reduce
<1>6. CASE acc.ok
  <2>1. CASE item.type = "registered"
    <3>1. next = Refuse(acc) \/ next = Accept(acc, [r EXCEPT !.exists = TRUE])
      BY <1>6, <2>1 DEF Reduce
    <3>2. QED
      BY <1>2, <1>3, <1>4, <3>1
  <2>2. CASE item.type = "bound"
    <3>1. \/ next = Refuse(acc)
          \/ next = Accept(acc, [r EXCEPT !.dir = item.dir, !.branch = item.branch])
      BY <1>6, <2>2 DEF Reduce
    <3>2. QED
      BY <1>2, <1>3, <1>4, <3>1
  <2>3. CASE item.type = "relinked"
    <3>1. \/ next = Refuse(acc)
          \/ next = Accept(acc, [r EXCEPT !.dir = item.dir, !.branch = item.branch])
      BY <1>6, <2>3 DEF Reduce
    <3>2. QED
      BY <1>2, <1>3, <1>4, <3>1
  <2>4. CASE item.type = "captured"
    <3>1. next = Accept(acc, [r EXCEPT !.reality = acc.sequence + 1])
      BY <1>6, <2>4 DEF Reduce
    <3>2. QED
      BY <1>3, <1>4, <3>1
  <2>5. CASE item.type = "meeting"
    <3>1. next = Accept(acc, [r EXCEPT !.meetings = r.meetings + 1])
      BY <1>6, <2>5 DEF Reduce
    <3>2. QED
      BY <1>3, <1>4, <3>1
  <2>6. CASE item.type = "content"
    <3>1. next = Accept(acc, [r EXCEPT !.contents = r.contents + 1])
      BY <1>6, <2>6 DEF Reduce
    <3>2. QED
      BY <1>3, <1>4, <3>1
  <2>7. QED
    BY <2>1, <2>2, <2>3, <2>4, <2>5, <2>6 DEF Types
<1>7. QED
  BY <1>5, <1>6

LEMMA ApplyShaped ==
    ASSUME NEW p, NEW base, Shaped(base), NEW sequence, NEW items, Len(items) \in Nat,
           \A i \in 1..Len(items) : items[i].type \in Types
    PROVE  Shaped(Apply(p, base, sequence, items).row)
<1> DEFINE n == Len(items)
           taken == TakenDirs(p)
           f == Walk(base, sequence, items, taken)
           G == {i \in Nat : i <= n => Whole(f[i])}
<1>1. Apply(p, base, sequence, items) = f[n]
  BY Walked
<1>2. f[0] = Start(base, sequence)
  BY Walked
<1>3. \A i \in 0..(n - 1) : f[i + 1] = Reduce(f[i], items[i + 1], taken)
  BY Walked
<1> HIDE DEF f
<1>4. 0 \in G
  BY <1>2 DEF Start, Whole
<1>5. ASSUME NEW i \in Nat, i \in G PROVE i + 1 \in G
  <2> SUFFICES ASSUME i + 1 <= n PROVE Whole(f[i + 1])
    OBVIOUS
  <2>1. i \in 0..(n - 1) /\ i + 1 \in 1..n /\ i <= n
    BY DEF n
  <2>2. Whole(f[i]) /\ items[i + 1].type \in Types
    BY <1>5, <2>1
  <2>3. f[i + 1] = Reduce(f[i], items[i + 1], taken)
    BY <1>3, <2>1
  <2>4. QED
    BY <2>2, <2>3, ReduceWhole
<1> HIDE DEF G
<1>6. \A i \in Nat : i \in G
  BY <1>4, <1>5, Induction
<1>7. Whole(f[n])
  BY <1>6 DEF G
<1>8. QED
  BY <1>1, <1>7 DEF Whole

\* No transaction makes a Project drift: the one it writes is sealed again.
Sounder ==
    /\ Kept'
    /\ \A p \in Projects : Drifts(p)' => Drifts(p)

LEMMA Alike ==
    ASSUME NEW p \in Projects, Kept, Streams',
           DOMAIN row' = Projects, DOMAIN seal' = Projects,
           \A q \in Projects \ {p} :
               row'[q] = row[q] /\ seal'[q] = seal[q] /\ stream'[q] = stream[q],
           seal'[p].version = Len(stream'[p]), seal'[p].digest = Digest(row'[p]),
           Complete(row'[p]), Shaped(row'[p])
    PROVE  Sounder
<1>1. ASSUME NEW q \in Projects
      PROVE  Sealed(q)' /\ Shaped(row'[q]) /\ (Drifts(q)' => Drifts(q))
  <2>1. CASE q = p
    <3>1. Sealed(p)' /\ ~Drifts(p)'
      BY DEF Sealed, Drifts, Consistent, Version
    <3>2. QED
      BY <2>1, <3>1
  <2>2. CASE q # p
    <3>1. row'[q] = row[q] /\ seal'[q] = seal[q] /\ stream'[q] = stream[q]
      BY <2>2
    <3>2. Sealed(q) /\ Shaped(row[q])
      BY DEF Kept
    <3>3. QED
      BY <3>1, <3>2 DEF Sealed, Drifts, Version
  <2>3. QED
    BY <2>1, <2>2
<1>2. QED
  BY <1>1 DEF Sounder, Kept

LEMMA AppendSound ==
    ASSUME NEW p \in Projects, Kept, AppendMeeting(p)
    PROVE  Sounder
<1>1. PICK type \in {"meeting", "content"} :
         /\ Appends(p, Version(p), MeetingEvent(type))
         /\ AppendTx(p, Version(p), MeetingEvent(type))
  BY DEF AppendMeeting
<1> DEFINE items == MeetingEvent(type)
           item == Event(type, NoDir, NoBranch, NoDir, 0)
           acc == Apply(p, row[p], Version(p), items)
<1>2. item \in Events /\ item.type = type
  BY Made DEF Types
<1>3. items = <<item>>
  BY DEF MeetingEvent
<1> HIDE DEF item
<1>4. items \in Seq(Events) /\ Len(items) = 1 /\ \A i \in 1..Len(items) : Placed(items[i])
  <2>1. Placed(item)
    BY <1>2 DEF Placed
  <2> HIDE DEF items
  <2>2. items \in Seq(Events) /\ Len(items) = 1 /\ items[1] = item
    BY <1>2, <1>3
  <2>3. QED
    BY <2>1, <2>2
<1> HIDE DEF items
<1>5. /\ stream' = [stream EXCEPT ![p] = @ \o items]
      /\ row' = [row EXCEPT ![p] = acc.row]
      /\ seal' = [seal EXCEPT ![p] = [version |-> Version(p) + Len(items),
                                      digest |-> Digest(acc.row)]]
      /\ Complete(acc.row)
  BY <1>1 DEF Appends, AppendTx, items
<1>11. Shaped(acc.row)
  <2>1. Shaped(row[p])
    BY DEF Kept
  <2>2. \A i \in 1..Len(items) : items[i].type \in Types
    <3>1. \A i \in 1..Len(items) : items[i] \in Events
      BY <1>4
    <3>2. QED
      BY <3>1 DEF Events
  <2>3. QED
    BY <1>4, <2>1, <2>2, ApplyShaped
<1> HIDE DEF acc
<1>6. /\ Streams' /\ Len(stream'[p]) = Len(stream[p]) + Len(items)
      /\ \A q \in Projects \ {p} : stream'[q] = stream[q]
  BY <1>4, <1>5, Longer DEF Kept
<1>7. DOMAIN row = Projects /\ DOMAIN seal = Projects
  BY DEF Kept
<1>8. /\ DOMAIN row' = Projects /\ DOMAIN seal' = Projects
      /\ \A q \in Projects \ {p} : row'[q] = row[q] /\ seal'[q] = seal[q]
      /\ row'[p] = acc.row
      /\ seal'[p] = [version |-> Version(p) + Len(items), digest |-> Digest(acc.row)]
  BY <1>5, <1>7
<1>9. seal'[p].version = Len(stream'[p]) /\ seal'[p].digest = Digest(row'[p])
  BY <1>6, <1>8 DEF Version
<1>10. QED
  BY <1>5, <1>6, <1>8, <1>9, <1>11, Alike

\* A Project that has been replayed is as its events say.
LEMMA ReplaySound ==
    ASSUME NEW p \in Projects, Kept, Replays(p), ReplayTx(p)
    PROVE  Sounder /\ Intact(p)'
<1> DEFINE rebuilt == Rebuilt(p).row
<1>1. Rebuilt(p).ok /\ Complete(rebuilt)
  BY DEF Replays
<1>2. rebuilt = Truth(p)
  BY <1>1, Replayed DEF Kept
<1>3. /\ row' = [row EXCEPT ![p] = rebuilt]
      /\ seal' = [seal EXCEPT ![p] = [version |-> Version(p), digest |-> Digest(rebuilt)]]
      /\ stream' = stream
  BY DEF ReplayTx
<1> HIDE DEF rebuilt
<1>4. DOMAIN row = Projects /\ DOMAIN seal = Projects /\ Streams
  BY DEF Kept
<1>5. /\ DOMAIN row' = Projects /\ DOMAIN seal' = Projects
      /\ \A q \in Projects \ {p} : row'[q] = row[q] /\ seal'[q] = seal[q]
      /\ row'[p] = rebuilt
      /\ seal'[p] = [version |-> Version(p), digest |-> Digest(rebuilt)]
  BY <1>3, <1>4
<1>6. seal'[p].version = Len(stream'[p]) /\ seal'[p].digest = Digest(row'[p])
  BY <1>3, <1>5 DEF Version
<1>7. Streams'
  BY <1>3, <1>4 DEF Streams
<1>11. Shaped(Truth(p))
  BY DEF Truth, TruthOf, Shaped
<1>8. Sounder
  BY <1>1, <1>2, <1>3, <1>5, <1>6, <1>7, <1>11, Alike
<1>9. Intact(p)'
  BY <1>2, <1>3, <1>5 DEF Intact, Truth
<1>10. QED
  BY <1>8, <1>9

\* The store is not written.
LEMMA StoreSound ==
    ASSUME Kept, UNCHANGED storeVars
    PROVE  Sounder
BY DEF Sounder, Kept, Streams, Sealed, Drifts, Version, storeVars

-----------------------------------------------------------------------------
(* What the handlers know.                                                 *)

\* A step of h that makes no Project drift.
LEMMA Stepped ==
    ASSUME InvGate, Sounder, GateCovers', NEW h \in Handlers,
           DOMAIN task' = Handlers, \A g \in Handlers \ {h} : task'[g] = task[g],
           Sees(h)'
    PROVE  InvGate'
<1>1. ASSUME NEW g \in Handlers PROVE Sees(g)'
  <2>1. CASE g = h
    BY <2>1
  <2>2. CASE g # h
    <3>1. task'[g] = task[g] /\ Sees(g)
      BY <2>2 DEF InvGate
    <3>2. \A p \in Projects : Drifts(p)' => Drifts(p)
      BY DEF Sounder
    <3>3. QED
      BY <3>1, <3>2 DEF Sees, Covers
  <2>3. QED
    BY <2>1, <2>2
<1>2. QED
  BY <1>1 DEF InvGate, Sounder

\* The gate stays as it is.
LEMMA Gated ==
    ASSUME InvGate, Sounder, UNCHANGED maintenance PROVE GateCovers'
BY DEF InvGate, Sounder, GateCovers

LEMMA Answered ==
    ASSUME InvGate, Sounder, GateCovers', NEW h \in Handlers, Answer(h)
    PROVE  InvGate'
<1>1. DOMAIN task = Handlers
  BY DEF InvGate
<1>2. /\ DOMAIN task' = Handlers /\ \A g \in Handlers \ {h} : task'[g] = task[g]
      /\ task'[h] = Idle
  BY <1>1 DEF Answer
<1>3. Idle = Task(Idle.pc, Idle.target, Idle.streams, Idle.todo, Idle.cur, Idle.digest,
                  Idle.drifted) /\ Idle.pc = "idle"
  BY DEF Idle, Task
<1>4. Sees(h)'
  BY <1>2, <1>3 DEF Sees, Covers, Steps
<1>5. QED
  BY <1>2, <1>4, Stepped

\* The fields a task has after a step of its handler.
LEMMA Became ==
    ASSUME InvGate, Sounder, GateCovers', NEW h \in Handlers,
           NEW pc1 \in Steps, NEW target1 \in Projects, NEW streams1, NEW todo1, NEW cur1,
           NEW digest1, NEW drifted1,
           DOMAIN task' = Handlers, \A g \in Handlers \ {h} : task'[g] = task[g],
           task'[h] = Task(pc1, target1, streams1, todo1, cur1, digest1, drifted1),
           pc1 = "command" => \A p \in Projects : p = target1 => ~Drifts(p),
           pc1 \in {"events", "projection", "digest", "current"} =>
               \A p \in Projects : Drifts(p) =>
                   \/ p \in drifted1 \cup todo1
                   \/ pc1 # "events" /\ p = cur1
    PROVE  InvGate'
<1>1. /\ task'[h].pc = pc1 /\ task'[h].target = target1 /\ task'[h].streams = streams1
      /\ task'[h].todo = todo1 /\ task'[h].cur = cur1 /\ task'[h].digest = digest1
      /\ task'[h].drifted = drifted1
  BY DEF Task
<1>2. \A p \in Projects : Drifts(p)' => Drifts(p)
  BY DEF Sounder
<1>3. Sees(h)'
  BY <1>1, <1>2 DEF Sees, Covers
<1>4. QED
  BY <1>3, Stepped

\* The fields of a task before.
LEMMA Fields ==
    ASSUME InvGate, NEW h \in Handlers
    PROVE  /\ DOMAIN task = Handlers
           /\ task[h] = [pc |-> task[h].pc, target |-> task[h].target,
                         streams |-> task[h].streams, todo |-> task[h].todo,
                         cur |-> task[h].cur, digest |-> task[h].digest,
                         drifted |-> task[h].drifted]
           /\ task[h].pc # "idle" => task[h].target \in Projects
           /\ Covers(h)
BY DEF InvGate, Sees, Task

LEMMA AcceptedKeeps ==
    ASSUME InvGate, NEW h \in Handlers, NEW to \in {"command", "replay"}, Accepted(h, to),
           to = "command" => maintenance = {},
           UNCHANGED <<storeVars, maintenance>>
    PROVE  InvGate'
<1>1. PICK p \in Projects : task' = [task EXCEPT ![h].pc = to, ![h].target = p]
  BY DEF Accepted
<1> DEFINE t == task[h]
<1>2. /\ DOMAIN task' = Handlers /\ \A g \in Handlers \ {h} : task'[g] = task[g]
      /\ task'[h] = [t EXCEPT !.pc = to, !.target = p]
  BY <1>1, Fields
<1>3. t = [pc |-> t.pc, target |-> t.target, streams |-> t.streams, todo |-> t.todo,
           cur |-> t.cur, digest |-> t.digest, drifted |-> t.drifted]
  BY Fields
<1> HIDE DEF t
<1>4. task'[h] = Task(to, p, t.streams, t.todo, t.cur, t.digest, t.drifted)
  BY <1>2, <1>3 DEF Task
<1>5. Sounder /\ GateCovers'
  <2>1. Sounder
    BY StoreSound DEF InvGate
  <2>2. QED
    BY <2>1, Gated
<1>6. to = "command" => \A q \in Projects : ~Drifts(q)
  BY DEF InvGate, GateCovers
<1>7. to \in Steps
  BY DEF Steps
<1>8. QED
  BY <1>2, <1>4, <1>5, <1>6, <1>7, Became

LEMMA CommandKeeps ==
    ASSUME InvGate, NEW h \in Handlers, Command(h) PROVE InvGate'
<1>1. task[h].target \in Projects
  BY Fields DEF Command
<1>2. Sounder
  <2>1. CASE AppendMeeting(task[h].target)
    BY <1>1, <2>1, AppendSound DEF InvGate
  <2>2. CASE UNCHANGED storeVars
    BY <2>2, StoreSound DEF InvGate
  <2>3. QED
    BY <2>1, <2>2 DEF Command
<1>3. GateCovers'
  BY <1>2, Gated DEF Command
<1>4. QED
  BY <1>2, <1>3, Answered DEF Command

LEMMA WorkKeeps ==
    ASSUME InvGate, NEW p \in Projects, Work(p) PROVE InvGate'
<1>1. Sounder
  BY AppendSound DEF InvGate, Work
<1>2. GateCovers'
  BY <1>1, Gated DEF Work
<1>3. task' = task /\ \A q \in Projects : Drifts(q)' => Drifts(q)
  BY <1>1 DEF Work, Sounder
<1>4. ASSUME NEW h \in Handlers PROVE Sees(h)'
  <2>1. Sees(h)
    BY DEF InvGate
  <2>2. QED
    BY <1>3, <2>1 DEF Sees, Covers
<1>5. QED
  BY <1>1, <1>2, <1>3, <1>4 DEF InvGate, Sounder

\* The Project a handler replays is as its events say.
LEMMA Repairs ==
    ASSUME InvGate, NEW h \in Handlers, ReplayFirst(h)
    PROVE  /\ Sounder
           /\ Intact(task[h].target)'
<1> DEFINE t == task[h]
<1>1. /\ t.target \in Projects /\ Replays(t.target) /\ ReplayTx(t.target)
      /\ task' = [task EXCEPT ![h].pc = "streams"]
  BY Fields DEF ReplayFirst
<1>2. PICK p \in Projects : p = t.target
  BY <1>1
<1>3. Replays(p) /\ ReplayTx(p)
  BY <1>1, <1>2
<1>4. Sounder /\ Intact(p)'
  BY <1>3, ReplaySound DEF InvGate
<1>5. task'[h].target = p
  <2>1. /\ DOMAIN task = Handlers
        /\ t = [pc |-> t.pc, target |-> t.target, streams |-> t.streams, todo |-> t.todo,
                cur |-> t.cur, digest |-> t.digest, drifted |-> t.drifted]
    BY Fields
  <2>2. task'[h] = [t EXCEPT !.pc = "streams"]
    BY <1>1, <2>1
  <2> HIDE DEF t
  <2>3. task'[h].target = t.target
    BY <2>1, <2>2
  <2>4. QED
    BY <1>2, <2>3
<1>6. Intact(task[h].target)'
  BY <1>4, <1>5 DEF Intact, Truth
<1>7. QED
  BY <1>4, <1>6

LEMMA ReplayKeeps ==
    ASSUME InvGate, NEW h \in Handlers, ReplayFirst(h) PROVE InvGate'
<1> DEFINE t == task[h]
<1>1. Sounder
  BY Repairs
<1>2. GateCovers'
  BY <1>1, Gated DEF ReplayFirst
<1>3. /\ DOMAIN task = Handlers /\ t.target \in Projects
      /\ t = [pc |-> t.pc, target |-> t.target, streams |-> t.streams, todo |-> t.todo,
              cur |-> t.cur, digest |-> t.digest, drifted |-> t.drifted]
  BY Fields DEF ReplayFirst
<1>4. /\ DOMAIN task' = Handlers /\ \A g \in Handlers \ {h} : task'[g] = task[g]
      /\ task'[h] = [t EXCEPT !.pc = "streams"]
  BY <1>3 DEF ReplayFirst
<1> HIDE DEF t
<1>5. task'[h] = Task("streams", t.target, t.streams, t.todo, t.cur, t.digest, t.drifted)
  BY <1>3, <1>4 DEF Task
<1>6. QED
  BY <1>1, <1>2, <1>3, <1>4, <1>5, Became DEF Steps

\* A step that reads: nothing but the task of h changes.
LEMMA Reading ==
    ASSUME InvGate, UNCHANGED <<storeVars, maintenance>>
    PROVE  Sounder /\ GateCovers'
<1>1. Sounder
  BY StoreSound DEF InvGate
<1>2. QED
  BY <1>1, Gated

LEMMA ReadStreamsKeeps ==
    ASSUME InvGate, NEW h \in Handlers, ReadStreams(h) PROVE InvGate'
<1> DEFINE t == task[h]
           versions == [p \in Projects |-> Version(p)]
<1>1. Sounder /\ GateCovers'
  BY Reading DEF ReadStreams
<1>2. /\ DOMAIN task = Handlers /\ t.target \in Projects
      /\ t = [pc |-> t.pc, target |-> t.target, streams |-> t.streams, todo |-> t.todo,
              cur |-> t.cur, digest |-> t.digest, drifted |-> t.drifted]
  BY Fields DEF ReadStreams
<1>3. task' = [task EXCEPT ![h].pc = "events", ![h].streams = versions, ![h].todo = Projects]
  BY DEF ReadStreams
<1> HIDE DEF versions
<1>4. /\ DOMAIN task' = Handlers /\ \A g \in Handlers \ {h} : task'[g] = task[g]
      /\ task'[h] = [t EXCEPT !.pc = "events", !.streams = versions, !.todo = Projects]
  BY <1>2, <1>3
<1> HIDE DEF t
<1>5. task'[h] = Task("events", t.target, versions, Projects, t.cur, t.digest, t.drifted)
  BY <1>2, <1>4 DEF Task
<1>6. QED
  BY <1>1, <1>2, <1>4, <1>5, Became DEF Steps

LEMMA ReadEventsKeeps ==
    ASSUME InvGate, NEW h \in Handlers, ReadEvents(h) PROVE InvGate'
<1> DEFINE t == task[h]
<1>1. Sounder /\ GateCovers'
  BY Reading DEF ReadEvents
<1>2. /\ DOMAIN task = Handlers /\ t.target \in Projects /\ t.pc = "events"
      /\ t = [pc |-> t.pc, target |-> t.target, streams |-> t.streams, todo |-> t.todo,
              cur |-> t.cur, digest |-> t.digest, drifted |-> t.drifted]
      /\ \A p \in Projects : Drifts(p) => p \in t.drifted \cup t.todo
  BY Fields DEF ReadEvents, Covers
<1>3. CASE Answer(h)
  BY <1>1, <1>3, Answered
<1>4. ASSUME NEW p \in t.todo,
             task' = [task EXCEPT ![h].pc = "projection", ![h].cur = p, ![h].todo = @ \ {p}]
      PROVE  InvGate'
  <2>1. /\ DOMAIN task' = Handlers /\ \A g \in Handlers \ {h} : task'[g] = task[g]
        /\ task'[h] = [t EXCEPT !.pc = "projection", !.cur = p, !.todo = @ \ {p}]
    BY <1>2, <1>4
  <2> HIDE DEF t
  <2>2. task'[h] = Task("projection", t.target, t.streams, t.todo \ {p}, p, t.digest, t.drifted)
    BY <1>2, <2>1 DEF Task
  <2>3. \A q \in Projects : Drifts(q) => q \in t.drifted \cup (t.todo \ {p}) \/ q = p
    BY <1>2
  <2>4. QED
    BY <1>1, <1>2, <2>1, <2>2, <2>3, Became DEF Steps
<1>5. QED
  BY <1>3, <1>4 DEF ReadEvents

\* A verdict on the Project that is looked at, when no drift gets lost by it.
LEMMA Judged ==
    ASSUME InvGate, NEW h \in Handlers, NEW drifts \in BOOLEAN, Judge(h, drifts),
           task[h].pc \in {"projection", "digest", "current"},
           ~drifts => \A p \in Projects : p = task[h].cur => ~Drifts(p)
    PROVE  InvGate'
<1> DEFINE t == task[h]
           found == t.drifted \cup IF drifts THEN {t.cur} ELSE {}
<1>1. Sounder /\ GateCovers'
  BY Reading DEF Judge, Verdict
<1>2. /\ DOMAIN task = Handlers /\ t.target \in Projects
      /\ t = [pc |-> t.pc, target |-> t.target, streams |-> t.streams, todo |-> t.todo,
              cur |-> t.cur, digest |-> t.digest, drifted |-> t.drifted]
      /\ \A p \in Projects : Drifts(p) => p \in t.drifted \cup t.todo \/ p = t.cur
  BY Fields DEF Covers
<1>3. task' = [task EXCEPT ![h].pc = "events", ![h].cur = NoProject,
                           ![h].digest = EmptyRow, ![h].drifted = found]
  BY DEF Judge, Verdict
<1>4. \A p \in Projects : Drifts(p) => p \in found \cup t.todo
  BY <1>2
<1> HIDE DEF found
<1>5. /\ DOMAIN task' = Handlers /\ \A g \in Handlers \ {h} : task'[g] = task[g]
      /\ task'[h] = [t EXCEPT !.pc = "events", !.cur = NoProject,
                              !.digest = EmptyRow, !.drifted = found]
  BY <1>2, <1>3
<1> HIDE DEF t
<1>6. task'[h] = Task("events", t.target, t.streams, t.todo, NoProject, EmptyRow, found)
  BY <1>2, <1>5 DEF Task
<1>7. QED
  BY <1>1, <1>2, <1>4, <1>5, <1>6, Became DEF Steps

\* The next query, about the same Project.
LEMMA WentOn ==
    ASSUME InvGate, NEW h \in Handlers, UNCHANGED <<storeVars, maintenance>>,
           task[h].pc \in {"projection", "digest", "current"},
           NEW to \in {"digest", "current"}, NEW digest1,
           DOMAIN task' = Handlers, \A g \in Handlers \ {h} : task'[g] = task[g],
           task'[h] = Task(to, task[h].target, task[h].streams, task[h].todo,
                           task[h].cur, digest1, task[h].drifted)
    PROVE  InvGate'
<1>1. Sounder /\ GateCovers'
  BY Reading
<1>2. /\ task[h].target \in Projects
      /\ \A p \in Projects : Drifts(p) =>
            p \in task[h].drifted \cup task[h].todo \/ p = task[h].cur
  BY Fields DEF Covers
<1>3. QED
  BY <1>1, <1>2, Became DEF Steps

LEMMA ReadProjectionKeeps ==
    ASSUME InvGate, NEW h \in Handlers, ReadProjection(h) PROVE InvGate'
<1> DEFINE t == task[h]
           sealed == seal[t.cur].digest
<1>1. CASE Judge(h, TRUE)
  BY <1>1, Judged DEF ReadProjection
<1>2. CASE /\ task' = [task EXCEPT ![h].pc = "digest", ![h].digest = sealed]
           /\ UNCHANGED <<storeVars, maintenance>>
  <2>1. /\ DOMAIN task = Handlers
        /\ t = [pc |-> t.pc, target |-> t.target, streams |-> t.streams, todo |-> t.todo,
                cur |-> t.cur, digest |-> t.digest, drifted |-> t.drifted]
    BY Fields
  <2> HIDE DEF sealed
  <2>2. /\ DOMAIN task' = Handlers /\ \A g \in Handlers \ {h} : task'[g] = task[g]
        /\ task'[h] = [t EXCEPT !.pc = "digest", !.digest = sealed]
    BY <1>2, <2>1
  <2> HIDE DEF t
  <2>3. task'[h] = Task("digest", t.target, t.streams, t.todo, t.cur, sealed, t.drifted)
    BY <2>1, <2>2 DEF Task
  <2> USE DEF t
  <2>4. QED
    BY <1>2, <2>2, <2>3, WentOn DEF ReadProjection
<1>3. QED
  BY <1>1, <1>2 DEF ReadProjection

LEMMA ReadDigestKeeps ==
    ASSUME InvGate, NEW h \in Handlers, ReadDigest(h) PROVE InvGate'
<1> DEFINE t == task[h]
<1>1. CASE Judge(h, TRUE)
  BY <1>1, Judged DEF ReadDigest
<1>2. CASE task' = [task EXCEPT ![h].pc = "current"] /\ UNCHANGED <<storeVars, maintenance>>
  <2>1. /\ DOMAIN task = Handlers
        /\ t = [pc |-> t.pc, target |-> t.target, streams |-> t.streams, todo |-> t.todo,
                cur |-> t.cur, digest |-> t.digest, drifted |-> t.drifted]
    BY Fields
  <2>2. /\ DOMAIN task' = Handlers /\ \A g \in Handlers \ {h} : task'[g] = task[g]
        /\ task'[h] = [t EXCEPT !.pc = "current"]
    BY <1>2, <2>1
  <2> HIDE DEF t
  <2>3. task'[h] = Task("current", t.target, t.streams, t.todo, t.cur, t.digest, t.drifted)
    BY <2>1, <2>2 DEF Task
  <2> USE DEF t
  <2>4. QED
    BY <1>2, <2>2, <2>3, WentOn DEF ReadDigest
<1>3. QED
  BY <1>1, <1>2 DEF ReadDigest

\* Rows that agree with a seal of the version read before are no drift: the
\* version of a seal is that of the stream.
LEMMA ReadCurrentKeeps ==
    ASSUME InvGate, NEW h \in Handlers, ReadCurrent(h) PROVE InvGate'
<1> DEFINE at == task[h].cur
           drifts == ~Consistent(row[at], seal[at], task[h].streams[at])
<1>1. task[h].pc = "current" /\ Judge(h, drifts)
  BY DEF ReadCurrent
<1>2. ASSUME ~drifts, NEW p \in Projects, p = at PROVE ~Drifts(p)
  <2>1. /\ seal[p].version = task[h].streams[p] /\ Complete(row[p])
        /\ Digest(row[p]) = seal[p].digest
    BY <1>2 DEF Consistent
  <2>2. seal[p].version = Version(p)
    BY <2>1 DEF InvGate, Kept, Sealed
  <2>3. QED
    BY <2>1, <2>2 DEF Drifts, Consistent
<1>3. drifts \in BOOLEAN
  BY DEF Consistent
<1> HIDE DEF drifts
<1>4. QED
  BY <1>1, <1>2, <1>3, Judged

LEMMA UpdateKeeps ==
    ASSUME InvGate, NEW h \in Handlers, Update(h) PROVE InvGate'
<1>1. Sounder
  BY StoreSound DEF InvGate, Update
<1>2. \A p \in Projects : Drifts(p) => p \in task[h].drifted
  BY Fields DEF Update, Covers
<1>3. GateCovers'
  BY <1>1, <1>2 DEF Update, Sounder, GateCovers
<1>4. QED
  BY <1>1, <1>3, Answered DEF Update

LEMMA RestartKeeps ==
    ASSUME InvGate, Restart PROVE InvGate'
<1>1. Kept
  BY DEF InvGate
<1>2. Kept'
  <2>1. CASE UNCHANGED storeVars
    BY <1>1, <2>1, StoreSound DEF Sounder
  <2>2. ASSUME NEW p \in Projects, NEW loss \in Losses,
               row' = [row EXCEPT ![p] = Lost(p, loss).row],
               seal' = [seal EXCEPT ![p] = Lost(p, loss).seal],
               stream' = stream
        PROVE  Kept'
    <3>1. /\ DOMAIN row' = Projects /\ DOMAIN seal' = Projects /\ Streams'
          /\ \A q \in Projects \ {p} : row'[q] = row[q] /\ seal'[q] = seal[q]
          /\ row'[p] = Lost(p, loss).row /\ seal'[p] = Lost(p, loss).seal
      BY <1>1, <2>2 DEF Kept, Streams
    <3>2. /\ Complete(Lost(p, loss).row) => Complete(row[p]) /\ Lost(p, loss).seal = seal[p]
          /\ Shaped(Lost(p, loss).row)
      <4> DEFINE r == row[p]
      <4>6. DOMAIN r = {"exists", "dir", "branch", "reality", "meetings", "contents"}
        BY <1>1 DEF Kept, Shaped
      <4>1. loss \in {"project", "meetings", "contents"}
        BY MaintenanceAssumption
      <4>2. CASE loss = "project"
        BY <4>2 DEF Lost, Complete, EmptyRow, Shaped
      <4>3. CASE loss = "meetings"
        <5>1. Lost(p, loss) = [row |-> [r EXCEPT !.meetings = 0], seal |-> seal[p]]
          BY <4>3 DEF Lost
        <5> HIDE DEF r
        <5>2. QED
          BY <4>6, <5>1 DEF Complete, Shaped, r
      <4>4. CASE loss = "contents"
        <5>1. Lost(p, loss) = [row |-> [r EXCEPT !.contents = 0], seal |-> seal[p]]
          BY <4>4 DEF Lost
        <5> HIDE DEF r
        <5>2. QED
          BY <4>6, <5>1 DEF Complete, Shaped, r
      <4>5. QED
        BY <4>1, <4>2, <4>3, <4>4
    <3>3. ASSUME NEW q \in Projects PROVE Sealed(q)' /\ Shaped(row'[q])
      <4>1. Sealed(q) /\ Shaped(row[q])
        BY <1>1 DEF Kept
      <4>2. /\ Complete(row'[q]) => Complete(row[q]) /\ seal'[q] = seal[q]
            /\ Shaped(row'[q])
        BY <3>1, <3>2, <4>1
      <4>3. QED
        BY <2>2, <4>1, <4>2 DEF Sealed, Version
    <3>4. QED
      BY <3>1, <3>3 DEF Kept
  <2>3. QED
    BY <2>1, <2>2 DEF Restart
<1>3. GateCovers'
  BY DEF Restart, GateCovers
<1>4. Idle = Task(Idle.pc, Idle.target, Idle.streams, Idle.todo, Idle.cur, Idle.digest,
                  Idle.drifted) /\ Idle.pc = "idle"
  BY DEF Idle, Task
<1>5. task' = [h \in Handlers |-> Idle]
  BY DEF Restart
<1>6. \A h \in Handlers : Sees(h)'
  BY <1>4, <1>5 DEF Sees, Covers, Steps
<1>7. QED
  BY <1>2, <1>3, <1>5, <1>6 DEF InvGate

-----------------------------------------------------------------------------
(* The gate at the start.                                                  *)

\* One more event.
LEMMA Joined ==
    ASSUME NEW E, NEW s \in Seq(E), NEW x \in E
    PROVE  /\ s \o <<x>> \in Seq(E) /\ Len(s \o <<x>>) = Len(s) + 1
           /\ \A i \in 1..Len(s) : (s \o <<x>>)[i] = s[i]
           /\ (s \o <<x>>)[Len(s) + 1] = x
<1>1. <<x>> \in Seq(E) /\ Len(<<x>>) = 1 /\ <<x>>[1] = x /\ 1 \in 1..1
  OBVIOUS
<1>2. /\ s \o <<x>> \in Seq(E) /\ Len(s \o <<x>>) = Len(s) + Len(<<x>>)
      /\ \A i \in 1..Len(s) : (s \o <<x>>)[i] = s[i]
      /\ \A i \in 1..Len(<<x>>) : (s \o <<x>>)[Len(s) + i] = <<x>>[i]
  BY <1>1, ConcatProperties
<1>3. QED
  BY <1>1, <1>2

Reads(s, a, b, c, x, y) ==
    /\ s \in Seq(Events) /\ Len(s) = 5
    /\ s[1] = a /\ s[2] = b /\ s[3] = c /\ s[4] = x /\ s[5] = y

LEMMA Five ==
    ASSUME NEW a \in Events, NEW b \in Events, NEW c \in Events, NEW x \in Events,
           NEW y \in Events, NEW s, s = <<a, b, c>> \o <<x>> \o <<y>>
    PROVE  Reads(s, a, b, c, x, y)
<1> DEFINE three == <<a, b, c>>
           four == three \o <<x>>
<1>1. /\ three \in Seq(Events) /\ Len(three) = 3
      /\ three[1] = a /\ three[2] = b /\ three[3] = c
  OBVIOUS
<1>2. s = four \o <<y>>
  OBVIOUS
<1> HIDE DEF three
<1>3. /\ four \in Seq(Events) /\ Len(four) = 4 /\ four[4] = x
      /\ four[1] = a /\ four[2] = b /\ four[3] = c
  <2>1. /\ four \in Seq(Events) /\ Len(four) = Len(three) + 1
        /\ \A i \in 1..Len(three) : four[i] = three[i]
        /\ four[Len(three) + 1] = x
    BY <1>1, Joined
  <2> HIDE DEF four
  <2>2. Len(three) + 1 = 4 /\ 1 \in 1..Len(three) /\ 2 \in 1..Len(three) /\ 3 \in 1..Len(three)
    BY <1>1
  <2>3. QED
    BY <1>1, <2>1, <2>2
<1> HIDE DEF four
<1>4. /\ s \in Seq(Events) /\ Len(s) = Len(four) + 1
      /\ \A i \in 1..Len(four) : s[i] = four[i]
      /\ s[Len(four) + 1] = y
  <2> DEFINE u == four \o <<y>>
  <2>1. /\ u \in Seq(Events) /\ Len(u) = Len(four) + 1
        /\ \A i \in 1..Len(four) : u[i] = four[i]
        /\ u[Len(four) + 1] = y
    BY <1>3, Joined
  <2>2. s = u
    BY <1>2
  <2> HIDE DEF u
  <2>3. QED
    BY <2>1, <2>2
<1>5. /\ Len(four) + 1 = 5 /\ 1 \in 1..Len(four) /\ 2 \in 1..Len(four)
      /\ 3 \in 1..Len(four) /\ 4 \in 1..Len(four)
  BY <1>3
<1>6. QED
  BY <1>3, <1>4, <1>5 DEF Reads

LEMMA TruthStep ==
    ASSUME NEW s, NEW k \in Nat, NEW j, j = k + 1, s[j].type \in Types
    PROVE  TruthTo(s, j) = After(TruthTo(s, k), s[j], j)
BY TruthNext

\* A Project is complete once it is registered, bound and captured.
LEMMA Completed ==
    ASSUME NEW s, s[1].type = "registered", s[2].type = "bound", s[2].dir \in Dirs,
           s[3].type = "captured", s[4].type = "meeting", s[5].type = "content"
    PROVE  Complete(TruthTo(s, 5)) /\ Shaped(TruthTo(s, 5))
<1>1. \A k : Shaped(TruthTo(s, k))
  BY DEF TruthTo, Shaped
<1>2. TruthTo(s, 1).exists = TRUE
  <2>1. TruthTo(s, 1) = After(TruthTo(s, 0), s[1], 1)
    BY TruthStep DEF Types
  <2>2. TruthTo(s, 1) = [TruthTo(s, 0) EXCEPT !.exists = TRUE]
    BY <2>1 DEF After
  <2>3. QED
    BY <1>1, <2>2 DEF Shaped
<1>3. TruthTo(s, 2).exists = TRUE /\ TruthTo(s, 2).dir = s[2].dir
  <2>1. TruthTo(s, 2) = After(TruthTo(s, 1), s[2], 2)
    BY TruthStep DEF Types
  <2>2. TruthTo(s, 2) = [TruthTo(s, 1) EXCEPT !.dir = s[2].dir, !.branch = s[2].branch]
    BY <2>1 DEF After
  <2>3. QED
    BY <1>1, <1>2, <2>2 DEF Shaped
<1>4. TruthTo(s, 3).exists = TRUE /\ TruthTo(s, 3).dir = s[2].dir /\ TruthTo(s, 3).reality = 3
  <2>1. TruthTo(s, 3) = After(TruthTo(s, 2), s[3], 3)
    BY TruthStep DEF Types
  <2>2. TruthTo(s, 3) = [TruthTo(s, 2) EXCEPT !.reality = 3]
    BY <2>1 DEF After
  <2>3. QED
    BY <1>1, <1>3, <2>2 DEF Shaped
<1>5. TruthTo(s, 4).exists = TRUE /\ TruthTo(s, 4).dir = s[2].dir /\ TruthTo(s, 4).reality = 3
  <2>1. TruthTo(s, 4) = After(TruthTo(s, 3), s[4], 4)
    BY TruthStep DEF Types
  <2>2. TruthTo(s, 4) = [TruthTo(s, 3) EXCEPT !.meetings = TruthTo(s, 3).meetings + 1]
    BY <2>1 DEF After
  <2>3. QED
    BY <1>1, <1>4, <2>2 DEF Shaped
<1>6. TruthTo(s, 5).exists = TRUE /\ TruthTo(s, 5).dir = s[2].dir /\ TruthTo(s, 5).reality = 3
  <2>1. TruthTo(s, 5) = After(TruthTo(s, 4), s[5], 5)
    BY TruthStep DEF Types
  <2>2. TruthTo(s, 5) = [TruthTo(s, 4) EXCEPT !.contents = TruthTo(s, 4).contents + 1]
    BY <2>1 DEF After
  <2>3. QED
    BY <1>1, <1>5, <2>2 DEF Shaped
<1>7. QED
  BY <1>1, <1>6, EventStoreAssumption DEF Complete

\* The stream of a Project with one event of a Meeting and one content.
LEMMA Opened ==
    ASSUME NEW d \in Dirs, NEW b \in Branches, NEW s,
           s = Registration(d, b, 1) \o MeetingEvent("meeting") \o MeetingEvent("content")
    PROVE  /\ s \in Seq(Events) /\ \A i \in 1..Len(s) : Placed(s[i])
           /\ Complete(TruthOf(s)) /\ Shaped(TruthOf(s))
<1> DEFINE registered == Event("registered", NoDir, NoBranch, NoDir, 0)
           bound == Event("bound", d, b, NoDir, 0)
           captured == Event("captured", d, b, NoDir, 1)
           meeting == Event("meeting", NoDir, NoBranch, NoDir, 0)
           content == Event("content", NoDir, NoBranch, NoDir, 0)
<1>1. /\ registered \in Events /\ bound \in Events /\ captured \in Events
      /\ meeting \in Events /\ content \in Events
      /\ registered.type = "registered" /\ bound.type = "bound"
      /\ captured.type = "captured" /\ meeting.type = "meeting" /\ content.type = "content"
      /\ bound.dir = d /\ captured.dir = d /\ bound.branch = b /\ captured.branch = b
  BY DEF Event, Events, Types
<1>2. /\ Placed(registered) /\ Placed(bound) /\ Placed(captured)
      /\ Placed(meeting) /\ Placed(content)
  BY <1>1 DEF Placed
<1>3. s = <<registered, bound, captured>> \o <<meeting>> \o <<content>>
  BY Triple DEF Registration, Capture, MeetingEvent
<1> HIDE DEF registered, bound, captured, meeting, content
<1>4. /\ s \in Seq(Events) /\ Len(s) = 5 /\ s[1] = registered
      /\ s[2] = bound /\ s[3] = captured /\ s[4] = meeting /\ s[5] = content
  <2>1. Reads(s, registered, bound, captured, meeting, content)
    BY <1>1, <1>3, Five
  <2>2. QED
    BY <2>1 DEF Reads
<1>5. \A i \in 1..5 : i = 1 \/ i = 2 \/ i = 3 \/ i = 4 \/ i = 5
  OBVIOUS
<1>6. \A i \in 1..Len(s) : Placed(s[i])
  BY <1>2, <1>4, <1>5
<1>7. TruthOf(s) = TruthTo(s, 5)
  <2>1. DOMAIN s = 1..Len(s)
    BY <1>4
  <2>2. TruthOf(s) = TruthTo(s, Len(s))
    BY <2>1, TruthAll
  <2>3. QED
    BY <1>4, <2>2
<1>8. Complete(TruthTo(s, 5)) /\ Shaped(TruthTo(s, 5))
  <2>1. /\ s[1].type = "registered" /\ s[2].type = "bound" /\ s[2].dir \in Dirs
        /\ s[3].type = "captured" /\ s[4].type = "meeting" /\ s[5].type = "content"
    BY <1>1, <1>4
  <2>2. QED
    BY <2>1, Completed
<1>9. QED
  BY <1>4, <1>6, <1>7, <1>8

LEMMA InvGateInit == InitGate => InvGate
<1> SUFFICES ASSUME InitGate PROVE InvGate
  OBVIOUS
<1>1. ASSUME NEW p \in Projects
      PROVE  /\ stream[p] \in Seq(Events) /\ \A i \in 1..Len(stream[p]) : Placed(stream[p][i])
             /\ row[p] = Truth(p) /\ Complete(row[p]) /\ Shaped(row[p])
             /\ seal[p].version = Version(p) /\ seal[p].digest = Digest(row[p])
  <2>1. stream[p] = Registration(DirOf[p], BranchOf[p], 1)
                       \o MeetingEvent("meeting") \o MeetingEvent("content")
    BY DEF InitGate
  <2>2. DirOf[p] \in Dirs /\ BranchOf[p] \in Branches
    BY MaintenanceAssumption
  <2>3. /\ stream[p] \in Seq(Events) /\ \A i \in 1..Len(stream[p]) : Placed(stream[p][i])
        /\ Complete(TruthOf(stream[p])) /\ Shaped(TruthOf(stream[p]))
    BY <2>1, <2>2, Opened
  <2>4. row[p] = Truth(p) /\ seal[p] = [version |-> Version(p), digest |-> Digest(row[p])]
    BY DEF InitGate
  <2>5. QED
    BY <2>3, <2>4 DEF Truth
<1>2. Streams
  <2>1. DOMAIN stream = Projects /\ stream = [p \in Projects |-> stream[p]]
    BY DEF InitGate
  <2>2. QED
    BY <1>1, <2>1 DEF Streams
<1>3. Kept
  BY <1>1, <1>2 DEF Kept, Sealed, InitGate
<1>4. GateCovers
  BY <1>1 DEF GateCovers, Drifts, Consistent
<1>5. Idle = Task(Idle.pc, Idle.target, Idle.streams, Idle.todo, Idle.cur, Idle.digest,
                  Idle.drifted) /\ Idle.pc = "idle"
  BY DEF Idle, Task
<1>6. task = [h \in Handlers |-> Idle]
  BY DEF InitGate
<1>7. \A h \in Handlers : Sees(h)
  BY <1>5, <1>6 DEF Sees, Covers, Steps
<1>8. QED
  BY <1>3, <1>4, <1>6, <1>7 DEF InvGate

LEMMA InvGateNext == InvGate /\ [NextGate]_gateVars => InvGate'
<1> SUFFICES ASSUME InvGate, [NextGate]_gateVars PROVE InvGate'
  OBVIOUS
<1>1. CASE Restart
  BY <1>1, RestartKeeps
<1>2. ASSUME NEW h \in Handlers, Pass(h) PROVE InvGate'
  BY <1>2, AcceptedKeeps DEF Pass
<1>3. ASSUME NEW h \in Handlers, RequestReplay(h) PROVE InvGate'
  BY <1>3, AcceptedKeeps DEF RequestReplay
<1>4. ASSUME NEW h \in Handlers, Reconcile(h) PROVE InvGate'
  BY <1>4, ReadStreamsKeeps, ReadEventsKeeps, ReadProjectionKeeps, ReadDigestKeeps,
     ReadCurrentKeeps, UpdateKeeps DEF Reconcile
<1>5. ASSUME NEW h \in Handlers, Abandon(h) PROVE InvGate'
  <2>1. Sounder /\ GateCovers'
    BY <1>5, Reading DEF Abandon
  <2>2. QED
    BY <1>5, <2>1, Answered DEF Abandon
<1>6. CASE UNCHANGED gateVars
  <2>1. Sounder /\ GateCovers' /\ task' = task
    BY <1>6, Reading DEF gateVars
  <2>2. \A p \in Projects : Drifts(p)' => Drifts(p)
    BY <2>1 DEF Sounder
  <2>3. ASSUME NEW h \in Handlers PROVE Sees(h)'
    <3>1. Sees(h)
      BY DEF InvGate
    <3>2. QED
      BY <2>1, <2>2, <3>1 DEF Sees, Covers
  <2>4. QED
    BY <2>1, <2>3 DEF InvGate, Sounder
<1>7. QED
  BY <1>1, <1>2, <1>3, <1>4, <1>5, <1>6, CommandKeeps, ReplayKeeps, WorkKeeps DEF NextGate

LEMMA AlwaysGate == SpecGate => []InvGate
  BY InvGateInit, InvGateNext, PTL DEF SpecGate

(* As long as the rows of a Project and their seal disagree it is in       *)
(* maintenance: the Reconcile of one request judges every Project by       *)
(* several queries, between which other requests and the coordinator       *)
(* write, and still its verdict never leaves a drift out.                  *)
THEOREM GateCorrect == SpecGate => []GateCovers
<1>1. InvGate => GateCovers
  BY DEF InvGate
<1>2. QED
  BY <1>1, AlwaysGate, PTL

(* A command that requireReady let through has a Project without drift     *)
(* when it gets to its Append, whatever the gate has become meanwhile.     *)
THEOREM CommandsCorrect == SpecGate => []CommandOnSound
<1>1. InvGate => CommandOnSound
  <2> SUFFICES ASSUME InvGate, NEW h \in Handlers, task[h].pc = "command"
               PROVE  ~Drifts(task[h].target)
    BY DEF CommandOnSound
  <2>1. task[h].target \in Projects
    BY Fields
  <2>2. \A p \in Projects : p = task[h].target => ~Drifts(p)
    BY DEF InvGate, Sees
  <2>3. QED
    BY <2>1, <2>2
<1>2. QED
  BY <1>1, AlwaysGate, PTL

(* A replay of a Project makes its rows what its events say, whatever rows *)
(* had been lost: the reducers, started from nothing, arrive at the last   *)
(* binding, the last Reality and the counts read off the stream.           *)
THEOREM ReplayCorrect == SpecGate => ReplayRepairs
<1>1. InvGate /\ [NextGate]_gateVars
        => [\A h \in Handlers : ReplayFirst(h) => Intact(task[h].target)']_gateVars
  <2> SUFFICES ASSUME InvGate, NEW h \in Handlers, ReplayFirst(h)
               PROVE  Intact(task[h].target)'
    OBVIOUS
  <2>1. QED
    BY Repairs
<1>2. QED
  BY <1>1, AlwaysGate, PTL DEF SpecGate, ReplayRepairs
=============================================================================
