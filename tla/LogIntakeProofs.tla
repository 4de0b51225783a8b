--------------------------- MODULE LogIntakeProofs ---------------------------
(***************************************************************************)
(* Theorems about the way from log files to records, for every log, every  *)
(* way to cut it into files, and any number of failing calls.              *)
(***************************************************************************)
EXTENDS LogIntake, FiniteSetTheorems, SequenceTheorems, TLAPS

-----------------------------------------------------------------------------
(* A set of numbers in the order of ranks. *)

Predecessors(S, rank, k) == {j \in S : Before(rank, j, k)}

Place(S, rank, k) == Cardinality(Predecessors(S, rank, k)) + 1

LEMMA PlaceIsInRange ==
  ASSUME NEW S \in SUBSET Int, IsFiniteSet(S), NEW rank \in [S -> Int], NEW k \in S
  PROVE  /\ IsFiniteSet(Predecessors(S, rank, k))
         /\ Place(S, rank, k) \in 1..Cardinality(S)
<1>1. Predecessors(S, rank, k) \in SUBSET (S \ {k})
  BY DEF Predecessors, Before
<1>2. /\ IsFiniteSet(S \ {k})
      /\ Cardinality(S \ {k}) = Cardinality(S) - 1
  BY FS_RemoveElement
<1>3. /\ IsFiniteSet(Predecessors(S, rank, k))
      /\ Cardinality(Predecessors(S, rank, k)) <= Cardinality(S) - 1
  BY <1>1, <1>2, FS_Subset
<1>4. Cardinality(S) \in Nat /\ Cardinality(Predecessors(S, rank, k)) \in Nat
  BY <1>3, FS_CardinalityType
<1> QED BY <1>3, <1>4 DEF Place

LEMMA PlacesGrow ==
  ASSUME NEW S \in SUBSET Int, IsFiniteSet(S), NEW rank \in [S -> Int],
         NEW j \in S, NEW k \in S, Before(rank, j, k)
  PROVE  Place(S, rank, j) < Place(S, rank, k)
<1> DEFINE J == Predecessors(S, rank, j)
           K == Predecessors(S, rank, k)
<1>1. J \subseteq K
  <2>1. SUFFICES ASSUME NEW i \in S, Before(rank, i, j) PROVE Before(rank, i, k)
    BY DEF Predecessors
  <2>2. /\ rank[i] \in Int /\ rank[j] \in Int /\ rank[k] \in Int
        /\ i \in Int /\ j \in Int /\ k \in Int
    OBVIOUS
  <2> QED BY <2>1, <2>2 DEF Before
<1>2. j \in K /\ j \notin J
  BY DEF Predecessors, Before
<1>3. IsFiniteSet(J) /\ IsFiniteSet(K)
  BY PlaceIsInRange
<1>4. Cardinality(J) \in Nat /\ Cardinality(K) \in Nat
  BY <1>3, FS_CardinalityType
<1>5. Cardinality(J) <= Cardinality(K) /\ Cardinality(J) # Cardinality(K)
  BY <1>1, <1>2, <1>3, FS_Subset
<1> QED BY <1>4, <1>5 DEF Place

\* The places are 1 to the number of members, each taken once.
LEMMA PlacesAreTaken ==
  ASSUME NEW S \in SUBSET Int, IsFiniteSet(S), NEW rank \in [S -> Int]
  PROVE  /\ \A j, k \in S : Place(S, rank, j) = Place(S, rank, k) => j = k
         /\ \A n \in 1..Cardinality(S) : \E k \in S : Place(S, rank, k) = n
<1> DEFINE c == Cardinality(S)
           place == [k \in S |-> Place(S, rank, k)]
<1>1. c \in Nat
  BY FS_CardinalityType
<1>2. \A k \in S : Place(S, rank, k) \in 1..c
  BY PlaceIsInRange
<1>3. \A j, k \in S : Place(S, rank, j) = Place(S, rank, k) => j = k
  <2>1. \A j, k \in S : j # k => Before(rank, j, k) \/ Before(rank, k, j)
    BY DEF Before
  <2>2. \A j, k \in S : j # k => \/ Place(S, rank, j) < Place(S, rank, k)
                                 \/ Place(S, rank, k) < Place(S, rank, j)
    BY <2>1, PlacesGrow
  <2> QED BY <1>2, <2>2
<1>4. place \in Injection(S, 1..c)
  BY <1>2, <1>3 DEF Injection, IsInjective
<1>5. IsFiniteSet(1..c) /\ Cardinality(1..c) = c
  BY <1>1, FS_Interval
<1>6. place \in Surjection(S, 1..c)
  <2> HIDE DEF place
  <2> QED BY <1>4, <1>5, FS_Injection
<1> QED BY <1>3, <1>6 DEF Surjection

LEMMA SortedByProperties ==
  ASSUME NEW S \in SUBSET Int, IsFiniteSet(S), NEW rank \in [S -> Int]
  PROVE  /\ Cardinality(S) \in Nat
         /\ SortedBy(S, rank) \in [1..Cardinality(S) -> S]
         /\ SortedBy(S, rank) \in Seq(S)
         /\ Len(SortedBy(S, rank)) = Cardinality(S)
         /\ \A k \in S : \E n \in 1..Cardinality(S) : SortedBy(S, rank)[n] = k
         /\ \A n \in 1..Cardinality(S) : Place(S, rank, SortedBy(S, rank)[n]) = n
         /\ \A m, n \in 1..Cardinality(S) :
              m < n => Before(rank, SortedBy(S, rank)[m], SortedBy(S, rank)[n])
<1> DEFINE c == Cardinality(S)
           s == SortedBy(S, rank)
<1>1. c \in Nat
  BY FS_CardinalityType
<1>2. \A k \in S : Place(S, rank, k) \in 1..c
  BY PlaceIsInRange
<1>3. \A n \in 1..c : s[n] \in S /\ Place(S, rank, s[n]) = n
  <2> TAKE n \in 1..c
  <2>1. PICK k \in S : Place(S, rank, k) = n
    BY PlacesAreTaken
  <2>2. s[n] = CHOOSE i \in S : Cardinality({j \in S : Before(rank, j, i)}) = n - 1
    BY DEF SortedBy
  <2>3. \A i \in S : Cardinality({j \in S : Before(rank, j, i)}) \in Nat
    BY PlaceIsInRange, FS_CardinalityType DEF Predecessors
  <2>4. Cardinality({j \in S : Before(rank, j, k)}) = n - 1
    BY <2>1, <2>3 DEF Place, Predecessors
  <2>5. s[n] \in S /\ Cardinality({j \in S : Before(rank, j, s[n])}) = n - 1
    <3> DEFINE P(i) == Cardinality({j \in S : Before(rank, j, i)}) = n - 1
    <3>1. \E i \in S : P(i)
      BY <2>4
    <3>2. s[n] = CHOOSE i \in S : P(i)
      BY <2>2
    <3> HIDE DEF P, s
    <3>3. s[n] \in S /\ P(s[n])
      BY <3>1, <3>2
    <3> QED BY <3>3 DEF P
  <2> QED BY <2>5 DEF Place, Predecessors
<1>4. s \in [1..c -> S]
  BY <1>3 DEF SortedBy
<1>5. s \in Seq(S) /\ Len(s) = c
  <2> HIDE DEF s
  <2>1. s \in Seq(S)
    BY <1>1, <1>4, SeqDef
  <2> QED BY <1>1, <1>4, <2>1, LenProperties
<1>6. \A k \in S : \E n \in 1..c : s[n] = k
  <2> TAKE k \in S
  <2> HIDE DEF s
  <2>1. PICK n \in 1..c : n = Place(S, rank, k)
    BY <1>2
  <2>2. s[n] \in S /\ Place(S, rank, s[n]) = Place(S, rank, k)
    BY <1>3, <2>1
  <2>3. \A i, j \in S : Place(S, rank, i) = Place(S, rank, j) => i = j
    BY PlacesAreTaken
  <2>4. s[n] = k
    BY <2>2, <2>3
  <2> QED BY <2>4
<1>7. \A m, n \in 1..c : m < n => Before(rank, s[m], s[n])
  <2> TAKE m, n \in 1..c
  <2> HAVE m < n
  <2> HIDE DEF s
  <2>1. s[m] \in S /\ s[n] \in S /\ Place(S, rank, s[m]) = m /\ Place(S, rank, s[n]) = n
    BY <1>3
  <2>2. s[m] # s[n]
    BY <2>1
  <2>3. Before(rank, s[m], s[n]) \/ Before(rank, s[n], s[m])
    <3>1. /\ rank[s[m]] \in Int /\ rank[s[n]] \in Int
          /\ s[m] \in Int /\ s[n] \in Int
      BY <2>1
    <3> QED BY <2>2, <3>1 DEF Before
  <2>4. Before(rank, s[n], s[m]) => n < m
    BY <2>1, PlacesGrow
  <2> QED BY <1>1, <2>3, <2>4
<1> QED BY <1>1, <1>3, <1>4, <1>5, <1>6, <1>7
-----------------------------------------------------------------------------
(* The reports of a set of entries. *)

Identity(S) == [e \in S |-> e]

AReport == [batch : Nat, ts : Nat]

\* The sequence begins as it was, and ends with a member later than all others.
LEMMA SortedByAppends ==
  ASSUME NEW S \in SUBSET Nat, IsFiniteSet(S), NEW m \in Nat, \A e \in S : e < m
  PROVE  SortedBy(S \cup {m}, Identity(S \cup {m})) = Append(SortedBy(S, Identity(S)), m)
<1> DEFINE T == S \cup {m}
           s == SortedBy(S, Identity(S))
           t == SortedBy(T, Identity(T))
           c == Cardinality(S)
<1>1. /\ S \in SUBSET Int /\ T \in SUBSET Int
      /\ Identity(S) \in [S -> Int] /\ Identity(T) \in [T -> Int]
  BY DEF Identity
<1>2. /\ IsFiniteSet(T) /\ Cardinality(T) = c + 1
      /\ c \in Nat
  BY FS_AddElement, FS_CardinalityType
<1>3. /\ s \in Seq(S) /\ Len(s) = c
      /\ \A n \in 1..c : s[n] \in S /\ Place(S, Identity(S), s[n]) = n
  <2> HIDE DEF c
  <2>1. s \in [1..c -> S]
    BY <1>1, SortedByProperties DEF c
  <2> QED BY <1>1, <2>1, SortedByProperties DEF c
<1>4. /\ t \in Seq(T) /\ Len(t) = c + 1
      /\ \A n \in 1..(c + 1) : t[n] \in T /\ Place(T, Identity(T), t[n]) = n
      /\ \A k \in T : \E n \in 1..(c + 1) : t[n] = k
      /\ \A i, n \in 1..(c + 1) : i < n => Before(Identity(T), t[i], t[n])
  <2> DEFINE d == Cardinality(T)
  <2> HIDE DEF T
  <2>1. /\ t \in Seq(T) /\ Len(t) = d
        /\ t \in [1..d -> T]
        /\ \A n \in 1..d : Place(T, Identity(T), t[n]) = n
        /\ \A k \in T : \E n \in 1..d : t[n] = k
        /\ \A i, n \in 1..d : i < n => Before(Identity(T), t[i], t[n])
    BY <1>1, <1>2, SortedByProperties
  <2>2. d = c + 1
    BY <1>2
  <2> HIDE DEF t, c, d
  <2> QED BY <2>1, <2>2
<1>5. t[c + 1] = m
  <2>1. PICK p \in 1..(c + 1) : t[p] = m
    BY <1>4
  <2> HIDE DEF t, c
  <2>2. /\ t[c + 1] \in T
        /\ p < c + 1 => Before(Identity(T), m, t[c + 1])
    <3>1. c + 1 \in 1..(c + 1)
      BY <1>2
    <3> HIDE DEF T
    <3> QED BY <1>4, <2>1, <3>1
  <2>4. ~Before(Identity(T), m, t[c + 1])
    <3>1. t[c + 1] \in Nat /\ t[c + 1] <= m
      <4>1. \A e \in T : e \in Nat /\ e <= m
        OBVIOUS
      <4> QED BY <2>2, <4>1
    <3>2. Identity(T)[t[c + 1]] = t[c + 1] /\ Identity(T)[m] = m
      BY <2>2 DEF Identity
    <3> QED BY <3>1, <3>2 DEF Before
  <2> QED BY <1>2, <2>1, <2>2, <2>4
<1>6. \A n \in 1..c : t[n] = s[n]
  <2> HIDE DEF s, t, c
  <2> TAKE n \in 1..c
  <2>1. s[n] \in S /\ Place(S, Identity(S), s[n]) = n
    BY <1>3
  <2>2. t[n] \in T /\ Place(T, Identity(T), t[n]) = n
    <3>1. n \in 1..(c + 1)
      BY <1>2
    <3> QED BY <1>4, <3>1
  <2>3. Predecessors(T, Identity(T), s[n]) = Predecessors(S, Identity(S), s[n])
    <3>1. /\ \A e \in S : Identity(S)[e] = e
          /\ \A e \in T : Identity(T)[e] = e
      BY DEF Identity
    <3>2. s[n] \in S /\ s[n] < m /\ s[n] \in Nat
      BY <2>1
    <3>3. \A e \in S : Before(Identity(T), e, s[n]) <=> Before(Identity(S), e, s[n])
      BY <3>1, <3>2 DEF Before
    <3>4. ~Before(Identity(T), m, s[n])
      BY <3>1, <3>2 DEF Before
    <3> QED BY <3>3, <3>4 DEF Predecessors
  <2>4. Place(T, Identity(T), s[n]) = Place(T, Identity(T), t[n])
    BY <2>1, <2>2, <2>3 DEF Place
  <2>5. \A j, k \in T : Place(T, Identity(T), j) = Place(T, Identity(T), k) => j = k
    <3> HIDE DEF T
    <3> QED BY <1>1, <1>2, PlacesAreTaken
  <2> QED BY <2>1, <2>2, <2>4, <2>5
<1>7. s \in Seq(T)
  BY <1>3, SeqMonotonic
<1>8. /\ Append(s, m) \in Seq(T) /\ Len(Append(s, m)) = c + 1
      /\ \A n \in 1..(c + 1) : Append(s, m)[n] = t[n]
  <2> HIDE DEF s, t, c
  <2>1. m \in T
    OBVIOUS
  <2> HIDE DEF T
  <2> QED BY <1>2, <1>3, <1>5, <1>6, <1>7, <2>1
<1> QED
  <2> HIDE DEF s, t, T
  <2>1. t = Append(s, m)
    BY <1>4, <1>8, SeqEqual
  <2> QED BY <2>1 DEF s, t, T

\* So do the reports.
LEMMA ReportsAppend ==
  ASSUME NEW S \in SUBSET Nat, IsFiniteSet(S), NEW m \in Nat, \A e \in S : e < m,
         \A e \in S \cup {m} : Report(e) \in AReport
  PROVE  ReportsOf(S \cup {m}) = Append(ReportsOf(S), Report(m))
<1> DEFINE T == S \cup {m}
           s == SortedBy(S, Identity(S))
           t == SortedBy(T, Identity(T))
           c == Cardinality(S)
<1>1. /\ s \in Seq(S) /\ Len(s) = c /\ c \in Nat
      /\ \A n \in 1..c : s[n] \in S
  <2>1. S \in SUBSET Int /\ Identity(S) \in [S -> Int]
    BY DEF Identity
  <2>2. s \in [1..c -> S]
    BY <2>1, SortedByProperties
  <2> QED BY <2>1, <2>2, SortedByProperties
<1>2. t = Append(s, m)
  BY SortedByAppends
<1>3. /\ ReportsOf(S) = [n \in 1..Len(s) |-> Report(s[n])]
      /\ ReportsOf(T) = [n \in 1..Len(t) |-> Report(t[n])]
  BY DEF ReportsOf, Identity
<1> HIDE DEF s, t, T, c
<1>4. /\ Len(t) = c + 1
      /\ \A n \in 1..c : t[n] = s[n]
      /\ t[c + 1] = m
  BY <1>1, <1>2
<1>5. ReportsOf(S) \in Seq(AReport) /\ Len(ReportsOf(S)) = c
  <2>1. ReportsOf(S) \in [1..c -> AReport]
    BY <1>1, <1>3
  <2> QED BY <1>1, <2>1, SeqDef, LenProperties
<1>6. Report(m) \in AReport
  OBVIOUS
<1>7. /\ Append(ReportsOf(S), Report(m)) \in [1..(c + 1) -> AReport]
      /\ \A n \in 1..(c + 1) : Append(ReportsOf(S), Report(m))[n] =
                               IF n = c + 1 THEN Report(m) ELSE ReportsOf(S)[n]
  <2> DEFINE a == ReportsOf(S)
  <2>1. /\ Append(a, Report(m)) \in Seq(AReport) /\ Len(Append(a, Report(m))) = c + 1
        /\ \A n \in 1..(c + 1) : Append(a, Report(m))[n] = IF n = c + 1 THEN Report(m) ELSE a[n]
    <3>1. a \in Seq(AReport) /\ Len(a) = c
      BY <1>5
    <3> HIDE DEF a
    <3> QED BY <1>1, <1>6, <3>1, AppendProperties
  <2> HIDE DEF a
  <2> QED BY <2>1, LenProperties DEF a
<1>8. \A n \in 1..(c + 1) : ReportsOf(T)[n] = Append(ReportsOf(S), Report(m))[n]
  BY <1>1, <1>3, <1>4, <1>7
<1> QED BY <1>3, <1>4, <1>7, <1>8 DEF T

LEMMA ReportsOfNone == ReportsOf({}) = <<>>
<1>1. /\ {} \in SUBSET Int /\ IsFiniteSet({}) /\ Cardinality({}) = 0
      /\ Identity({}) \in [{} -> Int]
  BY FS_EmptySet DEF Identity
<1>2. Len(SortedBy({}, Identity({}))) = 0
  BY <1>1, SortedByProperties
<1> QED BY <1>2 DEF ReportsOf, Identity
-----------------------------------------------------------------------------
(* The invariant. *)

Typed ==
  /\ input \in Inputs
  /\ phase \in {"order", "peek", "walk", "done", "failed"}
  /\ unpeeked \subseteq Files
  /\ body \in Files \cup {NoKey}
  /\ stamps \in [Files -> Nat]
  /\ order \in Seq(Files)
  /\ line \in Nat /\ current \in Seq(Nat \X Nat) /\ found \in Seq(AReport)
  /\ handed \in Seq(Seq(AReport))
  /\ mishaps \in 0..MaxMishaps

\* How many lines of the file belong to entries that are done with.
Settled == line - Len(current)

\* The entry at hand begins where the last one ended.
AtHand ==
  IF body = NoKey
  THEN line = 0 /\ current = <<>> /\ found = <<>>
  ELSE /\ line \in Len(current)..Readable
       /\ \A n \in 1..Len(current) : /\ current[n] = Lines[Settled + n]
                                     /\ current[n] = <<current[1][1], current[1][2] + (n - 1)>>
       /\ Settled = 0 \/ Settled = Readable \/ IsHeader(Lines[Settled + 1])

\* What is being read is due.
InPlace ==
  /\ phase \in {"order", "done", "failed"} => body = NoKey
  /\ phase \in {"order", "peek", "failed"} => order = <<>> /\ handed = <<>>
  /\ phase = "walk" /\ body # NoKey => /\ Len(handed) < Len(order)
                                       /\ body = order[Len(handed) + 1]
  /\ phase = "peek" /\ body # NoKey => body \in unpeeked
  /\ Len(handed) <= Len(order)
  /\ phase = "done" => Len(handed) = Len(order)

\* The records at hand are the whole reports of the lines done with.
FoundIsWhole ==
  /\ phase = "walk" /\ body # NoKey => found = ReportsOf(WholeAmong(body, Settled))
  /\ phase = "peek" /\ body # NoKey => WholeAmong(body, Settled) = {}
  /\ \A f \in 1..Len(handed) : handed[f] = WholeReports(order[f])

Stamped(k) ==
  \/ WholeIn(k) = {}
  \/ \E d \in WholeIn(k) : (\A e \in WholeIn(k) : d <= e) /\ stamps[k] = entries[d].ts

\* A file is stamped with its first whole report, and the order of the walk is
\* that of the hours, if all names tell them, or else of the stamps.
Ordered ==
  /\ phase = "peek" => ~NamesTell /\ \A k \in Files \ unpeeked : Stamped(k)
  /\ phase \in {"walk", "done"} =>
       \/ NamesTell /\ order = SortedBy(Files, Hours)
       \/ ~NamesTell /\ order = SortedBy(Files, stamps) /\ \A k \in Files : Stamped(k)

IntakeInv == Typed /\ AtHand /\ InPlace /\ FoundIsWhole /\ Ordered

-----------------------------------------------------------------------------
(* What the input is like. *)

LEMMA InputFacts ==
  ASSUME input \in Inputs
  PROVE  /\ Len(entries) \in Nat /\ DOMAIN entries = 1..Len(entries)
         /\ \A e \in DOMAIN entries : IsEntry(entries[e])
         /\ IsFiniteSet(Files) /\ Files \subseteq Nat /\ NoKey \notin Files
         /\ \A k \in Files : IsFile(input.files[k], entries)
         /\ Rotated(input.files) /\ InOrder(entries)
         /\ NoTies(entries) \/ NamesTell
BY IntakeAssumption DEF entries, Files, NoKey, NamesTell

LEMMA FileFacts ==
  ASSUME input \in Inputs, NEW k \in Files
  PROVE  LET f == input.files[k]
         IN  /\ f.lines \in Seq(Nat \X Nat) /\ Len(f.lines) \in Nat
             /\ f.readable \in 0..Len(f.lines)
             /\ f.hour \in Nat \cup {NoHour}
             /\ \A n \in 1..Len(f.lines) :
                  /\ f.lines[n] \in Nat \X Nat
                  /\ f.lines[n][1] \in DOMAIN entries /\ f.lines[n][1] \in Nat
                  /\ f.lines[n][2] \in Nat \ {0}
             /\ \A m, n \in 1..Len(f.lines) : m < n => Precedes(f.lines[m], f.lines[n])
             /\ \A n \in 1..(Len(f.lines) - 1) :
                  f.lines[n + 1][2] # 1 => f.lines[n + 1] = <<f.lines[n][1], f.lines[n][2] + 1>>
<1> DEFINE f == input.files[k]
<1>1. IsFile(f, entries)
  BY InputFacts
<1> HIDE DEF f
<1>2. /\ f.lines \in Seq(Nat \X Nat) /\ Len(f.lines) \in Nat
      /\ \A n \in 1..Len(f.lines) : f.lines[n] \in Nat \X Nat
  BY <1>1, LenProperties DEF IsFile, IsPart
<1>3. \A n \in 1..Len(f.lines) : /\ f.lines[n][1] \in DOMAIN entries /\ f.lines[n][1] \in Nat
                                 /\ f.lines[n][2] \in Nat \ {0}
  <2> TAKE n \in 1..Len(f.lines)
  <2>1. /\ f.lines[n][1] \in DOMAIN entries
        /\ f.lines[n][2] \in 1..entries[f.lines[n][1]].span
    BY <1>1 DEF IsFile, IsPart
  <2>2. f.lines[n][1] \in Nat /\ f.lines[n][2] \in Nat
    BY <1>2
  <2>3. entries[f.lines[n][1]].span \in Nat
    BY <2>1, InputFacts DEF IsEntry
  <2> QED BY <2>1, <2>2, <2>3
<1>4. QED
  BY <1>1, <1>2, <1>3 DEF IsFile, IsPart, f

LEMMA EntryFacts ==
  ASSUME input \in Inputs, NEW e \in DOMAIN entries
  PROVE  /\ e \in Nat
         /\ entries[e].kind \in Kind
         /\ entries[e].batch \in Nat /\ entries[e].ts \in Nat
         /\ entries[e].body \in Nat \ {0}
         /\ Report(e) \in AReport
<1>1. e \in Nat /\ IsEntry(entries[e])
  BY InputFacts
<1> QED BY <1>1 DEF IsEntry, Report, AReport

LEMMA WholeIsFinite ==
  ASSUME input \in Inputs, NEW k, NEW d
  PROVE  /\ WholeAmong(k, d) \in SUBSET Nat
         /\ WholeAmong(k, d) \subseteq DOMAIN entries
         /\ IsFiniteSet(WholeAmong(k, d))
<1>1. WholeAmong(k, d) \in SUBSET DOMAIN entries
  BY DEF WholeAmong
<1>2. IsFiniteSet(DOMAIN entries) /\ DOMAIN entries \subseteq Nat
  BY InputFacts, FS_Interval
<1> QED BY <1>1, <1>2, FS_Subset

-----------------------------------------------------------------------------
(* An entry at its end. *)

\* What the parser makes of the lines at hand is whether they hold a report as
\* a whole; nothing that comes later adds to it.
LEMMA EntryIsJudged ==
  ASSUME Typed, AtHand, body # NoKey, EntryEnds, NEW e, e = Head(current)[1]
  PROVE  /\ e \in DOMAIN entries
         /\ line = Readable \/ IsHeader(Lines[line + 1])
         /\ Verdict(current) = "valid" =>
              /\ WholeAmong(body, line) = WholeAmong(body, Settled) \cup {e}
              /\ \A d \in WholeAmong(body, Settled) : d < e
         /\ Verdict(current) # "valid" => WholeAmong(body, line) = WholeAmong(body, Settled)
         /\ \A n \in 1..Len(Lines) : /\ n <= Settled => Lines[n][1] < e
                                     /\ n > Settled => Lines[n][1] >= e
<1> DEFINE b == Len(current)
           s == Settled
           l == input.files[body].lines
           a == current[1][2]
<1>1. body \in Files /\ input \in Inputs
  BY DEF Typed
<1>2. /\ b \in Nat \ {0} /\ s \in Nat /\ line = s + b /\ line <= Readable
      /\ Readable \in Nat /\ Readable <= Len(l) /\ Len(l) \in Nat
      /\ line \in Nat
  <2>1. b \in Nat \ {0} /\ line \in b..Readable
    BY EmptySeq DEF Typed, AtHand, EntryEnds
  <2>2. Readable \in 0..Len(l) /\ Len(l) \in Nat
    BY <1>1, FileFacts DEF Readable
  <2> QED BY <2>1, <2>2 DEF Settled
<1>3. e = current[1][1] /\ current[1] = <<e, a>> /\ current[1] = l[s + 1]
  <2>1. current[1] = Lines[s + 1] /\ current[1] = <<current[1][1], current[1][2] + (1 - 1)>>
    BY <1>2 DEF AtHand
  <2>2. Head(current) = current[1]
    BY <1>2 DEF Typed
  <2>3. current[1] \in Nat \X Nat
    BY <1>2, ElementOfSeq DEF Typed
  <2> QED BY <2>1, <2>2, <2>3 DEF Lines
<1>4. e \in DOMAIN entries /\ e \in Nat /\ a \in Nat \ {0}
  <2>1. s + 1 \in 1..Len(l)
    BY <1>2
  <2>2. l[s + 1][1] \in DOMAIN entries /\ l[s + 1][1] \in Nat /\ l[s + 1][2] \in Nat \ {0}
    BY <1>1, <2>1, FileFacts
  <2> QED BY <1>3, <2>2
<1>5. \A n \in (s + 1)..line : n \in 1..Len(l) /\ l[n] = <<e, a + (n - s) - 1>>
  <2> TAKE n \in (s + 1)..line
  <2>1. n - s \in 1..b /\ s + (n - s) = n
    BY <1>2
  <2>2. \A m \in 1..b : current[m] = l[s + m] /\ current[m] = <<e, a + (m - 1)>>
    BY <1>3 DEF AtHand, Lines
  <2>3. l[s + (n - s)] = <<e, a + ((n - s) - 1)>>
    BY <2>1, <2>2
  <2>4. n \in 1..Len(l) /\ s + (n - s) = n
    BY <1>2
  <2>5. a + ((n - s) - 1) = a + (n - s) - 1
    BY <1>2, <1>4
  <2>6. l[n] = l[s + (n - s)]
    BY <2>4
  <2> HIDE DEF s, b, l, a
  <2> QED BY <2>3, <2>4, <2>5, <2>6
<1>6. s = 0 \/ a = 1
  <2>1. s # Readable
    BY <1>2
  <2>2. s = 0 \/ IsHeader(Lines[s + 1])
    BY <2>1 DEF AtHand
  <2> QED BY <1>3, <2>2 DEF IsHeader, Lines
<1>7. \A n \in 1..s : n \in 1..Len(l) /\ l[n][1] \in Nat /\ l[n][1] < e
  <2> TAKE n \in 1..s
  <2>1. n \in 1..Len(l) /\ s + 1 \in 1..Len(l) /\ n < s + 1 /\ s # 0
    BY <1>2
  <2>2. Precedes(l[n], l[s + 1]) /\ l[n][1] \in Nat /\ l[n][2] \in Nat \ {0}
    BY <1>1, <2>1, FileFacts
  <2>3. l[s + 1][1] = e /\ l[s + 1][2] = 1
    BY <1>3, <1>6, <2>1
  <2> QED BY <1>4, <2>1, <2>2, <2>3 DEF Precedes
<1> HIDE DEF s, b, l, a
<1>8. line = Readable \/ IsHeader(Lines[line + 1])
  BY DEF EntryEnds, AtEnd
<1>9. \A d \in DOMAIN entries \ {e} : d \in WholeAmong(body, line) <=> d \in WholeAmong(body, s)
  <2> TAKE d \in DOMAIN entries \ {e}
  <2>1. \A i : \A n \in 1..line : l[n] = <<d, i>> => n \in 1..s
    <3> TAKE i
    <3> TAKE n \in 1..line
    <3> HAVE l[n] = <<d, i>>
    <3>1. l[n][1] = d
      OBVIOUS
    <3>2. n \notin (s + 1)..line
      BY <1>5, <3>1
    <3> QED BY <1>2, <3>2
  <2>2. \A n \in 1..s : n \in 1..line
    BY <1>2
  <2> QED BY <2>1, <2>2 DEF WholeAmong, l
<1>10. \A d \in WholeAmong(body, s) : d < e
  <2> TAKE d \in WholeAmong(body, s)
  <2>1. d \in DOMAIN entries /\ entries[d].body \in Nat \ {0}
    BY <1>1, EntryFacts DEF WholeAmong
  <2>2. PICK n \in 1..s : l[n] = <<d, 1>>
    <3>1. 1 \in 1..entries[d].body
      BY <2>1
    <3> QED BY <3>1 DEF WholeAmong, l
  <2> QED BY <1>7, <2>2
<1>11. e \in WholeAmong(body, line) <=>
         entries[e].kind = "valid" /\ a = 1 /\ entries[e].body <= b
  <2> DEFINE w == entries[e].body
  <2>1. w \in Nat \ {0}
    BY <1>1, <1>4, EntryFacts
  <2> HIDE DEF w
  <2>2. ASSUME e \in WholeAmong(body, line)
        PROVE  entries[e].kind = "valid" /\ a = 1 /\ w <= b
    <3>1. \A i \in 1..w : \E n \in 1..line : l[n] = <<e, i>>
      BY <2>2 DEF WholeAmong, l, w
    <3>2. \A i \in 1..w : i \in Nat /\ \E n \in (s + 1)..line : i = a + (n - s) - 1
      <4> TAKE i \in 1..w
      <4>1. PICK n \in 1..line : l[n] = <<e, i>>
        BY <3>1
      <4>2. l[n][1] = e /\ l[n][2] = i
        BY <4>1
      <4>3. n \notin 1..s
        BY <1>4, <1>7, <4>2
      <4>4. n \in (s + 1)..line
        BY <1>2, <4>3
      <4>5. l[n][2] = a + (n - s) - 1
        BY <1>5, <4>4
      <4> QED BY <2>1, <4>2, <4>4, <4>5
    <3>3. a = 1
      <4>1. 1 \in 1..w
        BY <2>1
      <4> QED BY <1>2, <1>4, <3>2, <4>1
    <3>4. w <= b
      <4>1. w \in 1..w
        BY <2>1
      <4> QED BY <1>2, <1>4, <2>1, <3>2, <3>3, <4>1
    <3> QED BY <2>2, <3>3, <3>4 DEF WholeAmong
  <2>3. ASSUME entries[e].kind = "valid", a = 1, w <= b
        PROVE  e \in WholeAmong(body, line)
    <3>1. \A i \in 1..w : \E n \in 1..line : l[n] = <<e, i>>
      <4> TAKE i \in 1..w
      <4>1. s + i \in (s + 1)..line /\ s + i \in 1..line /\ a + ((s + i) - s) - 1 = i
        BY <1>2, <2>1, <2>3
      <4>2. l[s + i] = <<e, i>>
        BY <1>5, <4>1
      <4> QED BY <4>1, <4>2
    <3> QED BY <1>4, <2>3, <3>1 DEF WholeAmong, l, w
  <2> QED BY <2>2, <2>3 DEF w
<1>12. Verdict(current) = "valid" <=>
         entries[e].kind = "valid" /\ a = 1 /\ entries[e].body <= b
  <2>1. entries[e].body \in Nat
    BY <1>1, <1>4, EntryFacts
  <2>2. IsHeader(Head(current)) <=> a = 1
    <3>1. Head(current) = current[1]
      BY <1>2 DEF Typed, b
    <3> QED BY <3>1 DEF IsHeader, a
  <2>3. Verdict(current) = IF ~IsHeader(Head(current)) \/ entries[e].kind = "other" THEN "other"
                           ELSE IF b < entries[e].body THEN "malformed"
                           ELSE entries[e].kind
    BY DEF Verdict, b
  <2> QED BY <1>2, <2>1, <2>2, <2>3
<1>13. WholeAmong(body, line) \subseteq DOMAIN entries /\ WholeAmong(body, s) \subseteq DOMAIN entries
  BY DEF WholeAmong
<1>14. e \notin WholeAmong(body, s)
  BY <1>4, <1>10
<1>15. Verdict(current) = "valid" => WholeAmong(body, line) = WholeAmong(body, s) \cup {e}
  BY <1>4, <1>9, <1>11, <1>12, <1>13
<1>16. Verdict(current) # "valid" => WholeAmong(body, line) = WholeAmong(body, s)
  BY <1>9, <1>11, <1>12, <1>13, <1>14
<1>17. \A n \in 1..Len(l) : (n <= s => l[n][1] < e) /\ (n > s => l[n][1] >= e)
  <2> TAKE n \in 1..Len(l)
  <2>1. l[n][1] \in Nat /\ l[n][2] \in Nat
    BY <1>1, FileFacts DEF l
  <2>2. CASE n <= s
    BY <1>2, <1>7, <2>2
  <2>3. CASE n = s + 1
    BY <1>2, <1>3, <1>4, <2>3
  <2>4. CASE n > s + 1
    <3>1. s + 1 \in 1..Len(l) /\ s + 1 < n
      BY <1>2, <2>4
    <3>2. Precedes(l[s + 1], l[n])
      BY <1>1, <3>1, FileFacts DEF l
    <3>3. l[s + 1][1] = e
      BY <1>3
    <3> QED BY <1>2, <1>4, <2>1, <2>4, <3>2, <3>3 DEF Precedes
  <2> QED BY <1>2, <2>2, <2>3, <2>4
<1> QED BY <1>4, <1>8, <1>10, <1>15, <1>16, <1>17 DEF s, l, Lines

-----------------------------------------------------------------------------
(* The steps. *)

LEMMA IntakeInit == Init => IntakeInv
<1> SUFFICES ASSUME Init PROVE IntakeInv
  OBVIOUS
<1>1. input \in Inputs /\ FarFuture \in Nat /\ MaxMishaps \in Nat
  BY IntakeAssumption DEF Init, FarFuture
<1>2. Typed
  BY <1>1 DEF Init, Typed
<1>3. AtHand /\ InPlace /\ FoundIsWhole /\ Ordered
  BY DEF Init, AtHand, InPlace, FoundIsWhole, Ordered
<1> QED BY <1>2, <1>3 DEF IntakeInv

\* What the definitions of the invariant are made of, but for the lines.
LEMMA Unchanged ==
  ASSUME UNCHANGED input
  PROVE  /\ entries' = entries /\ Files' = Files
         /\ \A k, d : WholeAmong(k, d)' = WholeAmong(k, d)
         /\ \A S : ReportsOf(S)' = ReportsOf(S)
         /\ \A k : WholeReports(k)' = WholeReports(k)
         /\ \A k : WholeIn(k)' = WholeIn(k)
         /\ NamesTell' = NamesTell /\ Hours' = Hours
BY DEF entries, Files, WholeAmong, ReportsOf, Report, WholeReports, WholeIn, NamesTell, Hours

LEMMA HoursAreNumbers ==
  ASSUME input \in Inputs
  PROVE  Hours \in [Files -> Int]
<1>1. \A k \in Files : input.files[k].hour \in Int
  BY FileFacts DEF NoHour
<1> QED BY <1>1 DEF Hours, FarFuture

LEMMA OrderIsTyped ==
  ASSUME input \in Inputs, NEW rank \in [Files -> Int]
  PROVE  SortedBy(Files, rank) \in Seq(Files) /\ Len(SortedBy(Files, rank)) \in Nat
<1>1. Files \in SUBSET Int /\ IsFiniteSet(Files)
  BY InputFacts
<1> QED BY <1>1, SortedByProperties

LEMMA OrderByNameInv == IntakeInv /\ OrderByName => IntakeInv'
<1> SUFFICES ASSUME IntakeInv, OrderByName PROVE IntakeInv'
  OBVIOUS
<1> USE DEF IntakeInv
<1>1. input \in Inputs /\ UNCHANGED input /\ body = NoKey /\ handed = <<>>
  BY DEF Typed, OrderByName, InPlace
<1>2. order' = SortedBy(Files, Hours) /\ order' \in Seq(Files) /\ Len(order') \in Nat
  BY <1>1, HoursAreNumbers, OrderIsTyped DEF OrderByName
<1>3. Typed'
  BY <1>1, <1>2, Unchanged DEF OrderByName, reading, Typed
<1>4. AtHand'
  BY <1>1 DEF OrderByName, reading, AtHand
<1>5. InPlace' /\ FoundIsWhole'
  BY <1>1, <1>2 DEF OrderByName, reading, InPlace, FoundIsWhole
<1>6. Ordered'
  BY <1>1, <1>2, Unchanged DEF OrderByName, Ordered
<1> QED BY <1>3, <1>4, <1>5, <1>6

LEMMA StartPeekingInv == IntakeInv /\ StartPeeking => IntakeInv'
<1> SUFFICES ASSUME IntakeInv, StartPeeking PROVE IntakeInv'
  OBVIOUS
<1> USE DEF IntakeInv
<1>1. input \in Inputs /\ UNCHANGED input /\ body = NoKey /\ handed = <<>> /\ order = <<>>
  BY DEF Typed, StartPeeking, InPlace
<1>2. Typed'
  BY <1>1, Unchanged DEF StartPeeking, reading, Typed
<1>3. AtHand'
  BY <1>1 DEF StartPeeking, reading, AtHand
<1>4. InPlace' /\ FoundIsWhole'
  BY <1>1 DEF StartPeeking, reading, InPlace, FoundIsWhole
<1>5. Ordered'
  BY <1>1, Unchanged DEF StartPeeking, Ordered
<1> QED BY <1>2, <1>3, <1>4, <1>5

LEMMA OrderByStampInv == IntakeInv /\ OrderByStamp => IntakeInv'
<1> SUFFICES ASSUME IntakeInv, OrderByStamp PROVE IntakeInv'
  OBVIOUS
<1> USE DEF IntakeInv
<1>1. input \in Inputs /\ UNCHANGED input /\ body = NoKey /\ handed = <<>>
  BY DEF Typed, OrderByStamp, InPlace
<1>2. stamps \in [Files -> Int] /\ UNCHANGED stamps
  BY DEF Typed, OrderByStamp
<1>3. order' = SortedBy(Files, stamps) /\ order' \in Seq(Files) /\ Len(order') \in Nat
  BY <1>1, <1>2, OrderIsTyped DEF OrderByStamp
<1>4. Typed'
  BY <1>1, <1>3, Unchanged DEF OrderByStamp, reading, Typed
<1>5. AtHand'
  BY <1>1 DEF OrderByStamp, reading, AtHand
<1>6. InPlace' /\ FoundIsWhole'
  BY <1>1, <1>3 DEF OrderByStamp, reading, InPlace, FoundIsWhole
<1>7. Ordered'
  <2>1. \A k \in Files : Stamped(k)
    BY DEF Ordered, OrderByStamp
  <2>2. \A k \in Files : Stamped(k)'
    BY <1>1, <1>2, <2>1, Unchanged DEF Stamped
  <2> QED BY <1>1, <1>2, <1>3, <2>2, Unchanged DEF OrderByStamp, Ordered
<1> QED BY <1>4, <1>5, <1>6, <1>7

LEMMA OpenObjectInv == ASSUME IntakeInv, NEW k \in Files, OpenObject(k) PROVE IntakeInv'
<1> USE DEF IntakeInv
<1>1. /\ input \in Inputs /\ UNCHANGED input
      /\ body = NoKey /\ body' = k /\ body' # NoKey /\ k \in Files
  BY InputFacts DEF Typed, OpenObject
<1>2. line' = 0 /\ current' = <<>> /\ found' = <<>> /\ Settled' = 0
  <2>1. line = 0 /\ current = <<>> /\ found = <<>>
    BY <1>1 DEF AtHand
  <2>2. UNCHANGED <<line, current, found>>
    BY DEF OpenObject
  <2>3. Len(current') = 0
    BY <2>1, <2>2, EmptySeq
  <2>4. line' = 0 /\ Settled' = line' - Len(current')
    BY <2>1, <2>2 DEF Settled
  <2>5. Settled' = 0
    BY <2>3, <2>4
  <2> QED BY <2>1, <2>2, <2>5
<1>3. Typed'
  BY <1>1, Unchanged DEF OpenObject, Typed
<1>5. AtHand'
  <2>1. Readable' \in Nat
    BY <1>1, FileFacts DEF Readable
  <2> QED BY <1>1, <1>2, <2>1 DEF AtHand
<1>6. InPlace'
  <2>1. phase = "walk" => Len(handed) < Len(order) /\ k = order[Len(handed) + 1]
    BY DEF OpenObject, Due
  <2>2. phase = "peek" => k \in unpeeked
    BY DEF OpenObject, Due
  <2>3. phase \in {"peek", "walk"}
    BY DEF OpenObject, Due
  <2> QED BY <1>1, <2>1, <2>2, <2>3 DEF OpenObject, InPlace
<1>7. WholeAmong(k, 0) = {}
  <2>1. \A e \in DOMAIN entries : 1 \in 1..entries[e].body
    BY <1>1, EntryFacts
  <2> QED BY <2>1 DEF WholeAmong
<1>8. FoundIsWhole'
  <2>1. \A f \in 1..Len(handed) : handed[f] = WholeReports(order[f])
    BY DEF FoundIsWhole
  <2>2. \A f \in 1..Len(handed) : WholeReports(order[f])' = WholeReports(order[f])
    BY <1>1 DEF OpenObject, WholeReports, WholeIn, WholeAmong, ReportsOf, Report, entries
  <2>3. WholeAmong(body, Settled)' = {}
    BY <1>1, <1>2, <1>7 DEF WholeAmong, entries
  <2>4. ReportsOf(WholeAmong(body, Settled))' = <<>>
    BY <1>1, <2>3, ReportsOfNone DEF ReportsOf, Report, entries
  <2>5. \A f \in 1..Len(handed)' : handed'[f] = WholeReports(order[f])'
    BY <2>1, <2>2 DEF OpenObject
  <2> QED BY <1>2, <2>3, <2>4, <2>5 DEF FoundIsWhole
<1>9. Ordered'
  BY <1>1, Unchanged DEF OpenObject, Ordered, Stamped
<1> QED BY <1>3, <1>5, <1>6, <1>8, <1>9

\* As long as the order and what was handed over stay, so does what is known of
\* them.
LEMMA HandedStays ==
  ASSUME UNCHANGED <<input, handed, order>>, FoundIsWhole
  PROVE  \A f \in 1..Len(handed') : handed'[f] = WholeReports(order[f])'
<1>1. \A f \in 1..Len(handed) : handed[f] = WholeReports(order[f])
  BY DEF FoundIsWhole
<1>2. \A f \in 1..Len(handed) : WholeReports(order[f])' = WholeReports(order[f])
  BY DEF WholeReports, WholeIn, WholeAmong, ReportsOf, Report, entries
<1> QED BY <1>1, <1>2

LEMMA OrderedStays ==
  ASSUME UNCHANGED <<input, phase, unpeeked, stamps, order>>, Ordered
  PROVE  Ordered'
<1>1. \A k \in Files : Stamped(k)' <=> Stamped(k)
  BY DEF Stamped, WholeIn, WholeAmong, entries
<1> QED BY <1>1, Unchanged DEF Ordered

LEMMA ReadLineInv == IntakeInv /\ ReadLine => IntakeInv'
<1> SUFFICES ASSUME IntakeInv, ReadLine PROVE IntakeInv'
  OBVIOUS
<1> DEFINE b == Len(current)
           s == Settled
           l == input.files[body].lines
<1> USE DEF IntakeInv
<1>1. /\ input \in Inputs /\ UNCHANGED input
      /\ body \in Files /\ UNCHANGED body /\ body # NoKey
  BY InputFacts DEF Typed, ReadLine
<1>2. /\ b \in Nat /\ s \in Nat /\ line = s + b /\ line < Readable
      /\ Readable \in Nat /\ Readable <= Len(l) /\ Len(l) \in Nat
      /\ line \in Nat
  <2>1. b \in Nat /\ line \in b..Readable /\ line # Readable
    BY <1>1, LenProperties DEF Typed, AtHand, ReadLine, AtEnd
  <2>2. Readable \in 0..Len(l) /\ Len(l) \in Nat
    BY <1>1, FileFacts DEF Readable
  <2> QED BY <2>1, <2>2 DEF Settled
<1>3. line + 1 \in 1..Len(l) /\ l[line + 1] \in Nat \X Nat
  <2>1. line + 1 \in 1..Len(l)
    BY <1>2
  <2> QED BY <1>1, <2>1, FileFacts
<1>4. /\ line' = line + 1 /\ current' = Append(current, l[line + 1])
      /\ Lines' = l /\ Readable' = Readable /\ Lines = l
  BY <1>1 DEF ReadLine, Lines, Readable
<1>5. /\ current' \in Seq(Nat \X Nat) /\ Len(current') = b + 1
      /\ \A n \in 1..b : current'[n] = current[n]
      /\ current'[b + 1] = l[line + 1]
  <2>1. current \in Seq(Nat \X Nat)
    BY DEF Typed
  <2> HIDE DEF l
  <2> QED BY <1>3, <1>4, <2>1, AppendProperties
<1>6. Settled' = s
  BY <1>2, <1>4, <1>5 DEF Settled
<1>7. Typed'
  <2>1. line' \in Nat /\ current' \in Seq(Nat \X Nat)
    BY <1>2, <1>4, <1>5
  <2>2. UNCHANGED <<input, phase, unpeeked, stamps, order, body, found, handed, mishaps>>
    BY DEF ReadLine
  <2> QED BY <2>1, <2>2, Unchanged DEF Typed
<1>9. current # <<>> => l[line + 1] = <<current[1][1], current[1][2] + b>>
  <2> SUFFICES ASSUME current # <<>> PROVE l[line + 1] = <<current[1][1], current[1][2] + b>>
    OBVIOUS
  <2>1. b \in Nat \ {0}
    BY EmptySeq DEF Typed
  <2>2. l[line + 1][2] # 1
    BY <1>4 DEF ReadLine, EntryEnds, AtEnd, IsHeader
  <2>3. line \in 1..(Len(l) - 1)
    BY <1>2, <2>1
  <2>4. l[line + 1] = <<l[line][1], l[line][2] + 1>>
    BY <1>1, <2>2, <2>3, FileFacts
  <2>5. b \in 1..b /\ s + b = line
    BY <1>2, <2>1
  <2>6. current[b] = l[line] /\ current[b] = <<current[1][1], current[1][2] + (b - 1)>>
    BY <1>1, <1>4, <2>5 DEF AtHand
  <2>7. current[1][2] \in Nat
    BY <2>1, ElementOfSeq DEF Typed
  <2>8. current[1][2] + (b - 1) + 1 = current[1][2] + b
    BY <2>1, <2>7
  <2>9. l[line][1] = current[1][1] /\ l[line][2] = current[1][2] + (b - 1)
    BY <2>6
  <2> HIDE DEF b, l
  <2> QED BY <2>4, <2>8, <2>9
<1>10. AtHand'
  <2>1. line' \in Len(current')..Readable'
    BY <1>2, <1>4, <1>5
  <2>2. \A n \in 1..Len(current') : current'[n] = l[s + n]
    <3>1. \A n \in 1..b : current[n] = l[s + n]
      BY <1>1, <1>4 DEF AtHand
    <3>2. s + (b + 1) = line + 1
      BY <1>2
    <3> TAKE n \in 1..Len(current')
    <3>3. n \in 1..b \/ n = b + 1
      BY <1>2, <1>5
    <3> HIDE DEF b, l, s
    <3> QED BY <1>5, <3>1, <3>2, <3>3
  <2>3. \A n \in 1..Len(current') :
          current'[n] = <<current'[1][1], current'[1][2] + (n - 1)>>
    <3>1. CASE current = <<>>
      <4>1. b = 0 /\ current'[1] \in Nat \X Nat
        BY <1>3, <1>5, <3>1
      <4> QED BY <1>5, <4>1
    <3>2. CASE current # <<>>
      <4>1. b \in Nat \ {0} /\ current'[1] = current[1]
        BY <1>5, <3>2, EmptySeq DEF Typed
      <4>2. \A n \in 1..b : current[n] = <<current[1][1], current[1][2] + (n - 1)>>
        BY <1>1 DEF AtHand
      <4>3. current'[b + 1] = <<current[1][1], current[1][2] + ((b + 1) - 1)>>
        BY <1>5, <1>9, <3>2, <4>1
      <4> TAKE n \in 1..Len(current')
      <4>4. n \in 1..b \/ n = b + 1
        BY <1>2, <1>5
      <4> HIDE DEF b, l, s
      <4> QED BY <1>5, <4>1, <4>2, <4>3, <4>4
    <3> QED BY <3>1, <3>2
  <2>4. s = 0 \/ s = Readable \/ IsHeader(l[s + 1])
    BY <1>1, <1>4 DEF AtHand
  <2> HIDE DEF b, l, s
  <2> QED BY <1>1, <1>4, <1>6, <2>1, <2>2, <2>3, <2>4 DEF AtHand, IsHeader
<1>11. InPlace'
  BY <1>1 DEF ReadLine, InPlace
<1>12. FoundIsWhole'
  <2>1. UNCHANGED <<phase, found, WholeAmong(body, Settled), ReportsOf(WholeAmong(body, Settled))>>
    BY <1>1, <1>6 DEF ReadLine, WholeAmong, ReportsOf, Report, entries
  <2>2. \A f \in 1..Len(handed') : handed'[f] = WholeReports(order[f])'
    BY HandedStays DEF ReadLine
  <2> QED BY <1>1, <2>1, <2>2 DEF FoundIsWhole
<1>13. Ordered'
  BY OrderedStays DEF ReadLine
<1> QED BY <1>7, <1>10, <1>11, <1>12, <1>13

\* When an entry has been dealt with, reading goes on behind it.
LEMMA NextEntry ==
  ASSUME Typed, AtHand, body # NoKey, EntryEnds,
         current' = <<>>, UNCHANGED <<input, body, line>>
  PROVE  /\ Settled' = line /\ Head(current)[1] \in DOMAIN entries
         /\ Lines' = Lines /\ Readable' = Readable
         /\ AtHand'
<1>1. line \in Nat /\ Len(current') = 0 /\ line' = line
  BY EmptySeq DEF Typed
<1>2. Settled' = line
  BY <1>1 DEF Settled
<1>3. /\ Head(current)[1] \in DOMAIN entries
      /\ line = Readable \/ IsHeader(Lines[line + 1])
  <2> DEFINE e == Head(current)[1]
  <2>1. PICK d : d = e
    OBVIOUS
  <2> HIDE DEF e
  <2>2. d \in DOMAIN entries /\ (line = Readable \/ IsHeader(Lines[line + 1]))
    BY <2>1, EntryIsJudged DEF e
  <2> QED BY <2>1, <2>2 DEF e
<1>4. Lines' = Lines /\ Readable' = Readable
  BY DEF Lines, Readable
<1>5. line' \in Len(current')..Readable' /\ Len(current') = 0
  <2>1. Readable \in Nat
    BY FileFacts DEF Readable, Typed
  <2>2. line <= Readable
    BY DEF AtHand
  <2> QED BY <1>1, <1>4, <2>1, <2>2
<1>6. AtHand'
  <2>1. body' # NoKey
    OBVIOUS
  <2>2. Settled' = 0 \/ Settled' = Readable' \/ IsHeader(Lines[Settled + 1])'
    BY <1>2, <1>3, <1>4 DEF IsHeader
  <2>3. \A n \in 1..Len(current') : FALSE
    BY <1>5
  <2> QED BY <1>5, <2>1, <2>2, <2>3 DEF AtHand
<1> QED BY <1>2, <1>3, <1>4, <1>6

LEMMA SkipEntryInv == IntakeInv /\ SkipEntry => IntakeInv'
<1> SUFFICES ASSUME IntakeInv, SkipEntry PROVE IntakeInv'
  OBVIOUS
<1> USE DEF IntakeInv
<1>1. /\ input \in Inputs /\ body # NoKey /\ EntryEnds /\ current' = <<>>
      /\ UNCHANGED <<input, phase, unpeeked, stamps, order, body, line, found, handed, mishaps>>
  BY DEF Typed, SkipEntry
<1>2. Settled' = line /\ AtHand'
  BY <1>1, NextEntry
<1>3. Typed' /\ InPlace'
  BY <1>1, EmptySeq, Unchanged DEF Typed, InPlace
<1>4. WholeAmong(body, line) = WholeAmong(body, Settled)
  <2>1. Verdict(current) # "valid"
    BY DEF SkipEntry
  <2> QED BY <1>1, <2>1, EntryIsJudged
<1>5. FoundIsWhole'
  <2>1. UNCHANGED <<phase, found, WholeAmong(body, Settled), ReportsOf(WholeAmong(body, Settled))>>
    <3>1. WholeAmong(body, Settled)' = WholeAmong(body, line)
      BY <1>1, <1>2 DEF WholeAmong, entries
    <3>2. ReportsOf(WholeAmong(body, Settled))' = ReportsOf(WholeAmong(body, line))
      BY <1>1, <3>1 DEF ReportsOf, Report, entries
    <3> QED BY <1>1, <1>4, <3>1, <3>2
  <2>2. \A f \in 1..Len(handed') : handed'[f] = WholeReports(order[f])'
    BY <1>1, HandedStays
  <2> QED BY <1>1, <2>1, <2>2 DEF FoundIsWhole
<1>6. Ordered'
  BY <1>1, OrderedStays
<1> QED BY <1>2, <1>3, <1>5, <1>6

LEMMA KeepRecordInv == IntakeInv /\ KeepRecord => IntakeInv'
<1> SUFFICES ASSUME IntakeInv, KeepRecord PROVE IntakeInv'
  OBVIOUS
<1> USE DEF IntakeInv
<1>1. /\ input \in Inputs /\ body # NoKey /\ EntryEnds /\ current' = <<>> /\ phase = "walk"
      /\ Verdict(current) = "valid"
      /\ found' = Append(found, Report(Head(current)[1]))
      /\ UNCHANGED <<input, phase, unpeeked, stamps, order, body, line, handed, mishaps>>
  BY DEF Typed, KeepRecord
<1>2. Settled' = line /\ AtHand'
  BY <1>1, NextEntry
<1>3. PICK e : e = Head(current)[1]
  OBVIOUS
<1>4. e \in DOMAIN entries /\ e \in Nat /\ Report(e) \in AReport
  BY <1>1, <1>3, EntryIsJudged, EntryFacts
<1>5. Typed' /\ InPlace'
  <2>1. found' \in Seq(AReport)
    BY <1>1, <1>3, <1>4, AppendProperties DEF Typed
  <2> QED BY <1>1, <2>1, EmptySeq, Unchanged DEF Typed, InPlace
<1>6. PICK W : W = WholeAmong(body, Settled)
  OBVIOUS
<1>7. /\ WholeAmong(body, line) = W \cup {e}
      /\ \A d \in W : d < e
  BY <1>1, <1>3, <1>6, EntryIsJudged
<1>8. W \in SUBSET Nat /\ IsFiniteSet(W) /\ W \subseteq DOMAIN entries
  BY <1>1, <1>6, WholeIsFinite
<1>9. \A d \in W \cup {e} : Report(d) \in AReport
  BY <1>1, <1>4, <1>8, EntryFacts
<1>10. ReportsOf(W \cup {e}) = Append(ReportsOf(W), Report(e))
  BY <1>4, <1>7, <1>8, <1>9, ReportsAppend
<1>11. FoundIsWhole'
  <2>1. found = ReportsOf(W)
    BY <1>1, <1>6 DEF FoundIsWhole
  <2>2. found' = ReportsOf(WholeAmong(body, line))
    BY <1>1, <1>3, <1>7, <1>10, <2>1
  <2>3. WholeAmong(body, Settled)' = WholeAmong(body, line)
    BY <1>1, <1>2 DEF WholeAmong, entries
  <2>4. ReportsOf(WholeAmong(body, Settled))' = ReportsOf(WholeAmong(body, line))
    BY <1>1, <2>3 DEF ReportsOf, Report, entries
  <2>5. \A f \in 1..Len(handed') : handed'[f] = WholeReports(order[f])'
    BY <1>1, HandedStays
  <2> QED BY <1>1, <2>2, <2>4, <2>5 DEF FoundIsWhole
<1>12. Ordered'
  BY <1>1, OrderedStays
<1> QED BY <1>2, <1>5, <1>11, <1>12

\* If no report before the entry at hand is whole, it is the first one that is.
LEMMA FirstOfItsFile ==
  ASSUME Typed, AtHand, body # NoKey, EntryEnds, Verdict(current) = "valid",
         WholeAmong(body, Settled) = {}, NEW e, e = Head(current)[1]
  PROVE  e \in WholeIn(body) /\ \A d \in WholeIn(body) : e <= d
<1>1. /\ body \in Files /\ input \in Inputs
      /\ Readable \in Nat /\ line \in Nat /\ line <= Readable /\ Settled \in Int
      /\ Readable <= Len(Lines) /\ Len(Lines) \in Nat
  <2>1. body \in Files /\ input \in Inputs /\ line \in Nat
    BY DEF Typed
  <2>2. Readable \in 0..Len(Lines) /\ Len(Lines) \in Nat
    BY <2>1, FileFacts DEF Readable, Lines
  <2>3. line <= Readable /\ Len(current) \in Nat
    BY LenProperties DEF Typed, AtHand
  <2> QED BY <2>1, <2>2, <2>3 DEF Settled
<1>2. e \in WholeAmong(body, line) /\ e \in Nat
  BY <1>1, EntryIsJudged, EntryFacts
<1>3. e \in WholeIn(body)
  <2>1. \A n \in 1..line : n \in 1..Readable
    BY <1>1
  <2> QED BY <1>2, <2>1 DEF WholeAmong, WholeIn, Readable
<1>4. \A n \in 1..Len(Lines) : /\ n <= Settled => Lines[n][1] < e
                               /\ n > Settled => Lines[n][1] >= e
  BY EntryIsJudged
<1>5. ASSUME NEW d \in WholeIn(body)
      PROVE  e <= d
  <2>1. d \in DOMAIN entries /\ d \in Nat
    BY <1>1, <1>5, InputFacts DEF WholeIn, WholeAmong
  <2>2. SUFFICES ASSUME d < e PROVE FALSE
    BY <1>2, <2>1
  <2>3. \A i \in 1..entries[d].body : \E n \in 1..Settled : Lines[n] = <<d, i>>
    <3> TAKE i \in 1..entries[d].body
    <3>1. PICK n \in 1..Readable : Lines[n] = <<d, i>>
      BY <1>5 DEF WholeIn, WholeAmong, Readable, Lines
    <3>2. n \in 1..Len(Lines) /\ Lines[n][1] = d
      BY <1>1, <3>1
    <3>3. n > Settled => d >= e
      BY <1>4, <3>2
    <3>4. n \in 1..Settled
      BY <1>1, <1>2, <2>1, <2>2, <3>1, <3>3
    <3> QED BY <3>1, <3>4
  <2>4. d \in WholeAmong(body, Settled)
    BY <1>5, <2>1, <2>3 DEF WholeIn, WholeAmong, Lines
  <2> QED BY <2>4
<1> QED BY <1>3, <1>5

LEMMA StampFileInv == IntakeInv /\ StampFile => IntakeInv'
<1> SUFFICES ASSUME IntakeInv, StampFile PROVE IntakeInv'
  OBVIOUS
<1> USE DEF IntakeInv
<1>1. /\ input \in Inputs /\ body # NoKey /\ EntryEnds /\ phase = "peek"
      /\ body \in Files /\ body \in unpeeked
      /\ Verdict(current) = "valid"
      /\ stamps' = [stamps EXCEPT ![body] = entries[Head(current)[1]].ts]
      /\ unpeeked' = unpeeked \ {body}
      /\ body' = NoKey /\ line' = 0 /\ current' = <<>> /\ found' = <<>>
      /\ UNCHANGED <<input, phase, order, handed, mishaps>>
  BY DEF Typed, StampFile, NothingRead, InPlace
<1>2. PICK e : e = Head(current)[1]
  OBVIOUS
<1>3. e \in DOMAIN entries /\ entries[e].ts \in Nat
  BY <1>1, <1>2, EntryIsJudged, EntryFacts
<1>4. stamps' \in [Files -> Nat] /\ stamps'[body] = entries[e].ts
      /\ \A k \in Files \ {body} : stamps'[k] = stamps[k]
  BY <1>1, <1>2, <1>3 DEF Typed
<1>5. Typed'
  BY <1>1, <1>4, EmptySeq, Unchanged DEF Typed
<1>6. AtHand' /\ InPlace'
  BY <1>1 DEF AtHand, InPlace
<1>7. FoundIsWhole'
  <2>1. \A f \in 1..Len(handed') : handed'[f] = WholeReports(order[f])'
    BY <1>1, HandedStays
  <2> QED BY <1>1, <2>1 DEF FoundIsWhole
<1>8. Ordered'
  <2>1. \A j \in Files' \ unpeeked' : Stamped(j)'
    <3>1. PICK k : k = body
      OBVIOUS
    <3>2. e \in WholeIn(k) /\ \A d \in WholeIn(k) : e <= d
      <4>1. WholeAmong(body, Settled) = {}
        BY <1>1 DEF FoundIsWhole
      <4> QED BY <1>1, <1>2, <3>1, <4>1, FirstOfItsFile
    <3>3. stamps'[k] = entries'[e].ts /\ WholeIn(k)' = WholeIn(k)
      BY <1>1, <1>4, <3>1, Unchanged DEF entries
    <3>4. \A j \in Files' \ unpeeked' : j = k \/ j \in Files \ unpeeked
      BY <1>1, <3>1, Unchanged
    <3>5. \A j \in Files \ unpeeked : Stamped(j)'
      <4> TAKE j \in Files \ unpeeked
      <4>1. Stamped(j) /\ j \in Files \ {body}
        BY <1>1 DEF Ordered
      <4> QED BY <1>1, <1>4, <4>1, Unchanged DEF Stamped
    <3>6. \A j : j = k => Stamped(j)'
      BY <3>2, <3>3 DEF Stamped
    <3> HIDE DEF IntakeInv
    <3> QED BY <3>4, <3>5, <3>6
  <2>2. ~NamesTell'
    BY <1>1, Unchanged DEF Ordered
  <2> QED BY <1>1, <2>1, <2>2 DEF Ordered
<1> QED BY <1>5, <1>6, <1>7, <1>8

LEMMA EndOfBodyInv == IntakeInv /\ EndOfBody => IntakeInv'
<1> SUFFICES ASSUME IntakeInv, EndOfBody PROVE IntakeInv'
  OBVIOUS
<1> USE DEF IntakeInv
<1>1. /\ input \in Inputs /\ body \in Files /\ body # NoKey
      /\ line = Readable /\ current = <<>>
      /\ body' = NoKey /\ line' = 0 /\ current' = <<>> /\ found' = <<>>
      /\ UNCHANGED <<input, phase, stamps, order, mishaps>>
  BY DEF Typed, EndOfBody, NothingRead, AtEnd
<1>2. phase \in {"walk", "peek"}
  BY <1>1 DEF InPlace, Typed
<1>3. /\ phase = "walk" => handed' = Append(handed, found) /\ unpeeked' = unpeeked
      /\ phase = "peek" => unpeeked' = unpeeked \ {body} /\ handed' = handed
  BY DEF EndOfBody
<1>4. Settled = Readable
  <2>1. Readable \in Nat
    BY <1>1, FileFacts DEF Readable
  <2> QED BY <1>1, <2>1, EmptySeq DEF Settled
<1>5. WholeAmong(body, Settled) = WholeIn(body)
  BY <1>4 DEF WholeIn, Readable
<1>6. AtHand'
  BY <1>1 DEF AtHand
<1>7. CASE phase = "walk"
  <2>1. /\ handed \in Seq(Seq(AReport)) /\ Len(handed) \in Nat /\ found \in Seq(AReport)
        /\ Len(order) \in Nat
    BY LenProperties DEF Typed
  <2>2. /\ handed' \in Seq(Seq(AReport)) /\ Len(handed') = Len(handed) + 1
        /\ \A f \in 1..Len(handed) : handed'[f] = handed[f]
        /\ handed'[Len(handed) + 1] = found
    <3>1. /\ Append(handed, found) \in Seq(Seq(AReport))
          /\ Len(Append(handed, found)) = Len(handed) + 1
          /\ \A f \in 1..Len(handed) : Append(handed, found)[f] = handed[f]
          /\ Append(handed, found)[Len(handed) + 1] = found
      <4>1. /\ Append(handed, found) \in Seq(Seq(AReport))
            /\ Len(Append(handed, found)) = Len(handed) + 1
            /\ Append(handed, found)[Len(handed) + 1] = found
        BY <2>1, AppendProperties
      <4>2. \A f \in 1..Len(handed) : Append(handed, found)[f] = handed[f]
        BY <2>1, AppendProperties
      <4> QED BY <4>1, <4>2
    <3>2. handed' = Append(handed, found)
      BY <1>3, <1>7
    <3> QED BY <3>1, <3>2
  <2>3. Typed'
    BY <1>1, <1>3, <1>7, <2>2, EmptySeq, Unchanged DEF Typed
  <2>4. /\ Len(handed) < Len(order) /\ body = order[Len(handed) + 1]
        /\ found = WholeReports(body)
    BY <1>1, <1>5, <1>7 DEF InPlace, FoundIsWhole, WholeReports
  <2>5. InPlace'
    BY <1>1, <1>7, <2>1, <2>2, <2>4 DEF InPlace
  <2>6. FoundIsWhole'
    <3>1. \A f \in 1..Len(handed') : handed'[f] = WholeReports(order[f])
      <4> TAKE f \in 1..Len(handed')
      <4>1. f \in 1..Len(handed) \/ f = Len(handed) + 1
        BY <2>1, <2>2
      <4> QED BY <2>2, <2>4, <4>1 DEF FoundIsWhole
    <3>2. \A f \in 1..Len(handed') : WholeReports(order[f])' = WholeReports(order[f])
      BY <1>1 DEF WholeReports, WholeIn, WholeAmong, ReportsOf, Report, entries
    <3> QED BY <1>1, <3>1, <3>2 DEF FoundIsWhole
  <2>7. Ordered'
    BY <1>1, <1>3, <1>7, OrderedStays
  <2> QED BY <1>6, <2>3, <2>5, <2>6, <2>7
<1>8. CASE phase = "peek"
  <2>1. Typed'
    BY <1>1, <1>3, <1>8, EmptySeq, Unchanged DEF Typed
  <2>2. InPlace'
    BY <1>1, <1>3, <1>8 DEF InPlace
  <2>3. FoundIsWhole'
    <3>1. \A f \in 1..Len(handed') : handed'[f] = WholeReports(order[f])'
      BY <1>1, <1>3, <1>8, HandedStays
    <3> QED BY <1>1, <3>1 DEF FoundIsWhole
  <2>4. Ordered'
    <3>1. WholeIn(body) = {}
      BY <1>1, <1>5, <1>8 DEF FoundIsWhole
    <3>2. \A k \in Files \ unpeeked' : Stamped(k)
      BY <1>3, <1>8, <3>1 DEF Ordered, Stamped
    <3>3. \A k \in Files \ unpeeked' : Stamped(k)'
      BY <1>1, <3>2, Unchanged DEF Stamped
    <3> QED BY <1>1, <1>8, <3>3, Unchanged DEF Ordered
  <2> QED BY <1>6, <2>1, <2>2, <2>3, <2>4
<1> QED BY <1>2, <1>7, <1>8

LEMMA RaiseInv == ASSUME IntakeInv, Raise, mishaps' \in 0..MaxMishaps PROVE IntakeInv'
<1> USE DEF IntakeInv
<1>1. /\ input \in Inputs /\ phase' = "failed"
      /\ body' = NoKey /\ line' = 0 /\ current' = <<>> /\ found' = <<>>
      /\ handed' = <<>> /\ order' = <<>> /\ unpeeked' = {}
      /\ stamps' = [k \in Files |-> FarFuture]
      /\ UNCHANGED input
  BY DEF Typed, Raise, NothingRead
<1>2. Typed'
  BY <1>1, EmptySeq, Unchanged DEF Typed, FarFuture
<1>3. AtHand' /\ InPlace'
  BY <1>1, EmptySeq DEF AtHand, InPlace
<1>4. FoundIsWhole' /\ Ordered'
  BY <1>1, EmptySeq DEF FoundIsWhole, Ordered
<1> QED BY <1>2, <1>3, <1>4

LEMMA WalkEndsInv == IntakeInv /\ (WalkEnds \/ Rerun) => IntakeInv'
<1> SUFFICES ASSUME IntakeInv, WalkEnds \/ Rerun PROVE IntakeInv'
  OBVIOUS
<1> USE DEF IntakeInv
<1>1. /\ body = NoKey
      /\ UNCHANGED <<input, unpeeked, stamps, order, reading, handed, mishaps>>
      /\ \/ phase = "walk" /\ phase' = "done" /\ Len(handed) = Len(order)
         \/ phase = "failed" /\ phase' = "order"
  BY DEF WalkEnds, Rerun, InPlace
<1>2. Typed' /\ AtHand'
  BY <1>1, Unchanged DEF Typed, AtHand, reading
<1>3. InPlace'
  BY <1>1 DEF InPlace, reading
<1>4. FoundIsWhole'
  <2>1. \A f \in 1..Len(handed') : handed'[f] = WholeReports(order[f])'
    BY <1>1, HandedStays
  <2> QED BY <1>1, <2>1 DEF FoundIsWhole, reading
<1>5. Ordered'
  <2>1. \A k \in Files : Stamped(k)' <=> Stamped(k)
    BY <1>1, Unchanged DEF Stamped
  <2> QED BY <1>1, <2>1, Unchanged DEF Ordered
<1> QED BY <1>2, <1>3, <1>4, <1>5

-----------------------------------------------------------------------------
(* The theorems. *)

LEMMA IntakeNext == IntakeInv /\ [Next]_vars => IntakeInv'
<1> SUFFICES ASSUME IntakeInv, [Next]_vars PROVE IntakeInv'
  OBVIOUS
<1>1. CASE OrderByName
  BY <1>1, OrderByNameInv
<1>2. CASE StartPeeking
  BY <1>2, StartPeekingInv
<1>3. CASE OrderByStamp
  BY <1>3, OrderByStampInv
<1>4. ASSUME NEW k \in Files, OpenObject(k) PROVE IntakeInv'
  BY <1>4, OpenObjectInv
<1>5. CASE ReadLine
  BY <1>5, ReadLineInv
<1>6. CASE SkipEntry
  BY <1>6, SkipEntryInv
<1>7. CASE KeepRecord
  BY <1>7, KeepRecordInv
<1>8. CASE StampFile
  BY <1>8, StampFileInv
<1>9. CASE EndOfBody
  BY <1>9, EndOfBodyInv
<1>10. CASE ParseRaises
  <2>1. mishaps' \in 0..MaxMishaps
    BY <1>10 DEF ParseRaises, IntakeInv, Typed
  <2> QED BY <1>10, <2>1, RaiseInv DEF ParseRaises
<1>11. CASE ReadFails
  <2>1. mishaps' \in 0..MaxMishaps
    BY <1>11, IntakeAssumption DEF ReadFails, IntakeInv, Typed
  <2> QED BY <1>11, <2>1, RaiseInv DEF ReadFails
<1>12. CASE WalkEnds \/ Rerun
  BY <1>12, WalkEndsInv
<1>13. CASE UNCHANGED vars
  <2> USE DEF IntakeInv
  <2>1. /\ UNCHANGED <<input, phase, unpeeked, stamps, order, handed, mishaps>>
        /\ UNCHANGED <<body, line, current, found>>
    BY <1>13 DEF vars, reading
  <2>2. Typed' /\ InPlace'
    BY <2>1, Unchanged DEF Typed, InPlace
  <2>3. AtHand'
    BY <2>1 DEF AtHand, Settled, Lines, Readable
  <2>4. FoundIsWhole'
    <3>1. UNCHANGED <<WholeAmong(body, Settled), ReportsOf(WholeAmong(body, Settled))>>
      BY <2>1 DEF Settled, WholeAmong, ReportsOf, Report, entries
    <3>2. \A f \in 1..Len(handed') : handed'[f] = WholeReports(order[f])'
      BY <2>1, HandedStays
    <3> QED BY <2>1, <3>1, <3>2 DEF FoundIsWhole
  <2>5. Ordered'
    BY <2>1, OrderedStays
  <2> QED BY <2>2, <2>3, <2>4, <2>5
<1> QED
  BY <1>1, <1>2, <1>3, <1>4, <1>5, <1>6, <1>7, <1>8, <1>9, <1>10, <1>11, <1>12, <1>13 DEF Next

LEMMA IntakeInvariant == Spec => []IntakeInv
<1>1. IntakeInv /\ [Next]_vars => IntakeInv'
  BY IntakeNext
<1> QED BY <1>1, IntakeInit, PTL DEF Spec

LEMMA LinesAreConsecutive ==
  ASSUME IntakeInv, body # NoKey
  PROVE  current = SubSeq(Lines, line - Len(current) + 1, line)
<1> DEFINE l == input.files[body].lines
           t == SubSeq(l, Settled + 1, line)
<1>1. /\ body \in Files /\ input \in Inputs
      /\ current \in Seq(Nat \X Nat) /\ Len(current) \in Nat /\ line \in Nat
      /\ line \in Len(current)..Readable
      /\ \A n \in 1..Len(current) : current[n] = l[Settled + n]
  BY LenProperties DEF IntakeInv, Typed, AtHand, Lines
<1>2. /\ Readable \in 0..Len(l) /\ Len(l) \in Nat
      /\ \A n \in 1..Len(l) : l[n] \in Nat \X Nat
  BY <1>1, FileFacts DEF Readable
<1>3. /\ Settled \in Nat /\ line <= Len(l) /\ line = Settled + Len(current)
  BY <1>1, <1>2 DEF Settled
<1> HIDE DEF l
<1>4. \A n \in (Settled + 1)..line : l[n] \in Nat \X Nat
  BY <1>1, <1>2, <1>3
<1>5. /\ t \in Seq(Nat \X Nat)
      /\ Len(t) = Len(current)
      /\ \A n \in 1..(line - (Settled + 1) + 1) : t[n] = l[(Settled + 1) + n - 1]
  <2>1. /\ t \in Seq(Nat \X Nat)
        /\ Len(t) = IF Settled + 1 <= line THEN line - (Settled + 1) + 1 ELSE 0
        /\ \A n \in 1..(line - (Settled + 1) + 1) : t[n] = l[(Settled + 1) + n - 1]
    BY <1>1, <1>3, <1>4, SubSeqProperties
  <2> QED BY <1>1, <1>3, <2>1
<1>6. \A n \in 1..Len(current) : current[n] = t[n]
  <2> TAKE n \in 1..Len(current)
  <2>1. n \in 1..(line - (Settled + 1) + 1) /\ (Settled + 1) + n - 1 = Settled + n
    BY <1>1, <1>3
  <2> HIDE DEF t
  <2> QED BY <1>1, <1>5, <2>1
<1>7. current = t
  <2> HIDE DEF t
  <2> QED BY <1>1, <1>5, <1>6, SeqEqual
<1> QED BY <1>7 DEF l, Lines, Settled

\* The state of a walk fits together: the lines at hand are consecutive lines
\* of one entry, whatever the file begins or ends with.
THEOREM IntakeTypeCorrect == Spec => []TypeOK
<1>1. IntakeInv => TypeOK
  <2> SUFFICES ASSUME IntakeInv PROVE TypeOK
    OBVIOUS
  <2>1. body = NoKey => line = 0 /\ current = <<>> /\ found = <<>>
    BY DEF IntakeInv, AtHand
  <2>2. body # NoKey => line \in Len(current)..Readable
    BY DEF IntakeInv, AtHand
  <2>3. body # NoKey => current = SubSeq(Lines, line - Len(current) + 1, line)
    BY LinesAreConsecutive
  <2>4. \A n \in DOMAIN current : current[n][1] = current[1][1]
    <3>1. DOMAIN current = 1..Len(current)
      BY LenProperties DEF IntakeInv, Typed
    <3>2. CASE body = NoKey
      BY <2>1, <3>1, <3>2, EmptySeq
    <3>3. CASE body # NoKey
      <4>1. \A n \in 1..Len(current) : current[n] = <<current[1][1], current[1][2] + (n - 1)>>
        BY <3>3 DEF IntakeInv, AtHand
      <4> QED BY <3>1, <4>1
    <3> QED BY <3>2, <3>3
  <2> QED BY <2>1, <2>2, <2>3, <2>4 DEF IntakeInv, Typed, InPlace, TypeOK
<1> QED BY <1>1, IntakeInvariant, PTL

\* The engine is given every file once, with exactly the reports that lie in it
\* as a whole (README:250-252, s3_client.py:94).
THEOREM NothingWholeIsLost == Spec => []KeepsWhatIsWhole
<1>1. IntakeInv => KeepsWhatIsWhole
  <2> SUFFICES ASSUME IntakeInv PROVE KeepsWhatIsWhole
    OBVIOUS
  <2>1. DOMAIN handed = 1..Len(handed) /\ Len(handed) \in Nat
    BY LenProperties DEF IntakeInv, Typed
  <2>2. \A f \in DOMAIN handed : handed[f] = WholeReports(order[f])
    BY <2>1 DEF IntakeInv, FoundIsWhole
  <2>3. ASSUME phase = "done"
        PROVE  \A k \in Files : \E f \in DOMAIN handed : order[f] = k
    <3>1. input \in Inputs /\ Files \in SUBSET Int /\ IsFiniteSet(Files)
      BY InputFacts DEF IntakeInv, Typed
    <3>2. PICK rank \in [Files -> Int] : order = SortedBy(Files, rank)
      <4>1. stamps \in [Files -> Int]
        BY DEF IntakeInv, Typed
      <4> QED BY <2>3, <3>1, <4>1, HoursAreNumbers DEF IntakeInv, Ordered
    <3>3. \A k \in Files : \E f \in 1..Len(order) : order[f] = k
      BY <3>1, <3>2, SortedByProperties
    <3> QED BY <2>1, <2>3, <3>3 DEF IntakeInv, InPlace
  <2> QED BY <2>2, <2>3 DEF KeepsWhatIsWhole
<1> QED BY <1>1, IntakeInvariant, PTL

-----------------------------------------------------------------------------
(* The order of the walk and the engine's look-ahead. *)

LEMMA ReportsOfMembers ==
  ASSUME input \in Inputs, NEW k
  PROVE  /\ DOMAIN WholeReports(k) \subseteq 1..Len(entries)
         /\ \A n \in DOMAIN WholeReports(k) : \E d \in WholeIn(k) : WholeReports(k)[n] = Report(d)
         /\ \A d \in WholeIn(k) : \E n \in DOMAIN WholeReports(k) : WholeReports(k)[n] = Report(d)
<1> DEFINE W == WholeIn(k)
           s == SortedBy(W, Identity(W))
           c == Cardinality(W)
<1>1. /\ W \in SUBSET Int /\ IsFiniteSet(W) /\ W \subseteq DOMAIN entries
      /\ Identity(W) \in [W -> Int]
  BY WholeIsFinite DEF WholeIn, Identity
<1>2. c \in Nat /\ c <= Len(entries) /\ Len(entries) \in Nat
  <2>1. /\ IsFiniteSet(DOMAIN entries) /\ Cardinality(DOMAIN entries) = Len(entries)
        /\ Len(entries) \in Nat
    BY InputFacts, FS_Interval
  <2> QED BY <1>1, <2>1, FS_Subset, FS_CardinalityType
<1>3. /\ Len(s) = c /\ s \in [1..c -> W]
      /\ \A d \in W : \E n \in 1..c : s[n] = d
  <2> HIDE DEF W
  <2> QED BY <1>1, SortedByProperties
<1>4. WholeReports(k) = [n \in 1..Len(s) |-> Report(s[n])]
  BY DEF WholeReports, ReportsOf, Identity
<1> HIDE DEF s, c, W
<1>5. /\ DOMAIN WholeReports(k) = 1..c
      /\ \A n \in 1..c : WholeReports(k)[n] = Report(s[n]) /\ s[n] \in W
  BY <1>3, <1>4
<1>6. DOMAIN WholeReports(k) \subseteq 1..Len(entries)
  BY <1>2, <1>5
<1>7. \A d \in W : \E n \in DOMAIN WholeReports(k) : WholeReports(k)[n] = Report(d)
  BY <1>3, <1>5
<1> QED BY <1>5, <1>6, <1>7 DEF W

\* An entry of an earlier file comes before one of a later file.
LEMMA EarlierEntries ==
  ASSUME input \in Inputs, NEW j \in Files, NEW k \in Files,
         Earlier(input.files[j], input.files[k]), NEW c \in WholeIn(j), NEW d \in WholeIn(k)
  PROVE  c < d /\ entries[c].ts <= entries[d].ts
<1>1. /\ c \in DOMAIN entries /\ d \in DOMAIN entries
      /\ entries[c].kind = "valid" /\ entries[d].kind = "valid"
  BY DEF WholeIn, WholeAmong
<1>2. 1 \in 1..entries[c].body /\ 1 \in 1..entries[d].body /\ c \in Nat /\ d \in Nat
  BY <1>1, EntryFacts
<1>3. PICK m \in 1..input.files[j].readable : input.files[j].lines[m] = <<c, 1>>
  BY <1>2 DEF WholeIn, WholeAmong
<1>4. PICK n \in 1..input.files[k].readable : input.files[k].lines[n] = <<d, 1>>
  BY <1>2 DEF WholeIn, WholeAmong
<1>5. m \in 1..Len(input.files[j].lines)
  <2>1. input.files[j].readable \in 0..Len(input.files[j].lines) /\ Len(input.files[j].lines) \in Nat
    BY FileFacts
  <2> QED BY <1>3, <2>1
<1>6. n \in 1..Len(input.files[k].lines)
  <2>1. input.files[k].readable \in 0..Len(input.files[k].lines) /\ Len(input.files[k].lines) \in Nat
    BY FileFacts
  <2> QED BY <1>4, <2>1
<1>7. Precedes(<<c, 1>>, <<d, 1>>)
  BY <1>3, <1>4, <1>5, <1>6 DEF Earlier
<1>8. c < d
  BY <1>2, <1>7 DEF Precedes
<1>9. entries[c].ts <= entries[d].ts
  BY <1>1, <1>8, InputFacts DEF InOrder
<1> QED BY <1>8, <1>9

LEMMA LaterFilesCountHigher ==
  ASSUME NEW N \in Nat, NEW g \in Nat, NEW f \in Nat, g < f,
         NEW m \in Nat, m < N, NEW n \in Nat
  PROVE  g * N + m < f * N + n
<1>1. PICK h \in Nat : f = g + 1 + h
  <2>1. f - g - 1 \in Nat /\ f = g + 1 + (f - g - 1)
    OBVIOUS
  <2> QED BY <2>1
<1>2. f * N = g * N + N + h * N
  BY <1>1
<1>3. h * N \in Nat /\ g * N \in Nat
  BY <1>1
<1> QED BY <1>2, <1>3

\* Whether names or first records put the files in order, the look-ahead of the
\* engine is exact in it (scaler.py:108).
LEMMA OrderIsGood == ASSUME IntakeInv, phase = "done" PROVE EarliestFirst(AsRecords)
<1> DEFINE l == AsRecords
           N == Len(entries) + 1
           c == Len(order)
<1>1. /\ input \in Inputs /\ Len(entries) \in Nat /\ N \in Nat
      /\ Files \in SUBSET Int /\ IsFiniteSet(Files)
  BY InputFacts DEF IntakeInv, Typed
<1>2. /\ c \in Nat /\ DOMAIN handed = 1..c
      /\ \A f \in 1..c : handed[f] = WholeReports(order[f]) /\ order[f] \in Files
  BY LenProperties DEF IntakeInv, Typed, InPlace, FoundIsWhole
<1>3. DOMAIN l = 1..c
  BY <1>2 DEF AsRecords
<1>4. \A f \in 1..c : \A s \in l[f] :
        \E d \in WholeIn(order[f]), n \in 1..Len(entries) :
          s = [batch |-> entries[d].batch, ts |-> entries[d].ts, nth |-> f * N + n]
  <2> TAKE f \in 1..c
  <2> TAKE s \in l[f]
  <2>1. PICK n \in DOMAIN handed[f] :
          s = [batch |-> handed[f][n].batch, ts |-> handed[f][n].ts, nth |-> f * N + n]
    BY <1>2 DEF AsRecords
  <2>2. PICK d \in WholeIn(order[f]) : n \in 1..Len(entries) /\ handed[f][n] = Report(d)
    BY <1>1, <1>2, <2>1, ReportsOfMembers
  <2>3. handed[f][n].batch = entries[d].batch /\ handed[f][n].ts = entries[d].ts
    BY <2>2 DEF Report
  <2> HIDE DEF l, N, c
  <2>4. s = [batch |-> entries[d].batch, ts |-> entries[d].ts, nth |-> f * N + n]
    BY <2>1, <2>3
  <2> QED BY <2>2, <2>4
<1>5. \A f \in 1..c : \A d \in WholeIn(order[f]) : \E n \in 1..Len(entries) :
        [batch |-> entries[d].batch, ts |-> entries[d].ts, nth |-> f * N + n] \in l[f]
  <2> TAKE f \in 1..c
  <2> TAKE d \in WholeIn(order[f])
  <2>1. PICK n \in DOMAIN handed[f] : handed[f][n] = Report(d)
    BY <1>1, <1>2, ReportsOfMembers
  <2>2. n \in 1..Len(entries)
    BY <1>1, <1>2, <2>1, ReportsOfMembers
  <2>3. [batch |-> handed[f][n].batch, ts |-> handed[f][n].ts, nth |-> f * N + n] \in l[f]
    BY <1>2, <2>1 DEF AsRecords
  <2>4. handed[f][n].batch = entries[d].batch /\ handed[f][n].ts = entries[d].ts
    BY <2>1 DEF Report
  <2> HIDE DEF l, N, c
  <2>5. [batch |-> entries[d].batch, ts |-> entries[d].ts, nth |-> f * N + n] \in l[f]
    BY <2>3, <2>4
  <2> QED BY <2>2, <2>5
<1>6. PICK rank \in [Files -> Int] :
        /\ order = SortedBy(Files, rank)
        /\ \/ NamesTell /\ rank = Hours
           \/ NoTies(entries) /\ rank = stamps /\ \A k \in Files : Stamped(k)
  <2>1. stamps \in [Files -> Int]
    BY DEF IntakeInv, Typed
  <2> QED BY <1>1, <2>1, InputFacts, HoursAreNumbers DEF IntakeInv, Ordered
<1>7. /\ c = Cardinality(Files)
      /\ \A g, f \in 1..c : g < f => Before(rank, order[g], order[f])
  BY <1>1, <1>6, SortedByProperties
<1> HIDE DEF l, c
<1>8. ASSUME NEW f \in 1..c, NEW g \in 1..c, g < f, NEW s \in FirstIn(l, f), FirstIn(l, g) # {}
      PROVE  \E r \in FirstIn(l, g) : r.ts <= s.ts
  <2> DEFINE j == order[g]
             k == order[f]
  <2>1. j \in Files /\ k \in Files /\ j # k /\ Before(rank, j, k)
    <3>1. order[g] \in Files /\ order[f] \in Files /\ Before(rank, order[g], order[f])
      BY <1>2, <1>7, <1>8
    <3>2. order[g] # order[f]
      <4>1. rank[order[g]] \in Int /\ order[g] \in Int
        BY <1>1, <3>1
      <4> QED BY <3>1, <4>1 DEF Before
    <3> QED BY <3>1, <3>2
  <2>2. PICK r : r \in FirstIn(l, g)
    BY <1>8
  <2>3. PICK ds \in WholeIn(k), ns \in 1..Len(entries) :
          s = [batch |-> entries[ds].batch, ts |-> entries[ds].ts, nth |-> f * N + ns]
    BY <1>4, <1>8 DEF FirstIn
  <2>4. PICK dr \in WholeIn(j), nr \in 1..Len(entries) :
          r = [batch |-> entries[dr].batch, ts |-> entries[dr].ts, nth |-> g * N + nr]
    BY <1>4, <2>2 DEF FirstIn
  <2> HIDE DEF j, k
  <2>5. CASE Earlier(input.files[j], input.files[k])
    <3>1. entries[dr].ts <= entries[ds].ts
      BY <1>1, <2>1, <2>3, <2>4, <2>5, EarlierEntries
    <3> QED BY <2>2, <2>3, <2>4, <3>1
  <2>6. CASE ~Earlier(input.files[j], input.files[k])
    <3>1. Earlier(input.files[k], input.files[j])
      BY <1>1, <2>1, <2>6, InputFacts DEF Rotated, Files
    <3>2. NoTies(entries) /\ rank = stamps /\ Stamped(j) /\ Stamped(k)
      <4>1. ASSUME NamesTell, rank = Hours PROVE FALSE
        <5>1. Hours[j] = input.files[j].hour /\ Hours[k] = input.files[k].hour
          BY <2>1, <4>1 DEF Hours, NamesTell
        <5>2. /\ input.files[j].hour # NoHour
              /\ \/ input.files[j].hour < input.files[k].hour
                 \/ input.files[k].hour = input.files[j].hour /\ j < k
          BY <2>1, <4>1, <5>1 DEF Before, NamesTell
        <5> QED BY <1>1, <2>1, <2>6, <5>2, InputFacts DEF Rotated, Files
      <4> QED BY <1>6, <2>1, <4>1
    <3>3. PICK d \in WholeIn(j) : stamps[j] = entries[d].ts
      BY <2>4, <3>2 DEF Stamped
    <3>4. PICK e \in WholeIn(k) : (\A i \in WholeIn(k) : e <= i) /\ stamps[k] = entries[e].ts
      BY <2>3, <3>2 DEF Stamped
    <3>5. /\ d \in DOMAIN entries /\ ds \in DOMAIN entries /\ e \in DOMAIN entries
          /\ entries[d].kind = "valid" /\ entries[ds].kind = "valid" /\ entries[e].kind = "valid"
      BY <2>3, <3>3, <3>4 DEF WholeIn, WholeAmong
    <3>6. /\ entries[d].ts \in Nat /\ entries[ds].ts \in Nat /\ entries[e].ts \in Nat
          /\ ds \in Nat /\ e \in Nat /\ d \in Nat
      BY <1>1, <3>5, EntryFacts
    <3>7. entries[ds].ts <= entries[d].ts
      BY <1>1, <2>1, <2>3, <3>1, <3>3, EarlierEntries
    <3>8. entries[e].ts <= entries[ds].ts
      <4>1. e <= ds
        BY <2>3, <3>4
      <4>2. e < ds => entries[e].ts <= entries[ds].ts
        BY <1>1, <3>5, InputFacts DEF InOrder
      <4> QED BY <3>6, <4>1, <4>2
    <3>9. entries[d].ts <= entries[e].ts
      <4>1. stamps[j] <= stamps[k]
        <5>1. rank[j] \in Int /\ rank[k] \in Int
          BY <2>1
        <5> QED BY <2>1, <3>2, <5>1 DEF Before
      <4> QED BY <3>3, <3>4, <4>1
    <3>10. entries[d].batch = entries[ds].batch
      <4>1. entries[d].ts = entries[ds].ts
        BY <3>6, <3>7, <3>8, <3>9
      <4> QED BY <3>2, <3>5, <4>1 DEF NoTies
    <3>11. PICK n \in 1..Len(entries) :
             [batch |-> entries[d].batch, ts |-> entries[d].ts, nth |-> g * N + n] \in l[g]
      BY <1>5, <1>8, <3>3 DEF j
    <3> DEFINE q == [batch |-> entries[d].batch, ts |-> entries[d].ts, nth |-> g * N + n]
    <3>12. q \in AllRecords(l) /\ SameReport(s, q)
      <4>1. q \in l[g] /\ g \in DOMAIN l
        BY <1>3, <1>8, <3>11
      <4>2. s.batch = q.batch
        BY <2>3, <3>10
      <4> QED BY <4>1, <4>2 DEF AllRecords, SameReport, Key
    <3>13. s.nth <= q.nth
      BY <1>8, <3>12 DEF FirstIn, Unique, FirstCopies
    <3>14. g * N + n < f * N + ns
      <4>1. n \in Nat /\ n < N /\ ns \in Nat /\ g \in Nat /\ f \in Nat
        BY <1>1, <1>2, <1>8, <2>3, <3>11
      <4> HIDE DEF N
      <4> QED BY <1>1, <1>8, <4>1, LaterFilesCountHigher
    <3>15. f * N + ns <= g * N + n
      BY <2>3, <3>13
    <3>16. f * N + ns \in Int /\ g * N + n \in Int
      BY <1>1, <1>2, <1>8, <2>3, <3>11
    <3> QED BY <3>14, <3>15, <3>16
  <2> QED BY <2>5, <2>6
<1>9. \A f \in DOMAIN l : \A g \in {h \in DOMAIN l : h < f} : \A s \in FirstIn(l, f) :
        FirstIn(l, g) # {} => \E r \in FirstIn(l, g) : r.ts <= s.ts
  BY <1>3, <1>8
<1> QED BY <1>9 DEF EarliestFirst, l

\* "Chronological order of a cluster's files" (scaler.py:108): the order of the
\* walk is one in which the look-ahead is exact.
THEOREM OrderIsSafeToWalk == Spec => []OrderMeetsWatermark
<1>1. IntakeInv => OrderMeetsWatermark
  BY OrderIsGood DEF OrderMeetsWatermark
<1> QED BY <1>1, IntakeInvariant, PTL
=============================================================================
