------------------------ MODULE DecisionStreamProofs ------------------------
(***************************************************************************)
(* Theorems about the streamed walk, for every rule set, every look-back   *)
(* and every log that meets the watermark, of any number of files.         *)
(***************************************************************************)
EXTENDS DecisionStream, FiniteSetTheorems, TLAPS

-----------------------------------------------------------------------------
(* Finite sets of numbers. *)

\* Every finite, non-empty set of integers has a least element.
LEMMA FiniteHasLeast ==
  ASSUME NEW S \in SUBSET Int, IsFiniteSet(S), S # {}
  PROVE  \E x \in S : \A y \in S : x <= y
<1> DEFINE HasLeast(T) == \E x \in T : \A y \in T : x <= y
           Bad == {T \in SUBSET S : T # {} /\ ~HasLeast(T)}
<1>1. SUFFICES Bad = {}
  OBVIOUS
<1>2. SUFFICES ASSUME Bad # {} PROVE FALSE
  OBVIOUS
<1>3. /\ IsWellFoundedOn(StrictSubsetOrdering(S), FiniteSubsetsOf(S))
      /\ FiniteSubsetsOf(S) = SUBSET S
  BY FS_StrictSubsetOrderingWellFounded, FS_FiniteSubsetsOfFinite
<1>4. PICK T \in Bad : \A U \in Bad : ~(<<U, T>> \in StrictSubsetOrdering(S))
  <2>1. Bad \subseteq FiniteSubsetsOf(S)
    BY <1>3
  <2> HIDE DEF Bad
  <2> QED BY <1>2, <1>3, <2>1, WFMin
<1>5. PICK x : x \in T
  OBVIOUS
<1>6. T \ {x} \notin Bad
  BY <1>4, <1>5 DEF StrictSubsetOrdering
<1>7. CASE T = {x}
  BY <1>5, <1>7
<1>8. CASE T # {x}
  <2>1. PICK y \in T \ {x} : \A z \in T \ {x} : y <= z
    BY <1>5, <1>6, <1>8
  <2>2. x \in Int /\ y \in Int /\ \A z \in T : z \in Int
    BY <1>5
  <2>3. CASE y <= x
    BY <2>1, <2>2, <2>3
  <2>4. CASE ~(y <= x)
    <3>1. \A z \in T : x <= z
      BY <2>1, <2>2, <2>4
    <3> QED BY <1>5, <3>1
  <2> QED BY <2>3, <2>4
<1> QED BY <1>7, <1>8

LEMMA MinIsLeast ==
  ASSUME NEW S \in SUBSET Int, IsFiniteSet(S), S # {}
  PROVE  Min(S) \in S /\ \A x \in S : Min(S) <= x
BY FiniteHasLeast DEF Min

LEMMA MaxIsGreatest ==
  ASSUME NEW S \in SUBSET Int, IsFiniteSet(S), S # {}
  PROVE  Max(S) \in S /\ \A x \in S : x <= Max(S)
<1> DEFINE minus == [x \in S |-> -x]
           T == {-x : x \in S}
<1>1. minus \in Surjection(S, T)
  BY DEF Surjection
<1>2. IsFiniteSet(T)
  BY <1>1, FS_Surjection
<1>3. PICK y \in T : \A z \in T : y <= z
  <2>1. T \in SUBSET Int
    OBVIOUS
  <2>2. T # {}
    OBVIOUS
  <2> HIDE DEF T
  <2> QED BY <1>2, <2>1, <2>2, FiniteHasLeast
<1>4. PICK x \in S : y = -x
  OBVIOUS
<1>5. \A z \in S : z <= x
  BY <1>3, <1>4
<1> QED BY <1>5 DEF Max

\* max_window_minutes is a bound of every window.
LEMMA WindowsWithinMax ==
  /\ MaxWindow \in Nat
  /\ \A i \in DOMAIN Rules : Rules[i].window \in Nat /\ Rules[i].window <= MaxWindow
<1> DEFINE windows == [i \in DOMAIN Rules |-> Rules[i].window]
           W == {Rules[i].window : i \in DOMAIN Rules}
<1>1. \A i \in DOMAIN Rules : Rules[i].window \in Nat
  BY RulesAssumption DEF IsRule
<1>2. IsFiniteSet(DOMAIN Rules)
  BY RulesSequence, FS_Interval
<1>3. windows \in Surjection(DOMAIN Rules, W)
  BY DEF Surjection
<1>4. IsFiniteSet(W \cup {0})
  BY <1>2, <1>3, FS_Surjection, FS_AddElement
<1>5. W \cup {0} \in SUBSET Int /\ W \cup {0} # {}
  BY <1>1
<1>6. MaxWindow \in W \cup {0} /\ \A x \in W \cup {0} : x <= MaxWindow
  BY <1>4, <1>5, MaxIsGreatest DEF MaxWindow
<1> QED BY <1>1, <1>6

-----------------------------------------------------------------------------
(* Logs. *)

Admitted(l) == l \in Logs /\ Watermark(l)

LEMMA RecordsTyped ==
  ASSUME NEW l \in Logs, NEW r \in AllRecords(l)
  PROVE  r.ts \in Nat /\ r.batch \in Nat /\ r.nth \in Nat
BY LogsAssumption

LEMMA EntriesApart ==
  ASSUME NEW l \in Logs, NEW f \in DOMAIN l, NEW g \in DOMAIN l, NEW r \in l[f], NEW s \in l[g]
  PROVE  /\ f < g => r.nth < s.nth
         /\ r.nth = s.nth => r = s
BY LogsAssumption

\* What lies in the first files, file by file.
LEMMA UptoGrows ==
  ASSUME NEW l \in Logs
  PROVE  /\ Upto(l, 0) = {}
         /\ Upto(l, Len(l)) = AllRecords(l)
         /\ \A n \in Nat : n < Len(l) =>
              /\ n + 1 \in DOMAIN l
              /\ Upto(l, n + 1) = Upto(l, n) \cup l[n + 1]
              /\ Upto(l, n) \cap l[n + 1] = {}
<1>1. Len(l) \in Nat /\ DOMAIN l = 1..Len(l)
  BY LogsAssumption
<1>2. Upto(l, 0) = {} /\ Upto(l, Len(l)) = AllRecords(l)
  BY <1>1 DEF Upto, AllRecords
<1>3. ASSUME NEW n \in Nat, n < Len(l)
      PROVE  n + 1 \in DOMAIN l /\ Upto(l, n + 1) = Upto(l, n) \cup l[n + 1]
  BY <1>1, <1>3 DEF Upto
<1>4. ASSUME NEW n \in Nat, n < Len(l)
      PROVE  Upto(l, n) \cap l[n + 1] = {}
  <2>1. SUFFICES ASSUME NEW r \in Upto(l, n), r \in l[n + 1] PROVE FALSE
    OBVIOUS
  <2>2. PICK g \in DOMAIN l : g <= n /\ r \in l[g]
    BY DEF Upto
  <2>3. g < n + 1 /\ n + 1 \in DOMAIN l
    BY <1>1, <1>3, <1>4, <2>2
  <2>4. r.nth < r.nth
    BY <2>1, <2>2, <2>3, EntriesApart
  <2>5. r.nth \in Nat
    BY <2>2, RecordsTyped DEF AllRecords
  <2> QED BY <2>4, <2>5
<1> QED BY <1>2, <1>3, <1>4

\* Of every report there is a first copy, and it is not in a later file.
LEMMA FirstCopyExists ==
  ASSUME NEW l \in Logs, NEW r \in AllRecords(l)
  PROVE  \E s \in Unique(l) : SameReport(r, s) /\ s.nth <= r.nth
<1> DEFINE C == {s \in AllRecords(l) : SameReport(r, s)}
           nth == [s \in C |-> s.nth]
           N == {s.nth : s \in C}
<1>1. IsFiniteSet(C)
  BY LogsAssumption, FS_Subset
<1>2. nth \in Surjection(C, N)
  BY DEF Surjection
<1>3. IsFiniteSet(N)
  BY <1>1, <1>2, FS_Surjection
<1>4. N \in SUBSET Int
  BY RecordsTyped
<1>5. r \in C
  BY DEF SameReport
<1>6. PICK n \in N : \A m \in N : n <= m
  <2>1. N # {}
    BY <1>5
  <2> HIDE DEF N
  <2> QED BY <1>3, <1>4, <2>1, FiniteHasLeast
<1>7. PICK s \in C : s.nth = n
  OBVIOUS
<1>8. \A t \in AllRecords(l) : SameReport(s, t) => s.nth <= t.nth
  BY <1>6, <1>7 DEF SameReport
<1>9. s \in Unique(l)
  BY <1>7, <1>8 DEF Unique, FirstCopies
<1> QED BY <1>5, <1>6, <1>7, <1>9

\* What a file brings that the dedup keys do not know is what it is first to
\* report, provided the keys reach back one file.
LEMMA NewAreFirst ==
  ASSUME NEW l, Admitted(l), NEW n \in Nat, n < Len(l),
         NEW keys, keys \subseteq Upto(l, n),
         n > 0 => FirstIn(l, n) \subseteq keys
  PROVE  {r \in FirstCopies(l[n + 1]) : \A s \in keys : ~SameReport(r, s)} = FirstIn(l, n + 1)
<1>1. /\ l \in Logs /\ n + 1 \in DOMAIN l /\ l[n + 1] \subseteq AllRecords(l)
      /\ Len(l) \in Nat /\ DOMAIN l = 1..Len(l)
  BY UptoGrows, LogsAssumption DEF Admitted, AllRecords
<1>2. ASSUME NEW f \in DOMAIN l, NEW g \in DOMAIN l, NEW r \in l[f], NEW s \in l[g], f < g
      PROVE  r.nth < s.nth /\ r.nth \in Nat /\ s.nth \in Nat
  <2>1. r \in AllRecords(l) /\ s \in AllRecords(l)
    BY DEF AllRecords
  <2> QED BY <1>1, <1>2, <2>1, EntriesApart, RecordsTyped
<1>3. ASSUME NEW r \in FirstIn(l, n + 1)
      PROVE  r \in FirstCopies(l[n + 1]) /\ \A s \in keys : ~SameReport(r, s)
  <2>1. r \in l[n + 1] /\ r \in Unique(l)
    BY DEF FirstIn
  <2>2. r \in FirstCopies(l[n + 1])
    BY <1>1, <2>1 DEF Unique, FirstCopies
  <2>3. ASSUME NEW s \in keys, SameReport(r, s) PROVE FALSE
    <3>1. PICK g \in DOMAIN l : g <= n /\ s \in l[g]
      BY DEF Upto
    <3>2. s.nth < r.nth /\ r.nth \in Nat /\ s.nth \in Nat
      BY <1>1, <1>2, <2>1, <3>1
    <3>3. r.nth <= s.nth
      BY <2>1, <2>3, <3>1 DEF Unique, FirstCopies, AllRecords
    <3> QED BY <3>2, <3>3
  <2> QED BY <2>2, <2>3
<1>4. ASSUME NEW r \in FirstCopies(l[n + 1]), \A s \in keys : ~SameReport(r, s),
             r \notin Unique(l)
      PROVE  FALSE
  <2>1. r \in l[n + 1] /\ r \in AllRecords(l)
    BY <1>1 DEF FirstCopies
  <2>2. PICK s \in AllRecords(l) : SameReport(r, s) /\ ~(r.nth <= s.nth)
    BY <1>4, <2>1 DEF Unique, FirstCopies
  <2>3. PICK t \in Unique(l) : SameReport(r, t) /\ t.nth < r.nth
    <3>1. PICK t \in Unique(l) : SameReport(s, t) /\ t.nth <= s.nth
      BY <1>1, FirstCopyExists
    <3>2. t.nth \in Nat /\ s.nth \in Nat /\ r.nth \in Nat
      BY <1>1, <2>1, RecordsTyped DEF Unique, FirstCopies
    <3> QED BY <2>2, <3>1, <3>2 DEF SameReport
  <2>4. PICK g \in DOMAIN l : t \in l[g]
    BY DEF Unique, FirstCopies, AllRecords
  <2>5. t.nth \in Nat /\ r.nth \in Nat
    BY <1>1, <2>1, <2>4, RecordsTyped DEF AllRecords
  <2>6. g <= n + 1
    BY <1>1, <1>2, <2>1, <2>3, <2>4, <2>5
  <2>7. g # n + 1
    BY <2>3, <2>4, <2>5, <1>4 DEF FirstCopies
  <2>8. g # n
    BY <1>1, <1>4, <2>3, <2>4 DEF FirstIn
  <2>9. ~(g <= (n + 1) - 2)
    <3>1. \A s2 \in Upto(l, (n + 1) - 2) : ~SameReport(r, s2)
      BY <1>1, <2>1 DEF Admitted, Watermark, OneOverlap
    <3> QED BY <2>3, <2>4, <3>1 DEF Upto
  <2> QED BY <1>1, <2>6, <2>7, <2>8, <2>9
<1>5. \A r \in FirstCopies(l[n + 1]) : r \in l[n + 1]
  BY DEF FirstCopies
<1> QED BY <1>3, <1>4, <1>5 DEF FirstIn

\* The look-ahead: once a file has been read, no new record is to come from
\* before its earliest new one.
LEMMA LookAhead ==
  ASSUME NEW l, Admitted(l), NEW n \in DOMAIN l, FirstIn(l, n) # {}
  PROVE  /\ Earliest(FirstIn(l, n)) \in Nat
         /\ \E r \in FirstIn(l, n) : r.ts = Earliest(FirstIn(l, n))
         /\ \A r \in FirstIn(l, n) : r.ts >= Earliest(FirstIn(l, n))
         /\ \A s \in Unique(l) \ Upto(l, n) : s.ts >= Earliest(FirstIn(l, n))
<1> DEFINE new == FirstIn(l, n)
           ts == [r \in new |-> r.ts]
           T == {r.ts : r \in new}
<1>1. l \in Logs /\ new \subseteq AllRecords(l) /\ Len(l) \in Nat /\ DOMAIN l = 1..Len(l)
  BY LogsAssumption DEF Admitted, FirstIn, AllRecords
<1>2. IsFiniteSet(new)
  BY <1>1, LogsAssumption, FS_Subset
<1>3. ts \in Surjection(new, T)
  BY DEF Surjection
<1>4. IsFiniteSet(T)
  BY <1>2, <1>3, FS_Surjection
<1>5. T \in SUBSET Nat /\ T # {}
  BY <1>1, RecordsTyped
<1>6. Min(T) \in T /\ \A x \in T : Min(T) <= x
  <2> HIDE DEF T
  <2> QED BY <1>4, <1>5, MinIsLeast
<1>7. Earliest(new) = Min(T)
  BY DEF Earliest
<1>8. /\ Earliest(new) \in Nat
      /\ \E r \in new : r.ts = Earliest(new)
      /\ \A r \in new : r.ts >= Earliest(new)
  <2>1. Earliest(new) \in T /\ \A x \in T : Earliest(new) <= x
    BY <1>6, <1>7
  <2> QED BY <1>5, <2>1
<1>9. ASSUME NEW s \in Unique(l) \ Upto(l, n)
      PROVE  s.ts >= Earliest(new)
  <2>1. PICK f \in DOMAIN l : s \in l[f]
    BY DEF Unique, FirstCopies, AllRecords
  <2>2. n < f
    BY <1>1, <2>1 DEF Upto
  <2>3. s \in FirstIn(l, f)
    BY <2>1 DEF FirstIn
  <2>4. PICK r \in FirstIn(l, n) : r.ts <= s.ts
    BY <2>1, <2>2, <2>3 DEF Admitted, Watermark, EarliestFirst
  <2>5. r.ts \in Nat /\ s.ts \in Nat
    BY <1>1, <2>1, <2>4, RecordsTyped DEF AllRecords
  <2> QED BY <1>8, <2>4, <2>5
<1> QED BY <1>8, <1>9

\* No two unique records sort alike.
LEMMA UniqueAreOrdered ==
  ASSUME NEW l \in Logs, NEW r \in Unique(l), NEW s \in Unique(l)
  PROVE  r = s \/ SortsBefore(r, s) \/ SortsBefore(s, r)
<1>1. r \in AllRecords(l) /\ s \in AllRecords(l)
  BY DEF Unique, FirstCopies
<1>2. /\ r.ts \in Nat /\ r.batch \in Nat /\ r.nth \in Nat
      /\ s.ts \in Nat /\ s.batch \in Nat /\ s.nth \in Nat
  BY <1>1, RecordsTyped
<1>3. CASE r.batch = s.batch
  <2>1. r.nth <= s.nth /\ s.nth <= r.nth
    BY <1>1, <1>3 DEF Unique, FirstCopies, SameReport, Key
  <2>2. r.nth = s.nth
    BY <1>2, <2>1
  <2>3. (\E f \in DOMAIN l : r \in l[f]) /\ (\E g \in DOMAIN l : s \in l[g])
    BY <1>1 DEF AllRecords
  <2> QED BY <2>2, <2>3, EntriesApart
<1>4. CASE r.batch # s.batch
  BY <1>2, <1>4 DEF SortsBefore
<1> QED BY <1>3, <1>4

\* The loop of flush takes its records in their order.
LEMMA FirstIsFirst ==
  ASSUME NEW l \in Logs, NEW R \in SUBSET Unique(l), R # {}
  PROVE  First(R) \in R /\ \A s \in R : s = First(R) \/ SortsBefore(First(R), s)
<1> DEFINE T == {r.ts : r \in R}
           ts == [r \in R |-> r.ts]
           t == Min(T)
           E == {r \in R : r.ts = t}
           batch == [r \in E |-> r.batch]
           B == {r.batch : r \in E}
           b == Min(B)
<1>1. IsFiniteSet(AllRecords(l)) /\ R \subseteq AllRecords(l)
  BY LogsAssumption DEF Unique, FirstCopies
<1>2. IsFiniteSet(R)
  BY <1>1, FS_Subset
<1>3. \A r \in R : r.ts \in Nat /\ r.batch \in Nat
  BY <1>1, RecordsTyped
<1>4. t \in T /\ \A x \in T : t <= x
  <2>1. ts \in Surjection(R, T)
    BY DEF Surjection
  <2>2. IsFiniteSet(T)
    BY <1>2, <2>1, FS_Surjection
  <2>3. T \in SUBSET Int /\ T # {}
    BY <1>3
  <2> HIDE DEF T
  <2> QED BY <2>2, <2>3, MinIsLeast
<1>5. b \in B /\ \A x \in B : b <= x
  <2>1. IsFiniteSet(E)
    BY <1>2, FS_Subset
  <2>2. batch \in Surjection(E, B)
    BY DEF Surjection
  <2>3. IsFiniteSet(B)
    BY <2>1, <2>2, FS_Surjection
  <2>4. B \in SUBSET Int
    <3>1. E \subseteq R
      OBVIOUS
    <3> HIDE DEF E
    <3> QED BY <1>3, <3>1
  <2>5. PICK r \in R : r.ts = t
    BY <1>4
  <2>6. B # {}
    BY <2>5
  <2> HIDE DEF B
  <2> QED BY <2>3, <2>4, <2>6, MinIsLeast
<1>6. PICK r \in E : r.batch = b
  BY <1>5
<1>7. ASSUME NEW s \in R PROVE ~SortsBefore(s, r)
  <2>1. r.ts = t /\ r \in R /\ t <= s.ts
    BY <1>4, <1>6
  <2>2. s.ts = t => b <= s.batch
    BY <1>5
  <2> HIDE DEF t, b
  <2> QED BY <1>3, <1>6, <2>1, <2>2 DEF SortsBefore
<1>8. First(R) \in R /\ \A s \in R : ~SortsBefore(s, First(R))
  BY <1>6, <1>7 DEF First
<1> QED BY <1>8, UniqueAreOrdered

-----------------------------------------------------------------------------
(* The inductive invariant of the walk. *)

\* Every record that is known is waiting, due or walked; a look-back is made
\* of walked records; and the keys reach back one file.
Placed ==
  /\ next \in 0..Len(log)
  /\ pc \in {"read", "flush", "done"}
  /\ pending \subseteq Known \cap Unique(log)
  /\ pool \subseteq Known \cap Unique(log)
  /\ ready \subseteq pool
  /\ pending \cap pool = {}
  /\ evaluated \subseteq Walked
  /\ seen \subseteq Known \cap Unique(log)
  /\ next > 0 => FirstIn(log, next) \subseteq seen
  /\ pc # "flush" => ready = {} /\ pool = {}

\* The bound parts what is walked from what waits or is still to be read.
Parted ==
  /\ before \in Nat \cup {NoBound}
  /\ before = NoBound =>
       /\ pending = {}
       /\ IF pc = "read" THEN Known \cap Unique(log) = {} ELSE next = Len(log)
  /\ before # NoBound =>
       /\ pc # "done"
       /\ FirstIn(log, next) \subseteq pending
       /\ \E r \in pending : r.ts = before
       /\ \A r \in Walked \cup ready : r.ts < before
       /\ \A r \in pending \cup (Unique(log) \ Known) : r.ts >= before
  /\ \A r \in Walked : \A s \in ready : SortsBefore(r, s)

\* Enough is kept for every window to come, and nothing that is older.
Kept ==
  /\ pc = "read" /\ before # NoBound =>
       /\ \A r \in Walked : r.ts > before - MaxWindow => r \in evaluated
       /\ \A r \in evaluated : r.ts > before - MaxWindow
       /\ \A r \in seen : r.ts > before - MaxWindow - Margin
  /\ pc = "flush" /\ before # NoBound =>
       \A r \in Walked : r.ts > before - MaxWindow => r \in pool
  /\ \A q \in ready : \A r \in Unique(log) :
       q.ts - MaxWindow < r.ts /\ r.ts <= q.ts => r \in pool

WalkInv == Admitted(log) /\ Placed /\ Parted /\ Kept

LEMMA UniqueTyped ==
  ASSUME NEW l \in Logs, NEW r \in Unique(l)
  PROVE  r.ts \in Nat
BY RecordsTyped DEF Unique, FirstCopies

LEMMA WalkInit == Init => WalkInv
<1> SUFFICES ASSUME Init PROVE WalkInv
  OBVIOUS
<1>1. Admitted(log) /\ Len(log) \in Nat /\ Known = {}
  BY LogsAssumption, UptoGrows DEF Init, InitWith, Admitted, Known
<1>2. Placed
  BY <1>1 DEF Init, InitWith, Placed, Walked
<1>3. Parted
  BY <1>1 DEF Init, InitWith, Parted, Walked
<1>4. Kept
  BY <1>1 DEF Init, InitWith, Kept, Walked
<1> QED BY <1>1, <1>2, <1>3, <1>4 DEF WalkInv

\* A file that brings nothing new changes nothing but the place in the log.
\* A file that does sets the bound: everything known below it becomes due.
LEMMA ReadFileParts ==
  ASSUME WalkInv, ReadFile
  PROVE  LET new == FirstIn(log, next + 1)
             due == {r \in pending : r.ts < Earliest(new)}
         IN  /\ pc = "read" /\ log' = log /\ next' = next + 1 /\ next' \in 1..Len(log)
             /\ evaluated' = evaluated /\ seen' = seen \cup new
             /\ new \subseteq Unique(log) \ Known
             /\ Known' \cap Unique(log) = (Known \cap Unique(log)) \cup new
             /\ new = {} => UNCHANGED <<pending, ready, pool, before, pc>>
             /\ new # {} =>
                  /\ before' = Earliest(new)
                  /\ ready' = due
                  /\ pending' = (pending \ due) \cup new
                  /\ pool' = IF due = {} THEN {} ELSE evaluated \cup due
                  /\ pc' = IF due = {} THEN "read" ELSE "flush"
<1> DEFINE new == FirstIn(log, next + 1)
           due == {r \in pending : r.ts < Earliest(new)}
<1> USE DEF WalkInv
<1>1. /\ log \in Logs /\ Len(log) \in Nat /\ next \in Nat /\ next < Len(log)
      /\ pc = "read" /\ log' = log /\ next' = next + 1 /\ evaluated' = evaluated
  BY LogsAssumption DEF Admitted, Placed, ReadFile
<1>2. /\ next + 1 \in DOMAIN log
      /\ Upto(log, next + 1) = Upto(log, next) \cup log[next + 1]
      /\ Upto(log, next) \cap log[next + 1] = {}
  BY <1>1, UptoGrows
<1>3. {r \in FirstCopies(log[next + 1]) : \A s \in seen : ~SameReport(r, s)} = new
  <2>1. seen \subseteq Upto(log, next) /\ (next > 0 => FirstIn(log, next) \subseteq seen)
    BY DEF Placed, Known
  <2> QED BY <1>1, <2>1, NewAreFirst
<1>4. /\ new \subseteq Unique(log) \ Known
      /\ Known' \cap Unique(log) = (Known \cap Unique(log)) \cup new
  BY <1>1, <1>2 DEF FirstIn, Known
<1>5. /\ seen' = seen \cup new
      /\ IF new = {} THEN UNCHANGED <<pending, ready, pool, before, pc>>
                     ELSE StartFlush(Earliest(new), pending \cup new, "read")
  <2> HIDE DEF new
  <2> QED BY <1>3 DEF ReadFile
<1>6. ASSUME new # {}
      PROVE  {r \in pending \cup new : Below(r, Earliest(new))} = due
  <2>1. Earliest(new) \in Nat /\ \A r \in new : r.ts >= Earliest(new)
    BY <1>2, <1>6, LookAhead
  <2>2. Earliest(new) # NoBound
    BY <2>1 DEF NoBound
  <2>3. \A r \in new : r.ts \in Nat
    BY <1>1, <1>4, UniqueTyped
  <2> HIDE DEF new
  <2> QED BY <2>1, <2>2, <2>3 DEF Below
<1>7. due \cap new = {}
  BY <1>4 DEF Placed
<1>8. ASSUME new # {}
      PROVE  /\ before' = Earliest(new) /\ ready' = due
             /\ pending' = (pending \ due) \cup new
             /\ pool' = IF due = {} THEN {} ELSE evaluated \cup due
             /\ pc' = IF due = {} THEN "read" ELSE "flush"
  <2> HIDE DEF new, due
  <2>1. StartFlush(Earliest(new), pending \cup new, "read")
    BY <1>5, <1>8
  <2>2. pending' = (pending \cup new) \ due
    BY <1>6, <1>8, <2>1 DEF StartFlush
  <2> QED BY <1>6, <1>7, <1>8, <2>1, <2>2 DEF StartFlush
<1> HIDE DEF new, due
<1>9. next' \in 1..Len(log)
  BY <1>1
<1> QED BY <1>1, <1>4, <1>5, <1>8, <1>9 DEF new, due

LEMMA WalkReadFile ==
  ASSUME WalkInv, ReadFile
  PROVE  WalkInv' /\ Walked' = Walked
<1> DEFINE U == Unique(log)
           K == Known \cap U
           new == FirstIn(log, next + 1)
           b == Earliest(new)
           due == {r \in pending : r.ts < b}
<1>0. /\ log \in Logs /\ log' = log /\ pc = "read" /\ ready = {} /\ pool = {}
      /\ Admitted(log)' /\ Len(log) \in Nat
  BY ReadFileParts, LogsAssumption DEF WalkInv, Admitted, Placed
<1>1. /\ next' = next + 1 /\ next' \in 1..Len(log) /\ evaluated' = evaluated
      /\ seen' = seen \cup new /\ Unique(log)' = U /\ FirstIn(log, next)' = new
      /\ new \subseteq U \ Known
      /\ (Known \cap Unique(log))' = K \cup new
  BY ReadFileParts, <1>0
<1>2. /\ pending \subseteq K /\ evaluated \subseteq Walked /\ seen \subseteq K
      /\ Walked = K \ pending
  BY <1>0 DEF WalkInv, Placed, Walked
<1>3. \A r \in U : r.ts \in Nat
  BY <1>0, UniqueTyped
<1>4. U \ Known' \subseteq U \ Known
  BY <1>1
<1>5. MaxWindow \in Nat /\ Margin \in Nat \ {0}
  BY WindowsWithinMax, LogsAssumption
<1>6. CASE new = {}
  <2>1. UNCHANGED <<pending, ready, pool, before, pc, evaluated, seen>>
    BY <1>1, <1>6, ReadFileParts
  <2>2. (Known \cap Unique(log))' = K /\ Walked' = Walked
    BY <1>0, <1>1, <1>2, <1>6, <2>1 DEF Walked
  <2>3. U \ Known' = U \ Known
    BY <1>1, <2>2
  <2>4. Placed'
    BY <1>0, <1>1, <1>2, <1>6, <2>1, <2>2 DEF Placed
  <2>5. Parted'
    BY <1>0, <1>1, <1>2, <1>6, <2>1, <2>2, <2>3 DEF WalkInv, Parted
  <2>6. Kept'
    BY <1>0, <1>1, <2>1, <2>2 DEF WalkInv, Kept
  <2> QED BY <1>0, <2>2, <2>4, <2>5, <2>6 DEF WalkInv
<1>7. CASE new # {}
  <2>1. /\ before' = b /\ ready' = due /\ pending' = (pending \ due) \cup new
        /\ pool' = IF due = {} THEN {} ELSE evaluated \cup due
        /\ pc' = IF due = {} THEN "read" ELSE "flush"
    BY <1>7, ReadFileParts
  <2>2. /\ b \in Nat
        /\ \E r \in new : r.ts = b
        /\ \A r \in new : r.ts >= b
        /\ \A r \in U \ Known' : r.ts >= b
    <3>1. next + 1 \in DOMAIN log /\ Known' = Upto(log, next + 1)
      BY <1>0, <1>1, LogsAssumption DEF Known
    <3> QED BY <1>0, <1>7, <3>1, LookAhead DEF WalkInv
  <2> HIDE DEF U, K, b, new
  <2>3. Walked' = Walked
    BY <1>1, <1>2, <2>1 DEF Walked
  <2>4. due \subseteq pending /\ \A r \in pending : r \in due <=> r.ts < b
    OBVIOUS
  <2> HIDE DEF due
  <2>5. \A r \in Walked \cup pending : r \in U /\ r.ts \in Nat
    BY <1>2, <1>3 DEF K
  <2>6. CASE before = NoBound
    <3>1. K = {} /\ Walked = {} /\ pending = {} /\ evaluated = {} /\ seen = {} /\ due = {}
      BY <1>0, <1>2, <2>4, <2>6 DEF WalkInv, Parted, K, U
    <3>2. pc' = "read" /\ ready' = {} /\ pool' = {} /\ pending' = new /\ seen' = new
      BY <1>1, <2>1, <3>1
    <3>3. Placed'
      BY <1>0, <1>1, <2>3, <3>1, <3>2 DEF Placed
    <3>4. Parted'
      BY <1>1, <2>1, <2>2, <2>3, <3>1, <3>2 DEF Parted, NoBound
    <3>5. Kept'
      <4>1. \A r \in new : r.ts > b - MaxWindow - Margin
        BY <1>1, <1>3, <1>5, <2>2
      <4> QED BY <1>1, <2>1, <2>3, <3>1, <3>2, <4>1 DEF Kept
    <3> QED BY <1>0, <2>3, <3>3, <3>4, <3>5 DEF WalkInv
  <2>7. CASE before # NoBound
    <3>1. /\ before \in Nat
          /\ \E r \in pending : r.ts = before
          /\ \A r \in Walked : r.ts < before
          /\ \A r \in pending \cup (U \ Known) : r.ts >= before
      BY <2>7 DEF WalkInv, Parted, U
    <3>2. before <= b
      BY <1>1, <2>2, <3>1
    <3>3. due = {} => b = before
      BY <2>2, <2>4, <3>1, <3>2
    <3>4. \A r \in Walked : r.ts < b
      BY <2>2, <2>5, <3>1, <3>2
    <3>5. /\ \A r \in Walked : r.ts > before - MaxWindow => r \in evaluated
          /\ \A r \in evaluated : r.ts > before - MaxWindow
          /\ \A r \in seen : r.ts > before - MaxWindow - Margin
      BY <1>0, <2>7 DEF WalkInv, Kept
    <3>6. Placed'
      <4>1. ready' \subseteq pool' /\ pool' \subseteq K \cup new /\ pending' \subseteq K \cup new
        BY <1>2, <2>1, <2>4
      <4>2. pending' \cap pool' = {}
        BY <1>1, <1>2, <2>1, <2>4 DEF K
      <4> QED BY <1>0, <1>1, <1>2, <2>1, <2>3, <4>1, <4>2 DEF Placed
    <3>7. Parted'
      <4>1. \A r \in pending' \cup (U \ Known') : r.ts >= b
        BY <2>1, <2>2, <2>4, <2>5
      <4>2. \A r \in Walked \cup due : r.ts < b
        BY <2>4, <3>4
      <4>3. \A r \in Walked : \A s \in due : SortsBefore(r, s)
        BY <2>2, <2>4, <2>5, <3>1 DEF SortsBefore
      <4> QED BY <1>1, <2>1, <2>2, <2>3, <4>1, <4>2, <4>3 DEF Parted, NoBound
    <3>8. Kept'
      <4>1. \A r \in Walked : r.ts > b - MaxWindow => r \in evaluated
        BY <1>5, <2>2, <2>5, <3>1, <3>2, <3>5
      <4>2. ASSUME due = {}
            PROVE  \A r \in seen' : r.ts > b - MaxWindow - Margin
        BY <1>1, <1>3, <1>5, <2>2, <3>3, <3>5, <4>2
      <4>3. ASSUME NEW q \in due, NEW r \in U, q.ts - MaxWindow < r.ts, r.ts <= q.ts
            PROVE  r \in evaluated \cup due
        <5>1. q \in pending /\ q.ts < b /\ q.ts \in Nat /\ r.ts \in Nat /\ q.ts >= before
          BY <1>3, <2>4, <2>5, <3>1
        <5>2. r \in K \cup new /\ r \notin new
          BY <1>1, <2>2, <4>3, <5>1
        <5>3. CASE r \in pending
          BY <2>2, <2>4, <4>3, <5>1, <5>3
        <5>4. CASE r \in Walked
          BY <1>5, <3>1, <3>5, <4>3, <5>1, <5>4
        <5> QED BY <1>2, <5>2, <5>3, <5>4
      <4> QED BY <1>1, <2>1, <2>3, <3>3, <3>5, <4>1, <4>2, <4>3 DEF Kept
    <3> QED BY <1>0, <2>3, <3>6, <3>7, <3>8 DEF WalkInv
  <2> QED BY <2>6, <2>7
<1> QED BY <1>6, <1>7

LEMMA WalkLastFlush ==
  ASSUME WalkInv, LastFlush
  PROVE  WalkInv' /\ Walked' = Walked
<1> DEFINE U == Unique(log)
<1>0. /\ log \in Logs /\ UNCHANGED <<log, next, evaluated, seen>>
      /\ pc = "read" /\ ready = {} /\ pool = {}
      /\ Admitted(log)' /\ Len(log) \in Nat /\ next = Len(log)
  BY LogsAssumption DEF WalkInv, Admitted, Placed, LastFlush
<1>1. Unique(log)' = U /\ Known' = Known /\ (next > 0 => FirstIn(log, next)' = FirstIn(log, next))
  BY <1>0 DEF Known
<1>2. U \subseteq Known
  BY <1>0, UptoGrows DEF Known, Unique, FirstCopies
<1>3. /\ before' = NoBound /\ ready' = pending /\ pending' = {}
      /\ pool' = IF pending = {} THEN {} ELSE evaluated \cup pending
      /\ pc' = IF pending = {} THEN "done" ELSE "flush"
  BY DEF LastFlush, StartFlush, Below
<1>4. \A r \in U : r.ts \in Nat
  BY <1>0, UniqueTyped
<1>5. MaxWindow \in Nat
  BY WindowsWithinMax
<1>6. /\ pending \subseteq Known \cap U /\ evaluated \subseteq Walked
      /\ Walked = (Known \cap U) \ pending
  BY <1>0 DEF WalkInv, Placed, Walked
<1> HIDE DEF U
<1>7. Walked' = Walked
  BY <1>1, <1>3, <1>6 DEF Walked
<1>8. Placed'
  BY <1>0, <1>1, <1>3, <1>6, <1>7 DEF WalkInv, Placed, U
<1>9. ASSUME pending # {}
      PROVE  /\ before \in Nat
             /\ \A r \in Walked : r.ts < before
             /\ \A r \in pending : r.ts >= before
             /\ \A r \in Walked : r.ts > before - MaxWindow => r \in evaluated
  BY <1>0, <1>9 DEF WalkInv, Parted, Kept
<1>10. Parted'
  <2>1. ASSUME NEW r \in Walked, NEW s \in pending PROVE SortsBefore(r, s)
    <3>1. r.ts \in Nat /\ s.ts \in Nat /\ before \in Nat /\ r.ts < before /\ before <= s.ts
      BY <1>4, <1>6, <1>9
    <3> QED BY <3>1 DEF SortsBefore
  <2> QED BY <1>0, <1>1, <1>3, <1>7, <2>1 DEF Parted, NoBound
<1>11. Kept'
  <2>1. ASSUME NEW q \in pending, NEW r \in U, q.ts - MaxWindow < r.ts, r.ts <= q.ts
        PROVE  r \in evaluated \cup pending
    <3>1. q.ts \in Nat /\ r.ts \in Nat /\ before \in Nat /\ q.ts >= before
      BY <1>4, <1>6, <1>9
    <3>2. CASE r \in Walked
      BY <1>5, <1>9, <2>1, <3>1, <3>2
    <3> QED BY <1>2, <1>6, <3>2
  <2> QED BY <1>1, <1>3, <2>1 DEF Kept
<1> QED BY <1>0, <1>7, <1>8, <1>10, <1>11 DEF WalkInv

\* The point evaluated next comes before all others that are not walked yet.
LEMMA PointIsNext ==
  ASSUME WalkInv, EvaluatePoint
  PROVE  LET r == First(ready)
         IN  /\ r \in ready /\ r \in Unique(log) \ Walked /\ r.ts \in Nat
             /\ \A s \in Unique(log) \ Walked : s = r \/ SortsBefore(r, s)
             /\ \A w \in Walked : w.ts <= r.ts
             /\ Walked' = Walked \cup {r}
<1> DEFINE U == Unique(log)
           r == First(ready)
<1>0. /\ log \in Logs /\ ready # {} /\ ready \subseteq Known \cap U
      /\ pending \subseteq Known \cap U /\ pending \cap ready = {} /\ pc = "flush"
      /\ UNCHANGED <<log, next, pending>> /\ ready' = ready \ {r}
  BY DEF WalkInv, Admitted, Placed, EvaluatePoint, held
<1>1. \A s \in U : s.ts \in Nat
  BY <1>0, UniqueTyped
<1>2. r \in ready /\ \A s \in ready : s = r \/ SortsBefore(r, s)
  BY <1>0, FirstIsFirst
<1> HIDE DEF r
<1>3. ASSUME NEW s \in U \ Walked, s \notin ready PROVE SortsBefore(r, s)
  <2>1. s \in pending \cup (U \ Known)
    BY <1>3 DEF Walked
  <2>2. CASE before = NoBound
    <3>1. U \subseteq Known /\ pending = {}
      BY <1>0, <2>2, UptoGrows DEF WalkInv, Parted, Known, Unique, FirstCopies
    <3> QED BY <2>1, <3>1
  <2>3. CASE before # NoBound
    <3>1. before \in Nat /\ r.ts < before /\ s.ts >= before
      BY <1>2, <2>1, <2>3 DEF WalkInv, Parted
    <3>2. r.ts \in Nat /\ s.ts \in Nat
      BY <1>0, <1>1, <1>2, <1>3
    <3> QED BY <3>1, <3>2 DEF SortsBefore
  <2> QED BY <2>2, <2>3
<1>4. r \in U \ Walked /\ r.ts \in Nat
  BY <1>0, <1>1, <1>2 DEF Walked
<1>5. ASSUME NEW w \in Walked PROVE w.ts <= r.ts
  <2>1. SortsBefore(w, r)
    BY <1>2 DEF WalkInv, Parted
  <2>2. w.ts \in Nat
    BY <1>1 DEF Walked
  <2> QED BY <1>4, <2>1, <2>2 DEF SortsBefore
<1>6. Walked' = Walked \cup {r}
  BY <1>0, <1>2 DEF Walked, Known
<1> QED BY <1>2, <1>3, <1>4, <1>5, <1>6 DEF r

LEMMA WalkEvaluatePoint ==
  ASSUME WalkInv, EvaluatePoint
  PROVE  WalkInv'
<1> DEFINE r == First(ready)
<1>1. /\ r \in ready /\ r \in Unique(log) \ Walked
      /\ \A s \in Unique(log) \ Walked : s = r \/ SortsBefore(r, s)
      /\ Walked' = Walked \cup {r}
  BY PointIsNext
<1> HIDE DEF r
<1>2. /\ pc = "flush" /\ ready' = ready \ {r}
      /\ UNCHANGED <<log, next, pending, evaluated, seen, pool, before, pc>>
  BY DEF EvaluatePoint, held, r
<1>3. /\ Unique(log)' = Unique(log) /\ Known' = Known /\ Admitted(log)'
      /\ FirstIn(log, next)' = FirstIn(log, next)
  BY <1>2 DEF Known, WalkInv
<1>4. Placed'
  BY <1>1, <1>2, <1>3 DEF WalkInv, Placed
<1>5. ready \subseteq Unique(log) \ Walked
  BY DEF WalkInv, Placed, Walked
<1>6. Parted'
  <2>1. \A w \in Walked' : \A s \in ready' : SortsBefore(w, s)
    BY <1>1, <1>2, <1>5 DEF WalkInv, Parted
  <2>2. Walked' \cup ready' = Walked \cup ready
    BY <1>1, <1>2
  <2> QED BY <1>2, <1>3, <2>1, <2>2 DEF WalkInv, Parted
<1>7. Kept'
  <2>1. r \in pool
    BY <1>1 DEF WalkInv, Placed
  <2> QED BY <1>1, <1>2, <1>3, <2>1 DEF WalkInv, Kept
<1> QED BY <1>3, <1>4, <1>6, <1>7 DEF WalkInv

LEMMA WalkEndFlush ==
  ASSUME WalkInv, EndFlush
  PROVE  WalkInv' /\ Walked' = Walked
<1>1. /\ pc = "flush" /\ ready = {} /\ pool' = {}
      /\ UNCHANGED <<log, next, pending, ready, before>>
  BY DEF EndFlush
<1>2. /\ Unique(log)' = Unique(log) /\ Known' = Known /\ Admitted(log)' /\ log \in Logs
      /\ FirstIn(log, next)' = FirstIn(log, next)
  BY <1>1 DEF Known, WalkInv, Admitted
<1>3. Walked' = Walked
  BY <1>1, <1>2 DEF Walked
<1>4. pool \subseteq Walked
  BY <1>1 DEF WalkInv, Placed, Walked
<1>5. CASE before = NoBound
  <2>1. evaluated' = pool /\ seen' = seen /\ pc' = "done"
    BY <1>5 DEF EndFlush
  <2>2. Placed'
    BY <1>1, <1>2, <1>3, <1>4, <2>1 DEF WalkInv, Placed
  <2>3. Parted'
    BY <1>1, <1>2, <1>3, <1>5, <2>1 DEF WalkInv, Parted
  <2>4. Kept'
    BY <1>1, <2>1 DEF Kept
  <2> QED BY <1>2, <1>3, <2>2, <2>3, <2>4 DEF WalkInv
<1>6. CASE before # NoBound
  <2>1. evaluated' = LookBack(pool, before) /\ seen' = KeysKept(seen, before) /\ pc' = "read"
    BY <1>6 DEF EndFlush
  <2>2. /\ before \in Nat /\ MaxWindow \in Nat /\ Margin \in Nat \ {0}
        /\ FirstIn(log, next) \subseteq pending
        /\ \A r \in pending : r.ts >= before
    BY <1>6, WindowsWithinMax, LogsAssumption DEF WalkInv, Parted
  <2>3. \A r \in Unique(log) : r.ts \in Nat
    BY <1>2, UniqueTyped
  <2>4. next > 0 => FirstIn(log, next) \subseteq seen'
    <3>1. ASSUME NEW r \in FirstIn(log, next) PROVE r.ts > before - (MaxWindow + Margin)
      <4>1. r.ts \in Nat /\ r.ts >= before
        BY <2>2, <2>3 DEF FirstIn
      <4> QED BY <2>2, <4>1
    <3> QED BY <2>1, <3>1 DEF WalkInv, Placed, KeysKept
  <2>5. Placed'
    BY <1>1, <1>2, <1>3, <1>4, <2>1, <2>4 DEF WalkInv, Placed, LookBack, KeysKept
  <2>6. Parted'
    BY <1>1, <1>2, <1>3, <1>6, <2>1 DEF WalkInv, Parted
  <2>7. Kept'
    <3>1. \A r \in Walked : r.ts > before - MaxWindow => r \in evaluated'
      BY <1>1, <1>6, <2>1 DEF WalkInv, Kept, LookBack
    <3>2. \A r \in evaluated' : r.ts > before - MaxWindow
      BY <2>1 DEF LookBack
    <3>3. ASSUME NEW r \in seen' PROVE r.ts > before - MaxWindow - Margin
      <4>1. r \in seen /\ r.ts > before - (MaxWindow + Margin)
        BY <2>1 DEF KeysKept
      <4>2. r.ts \in Nat
        BY <2>3, <4>1 DEF WalkInv, Placed
      <4> QED BY <2>2, <4>1, <4>2
    <3> QED BY <1>1, <1>3, <2>1, <3>1, <3>2, <3>3 DEF Kept
  <2> QED BY <1>2, <1>3, <2>5, <2>6, <2>7 DEF WalkInv
<1> QED BY <1>5, <1>6

LEMMA WalkNext == WalkInv /\ [Next]_vars => WalkInv'
<1> SUFFICES ASSUME WalkInv, [Next]_vars PROVE WalkInv'
  OBVIOUS
<1>1. CASE UNCHANGED vars
  <2>1. UNCHANGED <<Known, Walked>>
    BY <1>1 DEF vars, held, Known, Walked
  <2> QED BY <1>1, <2>1 DEF vars, held, WalkInv, Placed, Parted, Kept
<1> QED BY <1>1, WalkReadFile, WalkLastFlush, WalkEvaluatePoint, WalkEndFlush DEF Next

LEMMA WalkInductive == Spec => []WalkInv
<1> QED BY WalkInit, WalkNext, PTL DEF Spec

\* Every variable has its type, and the parts of the walk's memory fit
\* together (evaluate_stream).
THEOREM StreamTypeCorrect == Spec => []TypeOK
<1>1. WalkInv => TypeOK
  BY DEF WalkInv, Placed, TypeOK, Walked
<1> QED BY <1>1, WalkInductive, PTL

\* A window that lies within the look-back is the same in the pool and in the
\* whole record set.
LEMMA WindowsAgree ==
  ASSUME WalkInv, NEW q \in ready, NEW i \in DOMAIN Rules
  PROVE  Window(pool, q.ts, Rules[i].window) = Window(Unique(log), q.ts, Rules[i].window)
<1>1. pool \subseteq Unique(log) /\ q \in Unique(log) /\ log \in Logs
  BY DEF WalkInv, Placed, Admitted
<1>2. MaxWindow \in Nat /\ Rules[i].window \in Nat /\ Rules[i].window <= MaxWindow
  BY WindowsWithinMax
<1>3. ASSUME NEW r \in Unique(log), q.ts - Rules[i].window < r.ts, r.ts <= q.ts
      PROVE  r \in pool
  <2>1. r.ts \in Nat /\ q.ts \in Nat
    BY <1>1, UniqueTyped
  <2>2. q.ts - MaxWindow < r.ts
    BY <1>2, <1>3, <2>1
  <2> QED BY <1>3, <2>2 DEF WalkInv, Kept
<1> QED BY <1>1, <1>3 DEF Window

\* Every window an evaluation point asks for is complete, however the file
\* boundaries lie (decision_engine.py:352).
THEOREM WindowsAreComplete == Spec => []WindowIsComplete
<1>1. WalkInv => WindowIsComplete
  BY WindowsAgree DEF WindowIsComplete
<1> QED BY <1>1, WalkInductive, PTL

\* Between two files nothing older than the look-back of the earliest pending
\* record is held (decision_engine.py:325-327).
THEOREM MemoryIsBounded == Spec => []HeldIsBounded
<1>1. WalkInv => HeldIsBounded
  <2> SUFFICES ASSUME WalkInv, pc = "read", pending # {}
               PROVE  /\ \A r \in evaluated : r.ts > Earliest(pending) - MaxWindow
                      /\ \A r \in seen : r.ts > Earliest(pending) - MaxWindow - Margin
    BY DEF HeldIsBounded
  <2> DEFINE T == {r.ts : r \in pending}
  <2>1. /\ before \in Nat /\ before # NoBound
        /\ \E r \in pending : r.ts = before
        /\ \A r \in pending : r.ts >= before
    BY DEF WalkInv, Parted
  <2>2. \A r \in pending : r.ts \in Nat
    BY UniqueTyped DEF WalkInv, Placed, Admitted
  <2>3. Earliest(pending) = before
    <3>1. before \in T /\ \A x \in T : before <= x
      BY <2>1, <2>2
    <3>2. T \subseteq Nat
      BY <2>2
    <3> HIDE DEF T
    <3>3. \A x \in T : (\A y \in T : x <= y) => x = before
      BY <2>1, <3>1, <3>2
    <3>4. Min(T) = before
      BY <3>1, <3>3 DEF Min
    <3> QED BY <3>4 DEF Earliest, T
  <2> QED BY <2>1, <2>3 DEF WalkInv, Kept
<1> QED BY <1>1, WalkInductive, PTL

-----------------------------------------------------------------------------
(* The stream implements the walk over the whole record set.               *)

\* A point is decided against the pool as against all records.
LEMMA DecidesAlike ==
  ASSUME WalkInv, NEW q \in ready, NEW st
  PROVE  Decide(pool, q, st) = Decide(Unique(log), q, st)
<1>1. \A i \in DOMAIN Rules : Holds(Rules[i], pool, q.ts) = Holds(Rules[i], Unique(log), q.ts)
  BY WindowsAgree DEF Holds
<1>2. Matching(pool, q.ts) = Matching(Unique(log), q.ts)
  BY <1>1 DEF Matching
<1> QED BY <1>2 DEF Decide

LEMMA WalkStep == WalkInv /\ [Next]_vars => [Walk!Next]_(Walk!vars)
<1> SUFFICES ASSUME WalkInv, [Next]_vars PROVE [Walk!Next]_(Walk!vars)
  OBVIOUS
<1>1. ASSUME UNCHANGED <<log, Walked, state, decisions>>
      PROVE  UNCHANGED Walk!vars
  BY <1>1 DEF Walk!vars
<1>2. CASE ReadFile
  BY <1>1, <1>2, WalkReadFile DEF ReadFile
<1>3. CASE LastFlush
  BY <1>1, <1>3, WalkLastFlush DEF LastFlush
<1>4. CASE EndFlush
  BY <1>1, <1>4, WalkEndFlush DEF EndFlush
<1>5. CASE UNCHANGED vars
  BY <1>1, <1>5 DEF vars, held, Walked, Known
<1>6. CASE EvaluatePoint
  <2> DEFINE r == First(ready)
  <2>1. /\ r \in ready /\ r \in Unique(log) \ Walked
        /\ \A s \in Unique(log) \ Walked : s = r \/ SortsBefore(r, s)
        /\ Walked' = Walked \cup {r}
    BY <1>6, PointIsNext
  <2>2. /\ state' = StateAfter(state, Decide(pool, r, state))
        /\ decisions' = Extend(decisions, Decide(pool, r, state))
        /\ log' = log
    BY <1>6 DEF EvaluatePoint
  <2> HIDE DEF r
  <2>3. Decide(pool, r, state) = Decide(Unique(log), r, state)
    BY <2>1, DecidesAlike
  <2>4. Walk!Evaluate(r)
    BY <2>1, <2>2, <2>3 DEF Walk!Evaluate
  <2> QED BY <2>1, <2>4 DEF Walk!Next
<1> QED BY <1>2, <1>3, <1>4, <1>5, <1>6 DEF Next

\* Evaluating file by file, with a bounded memory, is evaluating the whole
\* record set in order (decision_engine.py:304).
THEOREM StreamImplementsWalk == Spec => ImplementsClusterWalk
<1>1. Init => Walk!Init
  <2> SUFFICES ASSUME Init PROVE Walk!Init
    OBVIOUS
  <2>1. Known = {}
    BY UptoGrows, LogsAssumption DEF Init, InitWith, Known
  <2> QED BY <2>1 DEF Init, InitWith, Walk!Init, Walked
<1>2. WalkInv /\ [Next]_vars => [Walk!Next]_(Walk!vars)
  BY WalkStep
<1> QED BY <1>1, <1>2, WalkInductive, PTL DEF Spec, Walk!Spec, ImplementsClusterWalk

-----------------------------------------------------------------------------
(* The inductive invariant of the decisions. *)

Decision == [rule : DOMAIN Rules, ts : Nat, from : Nat, to : Nat]

LastOf(d) == d[Len(d)]

\* The state is what the last decision left behind, and every decision was
\* taken at a walked record, by the first rule that holds there.
Accounted ==
  /\ decisions \in Seq(Decision)
  /\ state = IF decisions = <<>> THEN InitialState(InitialWorkers)
             ELSE [workers |-> LastOf(decisions).to, last |-> LastOf(decisions).ts]
  /\ \A n \in DOMAIN decisions :
       /\ decisions[n].rule = Min(Matching(Unique(log), decisions[n].ts))
       /\ decisions[n].to = Rules[decisions[n].rule].target
       /\ \E r \in Walked : r.ts = decisions[n].ts

ChainInv == WalkInv /\ Accounted /\ DecisionsChain /\ DecisionKeysDiffer

\* A decision names a rule of the file, and is none of the absent ones.
LEMMA DecisionTyped ==
  ASSUME NEW records, NEW r, r.ts \in Nat, NEW st, st.workers \in Nat,
         Decide(records, r, st) # NoDecision
  PROVE  LET d == Decide(records, r, st)
             i == Min(Matching(records, r.ts))
         IN  /\ d = [rule |-> i, ts |-> r.ts, from |-> st.workers, to |-> Rules[i].target]
             /\ d \in Decision
             /\ GatesAllow(Rules[i], st, r.ts)
<1> DEFINE i == Min(Matching(records, r.ts))
<1>1. /\ Matching(records, r.ts) # {} /\ GatesAllow(Rules[i], st, r.ts)
      /\ Decide(records, r, st)
           = [rule |-> i, ts |-> r.ts, from |-> st.workers, to |-> Rules[i].target]
  BY DEF Decide
<1>2. i \in DOMAIN Rules
  <2>1. IsFiniteSet(DOMAIN Rules) /\ DOMAIN Rules \subseteq Int
    BY RulesSequence, FS_Interval
  <2>2. IsFiniteSet(Matching(records, r.ts)) /\ Matching(records, r.ts) \subseteq DOMAIN Rules
    BY <2>1, FS_Subset DEF Matching
  <2> QED BY <1>1, <2>1, <2>2, MinIsLeast
<1> HIDE DEF i
<1>3. Rules[i].target \in Nat
  BY <1>2, RulesAssumption DEF IsRule
<1>4. Decide(records, r, st) \in Decision
  BY <1>1, <1>2, <1>3 DEF Decision
<1> QED BY <1>1, <1>4 DEF i

LEMMA ChainInit == Init => ChainInv
<1> SUFFICES ASSUME Init PROVE ChainInv
  OBVIOUS
<1>1. decisions = <<>> /\ state = InitialState(InitialWorkers)
  BY DEF Init, InitWith
<1>2. Accounted /\ DecisionsChain /\ DecisionKeysDiffer
  BY <1>1 DEF Accounted, DecisionsChain, DecisionKeysDiffer
<1> QED BY <1>2, WalkInit DEF ChainInv

\* The state is typed; before the first decision nothing cools down.
LEMMA StateTyped ==
  ASSUME Accounted
  PROVE  /\ state.workers \in Nat
         /\ decisions = <<>> => state.workers = InitialWorkers
         /\ decisions # <<>> =>
              /\ LastOf(decisions) \in Decision
              /\ state.workers = LastOf(decisions).to
              /\ state.last = LastOf(decisions).ts /\ state.last # Never
<1>1. CASE decisions = <<>>
  BY <1>1, LogsAssumption DEF Accounted, InitialState
<1>2. CASE decisions # <<>>
  <2>1. LastOf(decisions) \in Decision
    BY <1>2 DEF Accounted, LastOf
  <2> QED BY <1>2, <2>1 DEF Accounted, Decision, Never
<1> QED BY <1>1, <1>2

LEMMA ChainEvaluatePoint ==
  ASSUME ChainInv, EvaluatePoint
  PROVE  ChainInv'
<1> DEFINE r == First(ready)
           d == Decide(Unique(log), r, state)
           n == Len(decisions)
<1>1. /\ r \in ready /\ r.ts \in Nat
      /\ \A w \in Walked : w.ts <= r.ts
      /\ Walked' = Walked \cup {r}
  BY PointIsNext DEF ChainInv
<1>2. state' = StateAfter(state, d) /\ decisions' = Extend(decisions, d) /\ log' = log
  <2>1. Decide(pool, r, state) = d
    BY <1>1, DecidesAlike DEF ChainInv
  <2> QED BY <2>1 DEF EvaluatePoint
<1>3. state.workers \in Nat
  BY StateTyped DEF ChainInv
<1>4. /\ decisions \in Seq(Decision) /\ n \in Nat /\ DOMAIN decisions = 1..n
      /\ (decisions = <<>> <=> n = 0)
  BY DEF ChainInv, Accounted
<1>5. WalkInv'
  BY WalkEvaluatePoint DEF ChainInv
<1>6. Unique(log)' = Unique(log)
  BY <1>2
<1> HIDE DEF r
<1>7. CASE d = NoDecision
  <2>1. state' = state /\ decisions' = decisions
    BY <1>2, <1>7 DEF StateAfter, Extend
  <2>2. Accounted'
    BY <1>1, <1>6, <2>1 DEF ChainInv, Accounted, LastOf
  <2>3. DecisionsChain' /\ DecisionKeysDiffer'
    BY <2>1 DEF ChainInv, DecisionsChain, DecisionKeysDiffer
  <2> QED BY <1>5, <2>2, <2>3 DEF ChainInv
<1>8. CASE d # NoDecision
  <2> DEFINE i == Min(Matching(Unique(log), r.ts))
  <2>1. /\ d = [rule |-> i, ts |-> r.ts, from |-> state.workers, to |-> Rules[i].target]
        /\ d \in Decision
        /\ GatesAllow(Rules[i], state, r.ts)
    BY <1>1, <1>3, <1>8, DecisionTyped
  <2> HIDE DEF d, i
  <2>2. state' = [workers |-> d.to, last |-> d.ts] /\ decisions' = Append(decisions, d)
    BY <1>2, <1>8 DEF StateAfter, Extend
  <2>3. /\ decisions' \in Seq(Decision) /\ Len(decisions') = n + 1
        /\ DOMAIN decisions' = 1..(n + 1) /\ decisions'[n + 1] = d
        /\ \A m \in 1..n : decisions'[m] = decisions[m]
    BY <1>4, <2>1, <2>2
  <2>4. /\ d.rule = i /\ d.ts = r.ts /\ d.from = state.workers /\ d.to = Rules[i].target
        /\ d.from # d.to
    BY <2>1 DEF GatesAllow
  <2>5. Accounted'
    <3>1. state' = [workers |-> LastOf(decisions').to, last |-> LastOf(decisions').ts]
          /\ decisions' # <<>>
      BY <1>4, <2>2, <2>3 DEF LastOf
    <3>2. ASSUME NEW m \in 1..n
          PROVE  /\ decisions'[m].rule = Min(Matching(Unique(log), decisions'[m].ts))
                 /\ decisions'[m].to = Rules[decisions'[m].rule].target
                 /\ \E w \in Walked' : w.ts = decisions'[m].ts
      BY <1>1, <1>4, <2>3 DEF ChainInv, Accounted
    <3>3. /\ d.rule = Min(Matching(Unique(log), d.ts))
          /\ d.to = Rules[d.rule].target
          /\ \E w \in Walked' : w.ts = d.ts
      BY <1>1, <2>4 DEF i
    <3>4. \A m \in 1..(n + 1) : m \in 1..n \/ m = n + 1
      BY <1>4
    <3> QED BY <1>6, <2>3, <3>1, <3>2, <3>3, <3>4 DEF Accounted
  <2>6. ASSUME n > 0
        PROVE  /\ d.from = decisions[n].to
               /\ d.ts >= decisions[n].ts + Rules[d.rule].cooldown
    <3>1. /\ state.workers = decisions[n].to /\ state.last = decisions[n].ts
          /\ state.last # Never
      BY <1>4, <2>6, StateTyped DEF ChainInv, LastOf
    <3> QED BY <2>1, <2>4, <3>1 DEF GatesAllow
  <2>7. DecisionsChain'
    <3>1. ASSUME n = 0 PROVE d.from = InitialWorkers
      BY <1>4, <2>4, <3>1, StateTyped DEF ChainInv
    <3>2. \A m \in 1..(n + 1) : (m \in 1..n /\ m # n + 1) \/ m = n + 1
      BY <1>4
    <3>3. ASSUME NEW m \in 1..n
          PROVE  /\ decisions'[m].from = IF m = 1 THEN InitialWorkers ELSE decisions'[m - 1].to
                 /\ decisions'[m].from # decisions'[m].to
                 /\ m > 1 => decisions'[m].ts >= decisions'[m - 1].ts
                                                   + Rules[decisions'[m].rule].cooldown
      <4>1. m = 1 \/ (m > 1 /\ m - 1 \in 1..n)
        BY <1>4
      <4> QED BY <1>4, <2>3, <4>1 DEF ChainInv, DecisionsChain
    <3>4. /\ d.from = IF n + 1 = 1 THEN InitialWorkers ELSE decisions'[n].to
          /\ n + 1 > 1 => d.ts >= decisions'[n].ts + Rules[d.rule].cooldown
      BY <1>4, <2>3, <2>6, <3>1
    <3>5. (n + 1) - 1 = n
      BY <1>4
    <3> QED BY <2>3, <2>4, <3>2, <3>3, <3>4, <3>5 DEF DecisionsChain
  <2>8. \* Two points of one timestamp match the same rule, and its target is met.
        \A m \in 1..n : decisions[m].ts < d.ts
    <3>1. ASSUME NEW m \in 1..n PROVE decisions[m] \in Decision /\ decisions[m].ts \in Nat
      <4>1. decisions[m] \in Decision
        BY <1>4
      <4> QED BY <4>1 DEF Decision
    <3>2. ASSUME NEW m \in 1..n PROVE decisions[m].ts <= d.ts
      BY <1>1, <1>4, <2>4 DEF ChainInv, Accounted
    <3>3. ASSUME n > 0 PROVE decisions[n].ts # d.ts
      <4>1. SUFFICES ASSUME decisions[n].ts = r.ts PROVE FALSE
        BY <2>4
      <4>2. n \in 1..n
        BY <1>4, <3>3
      <4>3. decisions[n].to = Rules[i].target
        BY <1>4, <4>1, <4>2 DEF ChainInv, Accounted, i
      <4> QED BY <2>4, <2>6, <3>3, <4>3
    <3>4. ASSUME NEW m \in 1..n, m # n PROVE decisions[m].ts < decisions[n].ts
      <4> HIDE DEF n
      <4>0. n \in Nat /\ m \in 1..n /\ m # n
        BY <1>4, <3>4
      <4>1. n \in 1..n /\ m < n
        BY <4>0
      <4>2. m \in DOMAIN decisions /\ n \in DOMAIN decisions
        BY <1>4, <4>1
      <4>3. DecisionKeysDiffer
        BY DEF ChainInv
      <4> QED BY <4>1, <4>2, <4>3 DEF DecisionKeysDiffer
    <3>5. d.ts \in Nat
      BY <1>1, <2>4
    <3>6. ASSUME NEW m \in 1..n PROVE decisions[m].ts < d.ts
      <4>1. n \in 1..n /\ n > 0
        BY <1>4
      <4>2. CASE m = n
        BY <3>1, <3>2, <3>3, <3>5, <4>1, <4>2
      <4>3. CASE m # n
        BY <3>1, <3>2, <3>4, <3>5, <4>1, <4>3
      <4> QED BY <4>2, <4>3
    <3> QED BY <3>6
  <2>9. DecisionKeysDiffer'
    BY <1>4, <2>3, <2>8 DEF ChainInv, DecisionKeysDiffer
  <2> QED BY <1>5, <2>5, <2>7, <2>9 DEF ChainInv
<1> QED BY <1>7, <1>8

LEMMA ChainInductive == Spec => []ChainInv
<1>1. ChainInv /\ [Next]_vars => ChainInv'
  <2> SUFFICES ASSUME ChainInv, [Next]_vars PROVE ChainInv'
    OBVIOUS
  <2>1. ASSUME UNCHANGED <<log, state, decisions>>, Walked' = Walked
        PROVE  Accounted' /\ DecisionsChain' /\ DecisionKeysDiffer'
    BY <2>1 DEF ChainInv, Accounted, DecisionsChain, DecisionKeysDiffer
  <2>2. WalkInv'
    BY WalkNext DEF ChainInv
  <2>3. CASE ReadFile
    BY <2>1, <2>2, <2>3, WalkReadFile DEF ReadFile, ChainInv
  <2>4. CASE LastFlush
    BY <2>1, <2>2, <2>4, WalkLastFlush DEF LastFlush, ChainInv
  <2>5. CASE EndFlush
    BY <2>1, <2>2, <2>5, WalkEndFlush DEF EndFlush, ChainInv
  <2>6. CASE UNCHANGED vars
    BY <2>1, <2>2, <2>6 DEF vars, held, Walked, Known, ChainInv
  <2> QED BY <2>3, <2>4, <2>5, <2>6, ChainEvaluatePoint DEF Next
<1> QED BY <1>1, ChainInit, PTL DEF Spec

\* Decisions chain up and keep the cooldown, also across files (README 6.4).
THEOREM DecisionsChainUp == Spec => []DecisionsChain
<1>1. ChainInv => DecisionsChain
  BY DEF ChainInv
<1> QED BY <1>1, ChainInductive, PTL

\* No two decisions of a cluster share the table's key (models.py:17-18).
THEOREM DecisionKeysAreUnique == Spec => []DecisionKeysDiffer
<1>1. ChainInv => DecisionKeysDiffer
  BY DEF ChainInv
<1> QED BY <1>1, ChainInductive, PTL
=============================================================================
