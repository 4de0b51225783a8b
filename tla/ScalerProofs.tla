---------------------------- MODULE ScalerProofs ----------------------------
(***************************************************************************)
(* Theorems about the worker pool, for every set of workers, messages and  *)
(* clusters, every batch size and every number of mishaps.                 *)
(***************************************************************************)
EXTENDS Scaler, FiniteSetTheorems, TLAPS

-----------------------------------------------------------------------------
(* What a completed file set is. *)

\* The announced files of a cluster are finitely many keys of the bucket.
LEMMA LogFilesFinite ==
  ASSUME NEW c \in Cluster
  PROVE  IsFiniteSet(LogFiles(c)) /\ LogFiles(c) \subseteq Key
<1>1. IsFiniteSet(MessagesOf(c))
  BY ManifestAssumption, FS_Subset DEF MessagesOf
<1>2. IsFiniteSet(LogFiles(c))
  <2> DEFINE key == [m \in MessagesOf(c) |-> KeyOf[m]]
  <2>1. key \in Surjection(MessagesOf(c), LogFiles(c))
    BY DEF Surjection, LogFiles
  <2> QED BY <1>1, <2>1, FS_Surjection
<1>3. LogFiles(c) \subseteq Key
  BY MessagesAssumption DEF LogFiles, MessagesOf
<1> QED BY <1>2, <1>3

\* is_complete counts keys; because the manifest tells the true number of
\* files, a set of known files that is complete is the set of all of them.
LEMMA CompleteIsAll ==
  ASSUME NEW c \in Cluster, NEW S \in SUBSET LogFiles(c), IsComplete(c, S)
  PROVE  S = LogFiles(c)
<1>1. IsFiniteSet(S) /\ Cardinality(S) <= Cardinality(LogFiles(c))
  BY LogFilesFinite, FS_Subset
<1>2. Cardinality(S) \in Nat /\ Cardinality(LogFiles(c)) \in Nat
  BY <1>1, LogFilesFinite, FS_CardinalityType
<1>3. Cardinality(S) = Cardinality(LogFiles(c))
  BY <1>1, <1>2, ManifestAssumption DEF IsComplete
<1> QED BY <1>3, LogFilesFinite, FS_Subset

-----------------------------------------------------------------------------
(* Types. *)

\* A worker past the checks of handle_message handles a message of a cluster
\* of the manifest, whose object existed.
JobValid ==
  \A w \in Worker : pc[w] \in {"register", "walk", "announce"} => Valid(job[w])

Typed == TypeOK /\ JobValid

LEMMA NextRanksFinite ==
  ASSUME NEW w \in Worker, written[w] \in Nat, Valid(job[w])
  PROVE  /\ NextRanks(w) \subseteq 1..NumDecisions[ClusterOf[job[w]]]
         /\ Cardinality(NextRanks(w)) \in Nat
<1> DEFINE D == NumDecisions[ClusterOf[job[w]]]
<1>1. D \in Nat
  BY SizesAssumption DEF Valid
<1>2. NextRanks(w) \subseteq 1..D
  BY DEF NextRanks
<1>3. IsFiniteSet(NextRanks(w))
  <2>1. IsFiniteSet(1..D)
    BY <1>1, FS_Interval
  <2> QED BY <1>2, <2>1, FS_Subset
<1> QED BY <1>2, <1>3, FS_CardinalityType

LEMMA ItemTyped ==
  ASSUME NEW c \in Cluster, NEW S \in SUBSET Key, NEW n \in 1..NumDecisions[c]
  PROVE  Item(c, S, n) \in AllItems
<1>1. Item(c, S, n) \in Decisions(c, S)
  BY DEF Decisions
<1>2. Decisions(c, S) \in {Decisions(d, T) : d \in Cluster, T \in SUBSET Key}
  OBVIOUS
<1> QED BY <1>1, <1>2 DEF AllItems

LEMMA TypedInit == Init => Typed
<1> SUFFICES ASSUME Init PROVE Typed
  OBVIOUS
<1>1. TypeOK
  BY DEF Init, MemoryInit, TypeOK, Place
<1>2. JobValid
  BY DEF Init, MemoryInit, JobValid
<1> QED BY <1>1, <1>2 DEF Typed

LEMMA TypedStep ==
  ASSUME Typed, NEW w \in Worker, Step(w)
  PROVE  Typed'
<1> USE DEF Typed, TypeOK, JobValid, Place
<1>1. CASE Receive(w)
  BY <1>1 DEF Receive, memory, walk, outside
<1>2. CASE PollAgain(w)
  BY <1>2 DEF PollAgain, vars, memory, walk, outside, Valid
<1>3. CASE Exit(w)
  BY <1>3 DEF Exit, memory, walk, outside
<1>4. CASE BatchDone(w)
  BY <1>4 DEF BatchDone, memory, walk, outside
<1>5. CASE TakeMessage(w)
  <2>1. PICK m \in batch[w] :
          /\ batch' = [batch EXCEPT ![w] = @ \ {m}]
          /\ job' = [job EXCEPT ![w] = m]
          /\ pc' = [pc EXCEPT ![w] = IF CanNeverSucceed(m) THEN "ack" ELSE "register"]
    BY <1>5 DEF TakeMessage
  <2>2. m \in Message /\ m # NoMessage
    BY MessagesAssumption
  <2>3. UNCHANGED <<queue, files, evaluating, evaluated, announced, snapshot, unread,
                    written, stored, table, stop, used>>
    BY <1>5 DEF TakeMessage, memory, walk, outside
  <2>4. TypeOK'
    BY <2>1, <2>2, <2>3
  <2>5. JobValid'
    BY <2>1, <2>2, <2>3 DEF CanNeverSucceed, Valid
  <2> QED BY <2>4, <2>5
<1>6. CASE Register(w)
  <2> DEFINE c == ClusterOf[job[w]]
             S == files[c] \cup {KeyOf[job[w]]}
  <2>1. pc[w] = "register" /\ (IgnoreLate(w, c) \/ Remember(w, c, S) \/ Claim(w, c, S))
    BY <1>6 DEF Register
  <2>2. Valid(job[w]) /\ c \in Cluster /\ job[w] \in Message /\ job[w] # NoMessage
    BY <2>1, MessagesAssumption DEF Valid
  <2>3. S \subseteq Key
    BY <2>2, MessagesAssumption
  <2>4. UNCHANGED <<queue, batch, job, stored, table, stop, used>>
    BY <1>6 DEF Register, outside
  <2> HIDE DEF c, S
  <2>5. CASE IgnoreLate(w, c)
    BY <2>1, <2>2, <2>4, <2>5 DEF IgnoreLate, memory, walk, Valid
  <2>6. CASE Remember(w, c, S)
    BY <2>1, <2>2, <2>3, <2>4, <2>6 DEF Remember, walk, Valid
  <2>7. CASE Claim(w, c, S)
    BY <2>1, <2>2, <2>3, <2>4, <2>7 DEF Claim, Valid
  <2> QED BY <2>1, <2>5, <2>6, <2>7
<1>7. CASE ReadFile(w)
  BY <1>7 DEF ReadFile, memory, walk, outside
<1>8. CASE WriteBatch(w)
  <2>1. pc[w] = "walk" /\ Valid(job[w]) /\ ClusterOf[job[w]] \in Cluster
    BY <1>8 DEF WriteBatch, Valid
  <2>2. /\ NextRanks(w) \subseteq 1..NumDecisions[ClusterOf[job[w]]]
        /\ Cardinality(NextRanks(w)) \in Nat
    BY <2>1, NextRanksFinite
  <2>3. table' \subseteq AllItems
    BY <1>8, <2>1, <2>2, ItemTyped DEF WriteBatch
  <2>4. written' \in [Worker -> Nat]
    BY <1>8, <2>2 DEF WriteBatch
  <2>5. UNCHANGED <<queue, batch, job, pc, files, evaluating, evaluated, announced,
                    snapshot, unread, stored, stop, used>>
    BY <1>8 DEF WriteBatch, memory
  <2>6. TypeOK' /\ JobValid'
    BY <2>3, <2>4, <2>5
  <2> QED BY <2>6
<1>9. CASE WalkMissesFile(w)
  BY <1>9 DEF WalkMissesFile, GiveUp, ForgetWalk, memory, walk, outside
<1>10. CASE Commit(w)
  BY <1>10 DEF Commit, ForgetWalk, memory, walk, outside
<1>11. CASE Announce(w)
  BY <1>11 DEF Announce, memory, walk, outside
<1>12. CASE Ack(w)
  BY <1>12 DEF Ack, Finished, memory, walk, outside
<1> QED BY <1>1, <1>2, <1>3, <1>4, <1>5, <1>6, <1>7, <1>8, <1>9, <1>10, <1>11, <1>12 DEF Step

LEMMA SpendTyped ==
  ASSUME TypeOK, NEW kind \in Mishap, Spend(kind)
  PROVE  used' \in [Mishap -> Nat]
BY DEF TypeOK, Spend

LEMMA TypedFault ==
  ASSUME Typed, NEW w \in Worker, Fault(w)
  PROVE  Typed'
<1> USE DEF Typed, TypeOK, JobValid, Place
<1>0. ASSUME Spend("fault") PROVE used' \in [Mishap -> Nat]
  BY <1>0, SpendTyped DEF Mishap
<1>1. CASE HeadFails(w)
  <2>1. used' \in [Mishap -> Nat]
    BY <1>0, <1>1 DEF HeadFails
  <2> QED BY <1>1, <2>1 DEF HeadFails, memory, walk, outside
<1>2. CASE WalkFails(w)
  <2>1. pc[w] = "walk" /\ Valid(job[w]) /\ ClusterOf[job[w]] \in Cluster
    BY <1>2 DEF WalkFails, Valid
  <2>2. NextRanks(w) \subseteq 1..NumDecisions[ClusterOf[job[w]]]
    BY <2>1, NextRanksFinite
  <2>3. table' \subseteq AllItems
    BY <1>2, <2>1, <2>2, ItemTyped DEF WalkFails
  <2>4. used' \in [Mishap -> Nat]
    BY <1>0, <1>2 DEF WalkFails
  <2> QED BY <1>2, <2>3, <2>4 DEF WalkFails, GiveUp, ForgetWalk
<1>3. CASE AckFails(w)
  <2>1. used' \in [Mishap -> Nat]
    BY <1>0, <1>3 DEF AckFails
  <2> QED BY <1>3, <2>1 DEF AckFails, Finished, memory, walk, outside
<1> QED BY <1>1, <1>2, <1>3 DEF Fault

LEMMA TypedNext == Typed /\ [Next]_vars => Typed'
<1> SUFFICES ASSUME Typed, [Next]_vars PROVE Typed'
  OBVIOUS
<1>1. ASSUME NEW w \in Worker, Step(w) \/ Fault(w) PROVE Typed'
  BY <1>1, TypedStep, TypedFault
<1>0. ASSUME NEW kind \in {"early", "restart", "lost"}, Spend(kind)
      PROVE  used' \in [Mishap -> Nat]
  BY <1>0, SpendTyped DEF Mishap, Typed
<1> USE DEF Typed, TypeOK, JobValid, Place
<1>2. ASSUME NEW m \in Message, Redeliver(m) \/ RedeliverEarly(m) PROVE Typed'
  <2>1. used' \in [Mishap -> Nat]
    BY <1>0, <1>2 DEF Redeliver, RedeliverEarly
  <2> QED BY <1>2, <2>1 DEF Redeliver, RedeliverEarly, Reappear, memory, walk, outside
<1>3. ASSUME NEW k \in Key, LoseObject(k) PROVE Typed'
  <2>1. used' \in [Mishap -> Nat]
    BY <1>0, <1>3 DEF LoseObject
  <2> QED BY <1>3, <2>1 DEF LoseObject, memory, walk
<1>4. CASE Stop
  <2>1. used' \in [Mishap -> Nat]
    BY <1>0, <1>4 DEF Stop
  <2> QED BY <1>4, <2>1 DEF Stop, memory, walk, outside
<1>5. CASE Restart
  <2>1. used' \in [Mishap -> Nat]
    BY <1>0, <1>5 DEF Restart
  <2> QED BY <1>5, <2>1 DEF Restart, outside
<1>6. CASE UNCHANGED vars
  BY <1>6 DEF vars, memory, walk, outside
<1> QED BY <1>1, <1>2, <1>3, <1>4, <1>5, <1>6 DEF Next

\* Every variable keeps its type, and a worker handles a message exactly
\* between taking it and finishing with it (handle_message).
THEOREM TypeCorrect == Spec => []TypeOK
<1>1. Init => Typed
  BY TypedInit
<1>2. Typed /\ [Next]_vars => Typed'
  BY TypedNext
<1>3. Typed => TypeOK
  BY DEF Typed
<1> QED BY <1>1, <1>2, <1>3, PTL DEF Spec

-----------------------------------------------------------------------------
(* Ownership and durability.  SingleOwner and the claims about the table   *)
(* are not inductive alone: that a walk writes genuine items needs that    *)
(* it was given all files, hence that only announced files are remembered; *)
(* that a committed cluster is durable needs what each walk has written.   *)

\* Only log files of the cluster are remembered.
FilesKnown == \A c \in Cluster : files[c] \subseteq LogFiles(c)

\* A walk has the cluster's whole file set, and the items it counts as
\* written are in the table.
WalkOf(w, c) ==
  /\ snapshot[w] = LogFiles(c)
  /\ written[w] \in 0..NumDecisions[c]
  /\ \A n \in 1..written[w] : Item(c, LogFiles(c), n) \in table

WalksAreWhole ==
  \A w \in Worker : IF pc[w] = "walk" THEN WalkOf(w, ClusterOf[job[w]]) ELSE written[w] = 0

\* A worker is sent to the announcement only after the last cluster.
AnnouncedAfterAll ==
  announced \/ (\E w \in Worker : pc[w] = "announce") => AllDone(evaluated)

Safe == /\ SingleOwner
        /\ FilesKnown
        /\ WalksAreWhole
        /\ OnlyGenuineItems
        /\ EvaluatedIsDurable
        /\ AnnouncedAfterAll

IInv == Typed /\ Safe

\* The ranks put_decisions is given next continue those already written, up
\* to the batch size or to the last decision.
LEMMA NextRanksContinue ==
  ASSUME NEW w \in Worker, NEW c \in Cluster, c = ClusterOf[job[w]],
         written[w] \in 0..NumDecisions[c]
  PROVE  /\ Cardinality(NextRanks(w)) \in Nat
         /\ written[w] + Cardinality(NextRanks(w)) <= NumDecisions[c]
         /\ NextRanks(w) = (written[w] + 1)..(written[w] + Cardinality(NextRanks(w)))
         /\ NextRanks(w) = {} => written[w] = NumDecisions[c]
<1> DEFINE D == NumDecisions[c]
           top == IF written[w] + BatchSize <= D THEN written[w] + BatchSize ELSE D
<1>1. D \in Nat /\ written[w] \in Nat /\ written[w] <= D /\ BatchSize \in Nat \ {0}
  BY SizesAssumption
<1>2. top \in Nat /\ written[w] <= top /\ top <= D /\ (top = written[w] => written[w] = D)
  BY <1>1
<1>3. NextRanks(w) = (written[w] + 1)..top
  BY <1>1 DEF NextRanks
<1> HIDE DEF top
<1>4. Cardinality(NextRanks(w)) = top - written[w]
  <2>1. Cardinality((written[w] + 1)..top)
          = IF written[w] + 1 > top THEN 0 ELSE top - (written[w] + 1) + 1
    <3>1. written[w] + 1 \in Int /\ top \in Int
      BY <1>1, <1>2
    <3> QED BY <3>1, FS_Interval
  <2> QED BY <1>1, <1>2, <1>3, <2>1
<1>5. NextRanks(w) = {} => top = written[w]
  BY <1>1, <1>2, <1>3
<1> QED BY <1>1, <1>2, <1>3, <1>4, <1>5

\* Most steps leave the buffers, the table and the walks alone.
LEMMA SafeQuiet ==
  ASSUME Safe,
         UNCHANGED <<files, evaluating, evaluated, announced, snapshot, written, table>>,
         \A w \in Worker : /\ pc'[w] = "walk" <=> pc[w] = "walk"
                           /\ pc'[w] = "announce" => pc[w] = "announce"
                           /\ pc[w] = "walk" => job'[w] = job[w]
  PROVE  Safe'
<1> USE DEF Safe
<1>1. \A c \in Cluster : Walkers(c)' = Walkers(c)
  BY DEF Walkers
<1>2. SingleOwner'
  BY <1>1 DEF SingleOwner
<1>3. FilesKnown' /\ OnlyGenuineItems' /\ EvaluatedIsDurable'
  BY DEF FilesKnown, OnlyGenuineItems, EvaluatedIsDurable
<1>4. WalksAreWhole'
  BY DEF WalksAreWhole, WalkOf
<1>5. AnnouncedAfterAll'
  BY DEF AnnouncedAfterAll, AllDone
<1> QED BY <1>2, <1>3, <1>4, <1>5

LEMMA SafeInit == Init => Safe
<1> SUFFICES ASSUME Init PROVE Safe
  OBVIOUS
<1> USE DEF Init, MemoryInit
<1>1. SingleOwner
  BY DEF SingleOwner, Walkers
<1>2. FilesKnown /\ OnlyGenuineItems /\ EvaluatedIsDurable
  BY DEF FilesKnown, OnlyGenuineItems, EvaluatedIsDurable
<1>3. WalksAreWhole
  BY DEF WalksAreWhole
<1>4. AnnouncedAfterAll
  BY DEF AnnouncedAfterAll
<1> QED BY <1>1, <1>2, <1>3, <1>4 DEF Safe

LEMMA SafeRegister ==
  ASSUME IInv, NEW w \in Worker, Register(w)
  PROVE  Safe'
<1>0. PICK c \in Cluster : c = ClusterOf[job[w]] /\ job[w] \in MessagesOf(c)
  BY DEF Register, IInv, Typed, JobValid, Valid, MessagesOf
<1>1. PICK S \in SUBSET LogFiles(c) :
        /\ pc[w] = "register"
        /\ IgnoreLate(w, c) \/ Remember(w, c, S) \/ Claim(w, c, S)
        /\ UNCHANGED <<job, stored, table>>
  <2>1. files[c] \cup {KeyOf[job[w]]} \subseteq LogFiles(c)
    BY <1>0 DEF IInv, Safe, FilesKnown, LogFiles
  <2> QED BY <1>0, <2>1 DEF Register, outside
<1>4. pc \in [Worker -> Place]
  BY DEF IInv, Typed, TypeOK
<1>5. CASE IgnoreLate(w, c)
  BY <1>1, <1>4, <1>5, SafeQuiet DEF IgnoreLate, memory, walk, IInv
<1>6. CASE Remember(w, c, S)
  <2>1. \A d \in Cluster : Walkers(d)' = Walkers(d)
    BY <1>1, <1>4, <1>6 DEF Remember, Walkers
  <2>2. SingleOwner'
    BY <1>6, <2>1 DEF Remember, SingleOwner, IInv, Safe
  <2>3. FilesKnown'
    BY <1>6 DEF Remember, FilesKnown, IInv, Safe, Typed, TypeOK
  <2>4. WalksAreWhole'
    BY <1>1, <1>4, <1>6 DEF Remember, walk, WalksAreWhole, WalkOf, IInv, Safe
  <2>5. OnlyGenuineItems' /\ EvaluatedIsDurable' /\ AnnouncedAfterAll'
    BY <1>1, <1>4, <1>6
    DEF Remember, OnlyGenuineItems, EvaluatedIsDurable, AnnouncedAfterAll, AllDone, IInv, Safe
  <2> QED BY <2>2, <2>3, <2>4, <2>5 DEF Safe
<1>7. CASE Claim(w, c, S)
  <2>1. S = LogFiles(c)
    BY <1>0, <1>1, <1>7, CompleteIsAll DEF Claim
  <2>2. /\ Walkers(c)' = Walkers(c) \cup {w}
        /\ \A d \in Cluster \ {c} : Walkers(d)' = Walkers(d)
    BY <1>1, <1>0, <1>4, <1>7 DEF Claim, Walkers
  <2>3. Walkers(c) = {}
    BY <1>0, <1>7 DEF Claim, AlreadyTaken, SingleOwner, IInv, Safe
  <2>4. SingleOwner'
    <3>1. /\ evaluating'[c] /\ ~evaluated'[c]
          /\ \A d \in Cluster \ {c} : evaluating'[d] = evaluating[d]
          /\ evaluated' = evaluated
      BY <1>7 DEF Claim, AlreadyTaken, IInv, Typed, TypeOK
    <3>2. \A d \in Cluster : \A u, v \in Walkers(d)' : u = v
      BY <2>2, <2>3 DEF SingleOwner, IInv, Safe
    <3> QED BY <2>2, <3>1, <3>2 DEF SingleOwner, IInv, Safe
  <2>5. FilesKnown'
    BY <1>1, <1>7 DEF Claim, FilesKnown, IInv, Safe, Typed, TypeOK
  <2>6. WalksAreWhole'
    <3>1. WalkOf(w, c)'
      <4>1. snapshot'[w] = LogFiles(c)
        BY <1>7, <2>1 DEF Claim, IInv, Typed, TypeOK
      <4>2. written'[w] = 0
        BY <1>1, <1>7 DEF Claim, WalksAreWhole, IInv, Safe
      <4>3. NumDecisions[c] \in Nat
        BY <1>0, SizesAssumption
      <4> QED BY <4>1, <4>2, <4>3 DEF WalkOf
    <3>2. ASSUME NEW v \in Worker \ {w}
          PROVE  /\ pc'[v] = pc[v] /\ written'[v] = written[v]
                 /\ snapshot'[v] = snapshot[v] /\ job'[v] = job[v] /\ table' = table
      BY <1>1, <1>4, <1>7 DEF Claim, IInv, Typed, TypeOK
    <3>3. pc'[w] = "walk" /\ ClusterOf[job'[w]] = c
      BY <1>0, <1>1, <1>4, <1>7 DEF Claim
    <3> QED BY <3>1, <3>2, <3>3 DEF WalksAreWhole, WalkOf, IInv, Safe
  <2>7. OnlyGenuineItems' /\ EvaluatedIsDurable' /\ AnnouncedAfterAll'
    BY <1>1, <1>4, <1>7
    DEF Claim, OnlyGenuineItems, EvaluatedIsDurable, AnnouncedAfterAll, AllDone, IInv, Safe
  <2> QED BY <2>4, <2>5, <2>6, <2>7 DEF Safe
<1> QED BY <1>1, <1>5, <1>6, <1>7

\* A write adds items of the walk's own cluster, from the whole file set.
LEMMA SafeWriteBatch ==
  ASSUME IInv, NEW w \in Worker, WriteBatch(w)
  PROVE  Safe'
<1> USE DEF IInv
<1>1. PICK c \in Cluster : c = ClusterOf[job[w]] /\ WalkOf(w, c) /\ pc[w] = "walk"
  BY DEF WriteBatch, Typed, JobValid, Valid, Safe, WalksAreWhole
<1>2. PICK k \in Nat : /\ k = Cardinality(NextRanks(w))
                       /\ written[w] + k <= NumDecisions[c]
                       /\ NextRanks(w) = (written[w] + 1)..(written[w] + k)
  BY <1>1, NextRanksContinue DEF WalkOf
<1>3. /\ table' = table \cup {Item(c, LogFiles(c), n) : n \in NextRanks(w)}
      /\ written' = [written EXCEPT ![w] = @ + k]
      /\ UNCHANGED <<job, pc, files, evaluating, evaluated, announced, snapshot>>
  BY <1>1, <1>2 DEF WriteBatch, WalkOf, memory
<1>4. written[w] \in Nat /\ NumDecisions[c] \in Nat /\ written \in [Worker -> Nat]
  BY SizesAssumption DEF Typed, TypeOK
<1>5. SingleOwner'
  <2>1. \A d \in Cluster : Walkers(d)' = Walkers(d)
    BY <1>3 DEF Walkers
  <2> QED BY <1>3, <2>1 DEF Safe, SingleOwner
<1>6. FilesKnown' /\ EvaluatedIsDurable' /\ AnnouncedAfterAll'
  BY <1>3 DEF Safe, FilesKnown, EvaluatedIsDurable, AnnouncedAfterAll, AllDone
<1>7. OnlyGenuineItems'
  <2>1. NextRanks(w) \subseteq 1..NumDecisions[c]
    BY <1>1 DEF NextRanks
  <2>2. {Item(c, LogFiles(c), n) : n \in NextRanks(w)} \subseteq Genuine(c)
    BY <2>1 DEF Genuine, Decisions
  <2> QED BY <1>3, <2>2 DEF Safe, OnlyGenuineItems
<1>8. WalksAreWhole'
  <2>1. WalkOf(w, c)'
    <3>0. written'[w] = written[w] + k
      BY <1>3, <1>4
    <3>1. written'[w] = written[w] + k /\ written'[w] \in 0..NumDecisions[c]
      <4>1. written[w] + k <= NumDecisions[c]
        BY <1>2
      <4>2. written[w] + k \in 0..NumDecisions[c]
        BY <1>4, <4>1
      <4> QED BY <3>0, <4>2
    <3>2. ASSUME NEW n \in 1..written'[w] PROVE Item(c, LogFiles(c), n) \in table'
      <4>1. n \in 1..written[w] \/ n \in NextRanks(w)
        BY <1>2, <1>4, <3>1
      <4> QED BY <1>1, <1>3, <4>1 DEF WalkOf
    <3> QED BY <1>1, <1>3, <3>1, <3>2 DEF WalkOf
  <2>2. ASSUME NEW v \in Worker \ {w} PROVE written'[v] = written[v]
    BY <1>3, <1>4
  <2> QED BY <1>1, <1>3, <2>1, <2>2 DEF Safe, WalksAreWhole, WalkOf
<1> QED BY <1>5, <1>6, <1>7, <1>8 DEF Safe

\* The owner leaves its walk: Walkers loses it, whatever becomes of the rest.
LEMMA OwnerLeaves ==
  ASSUME IInv, NEW w \in Worker, NEW c \in Cluster,
         pc[w] = "walk", c = ClusterOf[job[w]],
         NEW there \in {"next", "ack", "announce"},
         pc' = [pc EXCEPT ![w] = there],
         \A v \in Worker \ {w} : job'[v] = job[v]
  PROVE  /\ Walkers(c) = {w}
         /\ Walkers(c)' = {}
         /\ \A d \in Cluster \ {c} : Walkers(d)' = Walkers(d)
<1>1. pc \in [Worker -> Place]
  BY DEF IInv, Typed, TypeOK
<1>2. Walkers(c) = {w}
  <2>1. w \in Walkers(c)
    BY DEF Walkers
  <2>2. \A v \in Walkers(c) : v = w
    BY <2>1 DEF SingleOwner, IInv, Safe
  <2> QED BY <2>1, <2>2
<1>3. Walkers(c)' = {}
  BY <1>1, <1>2 DEF Walkers
<1>4. \A d \in Cluster \ {c} : Walkers(d)' = Walkers(d)
  BY <1>1 DEF Walkers
<1> QED BY <1>2, <1>3, <1>4

\* A walk that ends without evaluating its cluster leaves it unowned; what
\* it wrote stays.
LEMMA SafeGiveUp ==
  ASSUME IInv, NEW w \in Worker, WalkFails(w) \/ WalkMissesFile(w)
  PROVE  Safe'
<1> USE DEF IInv
<1>1. PICK c \in Cluster : c = ClusterOf[job[w]] /\ WalkOf(w, c) /\ pc[w] = "walk"
  BY DEF WalkFails, WalkMissesFile, Typed, JobValid, Valid, Safe, WalksAreWhole
<1>2. GiveUp(w)
  BY DEF WalkFails, WalkMissesFile
<1>3. /\ evaluating' = [evaluating EXCEPT ![c] = FALSE]
      /\ snapshot' = [snapshot EXCEPT ![w] = {}]
      /\ written' = [written EXCEPT ![w] = 0]
      /\ UNCHANGED <<files, evaluated, announced>>
  BY <1>1, <1>2 DEF GiveUp, ForgetWalk
<1>4. PICK there \in {"next", "ack"} : pc' = [pc EXCEPT ![w] = there]
  BY DEF WalkFails, WalkMissesFile
<1>5. \A v \in Worker \ {w} : job'[v] = job[v]
  BY DEF WalkFails, WalkMissesFile, Typed, TypeOK
<1>6. PICK ranks \in SUBSET NextRanks(w) :
        table' = table \cup {Item(c, LogFiles(c), n) : n \in ranks}
  <2>1. CASE WalkMissesFile(w)
    <3>1. table' = table \cup {Item(c, LogFiles(c), n) : n \in {}}
      BY <2>1 DEF WalkMissesFile, outside
    <3> QED BY <3>1
  <2>2. CASE WalkFails(w)
    <3>1. PICK ranks \in SUBSET (IF MayWrite(w) THEN NextRanks(w) ELSE {}) :
            table' = table \cup {Item(ClusterOf[job[w]], snapshot[w], n) : n \in ranks}
      BY <2>2 DEF WalkFails
    <3>2. ranks \in SUBSET NextRanks(w)
      OBVIOUS
    <3> QED BY <1>1, <3>1, <3>2 DEF WalkOf
  <2> QED BY <2>1, <2>2
<1>7. /\ pc \in [Worker -> Place] /\ written \in [Worker -> Nat]
      /\ snapshot \in [Worker -> SUBSET Key] /\ evaluating \in [Cluster -> BOOLEAN]
  BY DEF Typed, TypeOK
<1>8. SingleOwner'
  <2>1. /\ Walkers(c)' = {}
        /\ \A d \in Cluster \ {c} : Walkers(d)' = Walkers(d)
    BY <1>1, <1>4, <1>5, OwnerLeaves
  <2>2. ~evaluating'[c] /\ \A d \in Cluster \ {c} : evaluating'[d] = evaluating[d]
    BY <1>3, <1>7
  <2> QED BY <1>3, <2>1, <2>2 DEF Safe, SingleOwner
<1>9. FilesKnown' /\ EvaluatedIsDurable'
  BY <1>3, <1>6 DEF Safe, FilesKnown, EvaluatedIsDurable
<1>10. OnlyGenuineItems'
  <2>1. NextRanks(w) \subseteq 1..NumDecisions[c]
    BY <1>1 DEF NextRanks
  <2>2. {Item(c, LogFiles(c), n) : n \in ranks} \subseteq Genuine(c)
    BY <2>1 DEF Genuine, Decisions
  <2> QED BY <1>6, <2>2 DEF Safe, OnlyGenuineItems
<1>11. WalksAreWhole'
  <2>1. pc'[w] # "walk" /\ written'[w] = 0
    BY <1>3, <1>4, <1>7
  <2>2. ASSUME NEW v \in Worker \ {w}
        PROVE  /\ pc'[v] = pc[v] /\ written'[v] = written[v] /\ snapshot'[v] = snapshot[v]
               /\ job'[v] = job[v]
    BY <1>3, <1>4, <1>5, <1>7
  <2> QED BY <1>6, <2>1, <2>2 DEF Safe, WalksAreWhole, WalkOf
<1>12. AnnouncedAfterAll'
  BY <1>3, <1>4, <1>7 DEF Safe, AnnouncedAfterAll, AllDone
<1> QED BY <1>8, <1>9, <1>10, <1>11, <1>12 DEF Safe

\* Only an owner whose last write has succeeded commits, and only the commit
\* of the last cluster leads to the announcement.
LEMMA SafeCommit ==
  ASSUME IInv, NEW w \in Worker, Commit(w)
  PROVE  Safe'
<1> USE DEF IInv
<1>1. PICK c \in Cluster : c = ClusterOf[job[w]] /\ WalkOf(w, c) /\ pc[w] = "walk"
  BY DEF Commit, Typed, JobValid, Valid, Safe, WalksAreWhole
<1>2. PICK there \in {"ack", "announce"} :
        /\ pc' = [pc EXCEPT ![w] = there]
        /\ there = "announce" => AllDone(evaluated')
  BY DEF Commit
<1>3. /\ evaluated' = [evaluated EXCEPT ![c] = TRUE]
      /\ evaluating' = [evaluating EXCEPT ![c] = FALSE]
      /\ snapshot' = [snapshot EXCEPT ![w] = {}]
      /\ written' = [written EXCEPT ![w] = 0]
      /\ UNCHANGED <<job, files, announced, table>>
  BY <1>1 DEF Commit, ForgetWalk, outside
<1>4. /\ pc \in [Worker -> Place] /\ written \in [Worker -> Nat]
      /\ evaluated \in [Cluster -> BOOLEAN] /\ evaluating \in [Cluster -> BOOLEAN]
      /\ snapshot \in [Worker -> SUBSET Key]
  BY DEF Typed, TypeOK
<1>5. SingleOwner'
  <2>1. /\ Walkers(c)' = {}
        /\ \A d \in Cluster \ {c} : Walkers(d)' = Walkers(d)
    BY <1>1, <1>2, <1>3, OwnerLeaves
  <2>2. /\ ~evaluating'[c]
        /\ \A d \in Cluster \ {c} : evaluating'[d] = evaluating[d] /\ evaluated'[d] = evaluated[d]
    BY <1>3, <1>4
  <2> QED BY <2>1, <2>2 DEF Safe, SingleOwner
<1>6. Genuine(c) \subseteq table
  <2>1. written[w] = NumDecisions[c]
    BY <1>1, NextRanksContinue DEF Commit, AllWritten, WalkOf
  <2> QED BY <1>1, <2>1 DEF WalkOf, Genuine, Decisions
<1>7. EvaluatedIsDurable'
  <2>1. \A d \in Cluster \ {c} : evaluated'[d] => evaluated[d]
    BY <1>3, <1>4
  <2>2. table' = table
    BY <1>3
  <2> QED BY <1>6, <2>1, <2>2 DEF Safe, EvaluatedIsDurable
<1>8. FilesKnown' /\ OnlyGenuineItems'
  BY <1>3 DEF Safe, FilesKnown, OnlyGenuineItems
<1>9. WalksAreWhole'
  <2>1. pc'[w] # "walk" /\ written'[w] = 0
    BY <1>2, <1>3, <1>4
  <2>2. ASSUME NEW v \in Worker \ {w}
        PROVE  /\ pc'[v] = pc[v] /\ written'[v] = written[v] /\ snapshot'[v] = snapshot[v]
               /\ job'[v] = job[v]
    BY <1>2, <1>3, <1>4
  <2> QED BY <1>3, <2>1, <2>2 DEF Safe, WalksAreWhole, WalkOf
<1>10. AnnouncedAfterAll'
  <2>1. \A d \in Cluster : evaluated[d] => evaluated'[d]
    BY <1>3, <1>4
  <2>2. AllDone(evaluated) => AllDone(evaluated')
    BY <2>1 DEF AllDone
  <2>3. \A v \in Worker : pc'[v] = "announce" => pc[v] = "announce" \/ AllDone(evaluated')
    BY <1>2, <1>4
  <2> QED BY <1>3, <2>2, <2>3 DEF Safe, AnnouncedAfterAll
<1> QED BY <1>5, <1>7, <1>8, <1>9, <1>10 DEF Safe

LEMMA SafeAnnounce ==
  ASSUME IInv, NEW w \in Worker, Announce(w)
  PROVE  Safe'
<1> USE DEF IInv
<1>1. /\ pc[w] = "announce" /\ pc' = [pc EXCEPT ![w] = "ack"]
      /\ pc \in [Worker -> Place]
      /\ UNCHANGED <<job, files, evaluating, evaluated, snapshot, written, table>>
  BY DEF Announce, walk, outside, Typed, TypeOK
<1>2. \A d \in Cluster : Walkers(d)' = Walkers(d)
  BY <1>1 DEF Walkers
<1>3. SingleOwner'
  BY <1>1, <1>2 DEF Safe, SingleOwner
<1>4. FilesKnown' /\ OnlyGenuineItems' /\ EvaluatedIsDurable'
  BY <1>1 DEF Safe, FilesKnown, OnlyGenuineItems, EvaluatedIsDurable
<1>5. WalksAreWhole'
  BY <1>1 DEF Safe, WalksAreWhole, WalkOf
<1>6. AnnouncedAfterAll'
  BY <1>1 DEF Safe, AnnouncedAfterAll, AllDone
<1> QED BY <1>3, <1>4, <1>5, <1>6 DEF Safe

\* A new process owns nothing and has announced nothing.
LEMMA SafeRestart == IInv /\ Restart => Safe'
<1> SUFFICES ASSUME IInv, Restart PROVE Safe'
  OBVIOUS
<1> USE DEF Restart, IInv
<1>1. SingleOwner'
  BY DEF SingleOwner, Walkers
<1>2. FilesKnown' /\ OnlyGenuineItems' /\ EvaluatedIsDurable'
  BY DEF FilesKnown, OnlyGenuineItems, EvaluatedIsDurable, Safe, outside
<1>3. WalksAreWhole'
  BY DEF WalksAreWhole
<1>4. AnnouncedAfterAll'
  BY DEF AnnouncedAfterAll
<1> QED BY <1>1, <1>2, <1>3, <1>4 DEF Safe

LEMMA SafeNext == IInv /\ [Next]_vars => Safe'
<1> SUFFICES ASSUME IInv, [Next]_vars PROVE Safe'
  OBVIOUS
<1>0. Safe /\ pc \in [Worker -> Place] /\ job \in [Worker -> Message \cup {NoMessage}]
  BY DEF IInv, Typed, TypeOK
<1> USE DEF memory, walk, outside
<1>1. ASSUME NEW w \in Worker, Receive(w) PROVE Safe'
  BY <1>0, <1>1, SafeQuiet DEF Receive
<1>2. ASSUME NEW w \in Worker, PollAgain(w) PROVE Safe'
  BY <1>0, <1>2, SafeQuiet DEF PollAgain, vars
<1>3. ASSUME NEW w \in Worker, Exit(w) PROVE Safe'
  BY <1>0, <1>3, SafeQuiet DEF Exit
<1>4. ASSUME NEW w \in Worker, BatchDone(w) PROVE Safe'
  BY <1>0, <1>4, SafeQuiet DEF BatchDone
<1>5. ASSUME NEW w \in Worker, TakeMessage(w) PROVE Safe'
  BY <1>0, <1>5, SafeQuiet DEF TakeMessage
<1>6. ASSUME NEW w \in Worker, HeadFails(w) PROVE Safe'
  BY <1>0, <1>6, SafeQuiet DEF HeadFails
<1>7. ASSUME NEW w \in Worker, ReadFile(w) PROVE Safe'
  BY <1>0, <1>7, SafeQuiet DEF ReadFile
<1>8. ASSUME NEW w \in Worker, Ack(w) \/ AckFails(w) PROVE Safe'
  BY <1>0, <1>8, SafeQuiet DEF Ack, AckFails, Finished
<1>9. ASSUME NEW m \in Message, Redeliver(m) \/ RedeliverEarly(m) PROVE Safe'
  BY <1>0, <1>9, SafeQuiet DEF Redeliver, RedeliverEarly, Reappear
<1>10. ASSUME NEW k \in Key, LoseObject(k) PROVE Safe'
  BY <1>0, <1>10, SafeQuiet DEF LoseObject
<1>11. CASE Stop
  BY <1>0, <1>11, SafeQuiet DEF Stop
<1>12. CASE UNCHANGED vars
  BY <1>0, <1>12, SafeQuiet DEF vars
<1> QED
  BY <1>1, <1>2, <1>3, <1>4, <1>5, <1>6, <1>7, <1>8, <1>9, <1>10, <1>11, <1>12,
     SafeRegister, SafeWriteBatch, SafeGiveUp, SafeCommit, SafeAnnounce, SafeRestart
  DEF Next, Step, Fault

LEMMA Inductive == Spec => []IInv
<1>1. Init => IInv
  BY TypedInit, SafeInit DEF IInv
<1>2. IInv /\ [Next]_vars => IInv'
  BY TypedNext, SafeNext DEF IInv
<1> QED BY <1>1, <1>2, PTL DEF Spec

\* An evaluating cluster has exactly one walker, however messages are
\* duplicated and calls fail (scaler.py:28-31).
THEOREM ClusterHasOneOwner == Spec => []SingleOwner
<1>1. IInv => SingleOwner
  BY DEF IInv, Safe
<1> QED BY <1>1, Inductive, PTL

\* No decision of an incomplete file set reaches the table (scaler.py:5-8).
THEOREM TableIsGenuine == Spec => []OnlyGenuineItems
<1>1. IInv => OnlyGenuineItems
  BY DEF IInv, Safe
<1> QED BY <1>1, Inductive, PTL

\* A cluster is evaluated only after its last write (scaler.py:352).
THEOREM EvaluatedClustersAreDurable == Spec => []EvaluatedIsDurable
<1>1. IInv => EvaluatedIsDurable
  BY DEF IInv, Safe
<1> QED BY <1>1, Inductive, PTL

\* The announcement is never early: it follows the last write of the last
\* cluster (scaler.py:382-389).
THEOREM AnnouncementIsNotEarly == Spec => []AnnouncedIsDurable
<1>1. IInv => AnnouncedIsDurable
  BY DEF IInv, Safe, AnnouncedAfterAll, AllDone, EvaluatedIsDurable, AnnouncedIsDurable
<1> QED BY <1>1, Inductive, PTL

-----------------------------------------------------------------------------
(* Messages and what is recorded of them.  Two further invariants are      *)
(* needed: an owned cluster has all its files (so a late file that is      *)
(* turned away is known), and, while nothing is redelivered early, a       *)
(* message in hand is in flight and in one worker's hands only (so the     *)
(* message of a walk is not deleted by another worker).                    *)

\* One run of the process, no object deleted.
OneRun == used["restart"] + used["lost"] = 0

\* What a walk has still to read exists; a stop and a loss are counted.
ObjectsExist ==
  /\ \A w \in Worker : unread[w] \subseteq Uploaded
  /\ used["lost"] = 0 => stored = Uploaded
  /\ stop => used["restart"] > 0

TakenIsComplete ==
  \A c \in Cluster : AlreadyTaken(c) => files[c] = LogFiles(c)

HeldOnce ==
  used["early"] = 0 =>
    \A w \in Worker, m \in Message :
      Holds(w, m) => /\ queue[m] = "inflight"
                     /\ ~(m \in batch[w] /\ job[w] = m)
                     /\ \A v \in Worker : Holds(v, m) => v = w

Kept == /\ ObjectsExist
        /\ TakenIsComplete
        /\ HeldOnce
        /\ AckedIsRecorded
        /\ UnfinishedHasMessage

LEMMA UsedGrows ==
  ASSUME Typed, [Next]_vars, NEW kind \in Mishap
  PROVE  used[kind] \in Nat /\ used'[kind] \in Nat /\ used[kind] <= used'[kind]
<1>1. used \in [Mishap -> Nat] /\ used' \in [Mishap -> Nat]
  BY TypedNext DEF Typed, TypeOK
<1>2. used' = used \/ \E k \in Mishap : used' = [used EXCEPT ![k] = @ + 1]
  <2>1. ASSUME NEW w \in Worker, Step(w) PROVE used' = used
    BY <2>1 DEF Step, Receive, PollAgain, vars, Exit, BatchDone, TakeMessage, Register, ReadFile,
         WriteBatch, WalkMissesFile, Commit, Announce, Ack
  <2>2. ASSUME NEW k \in Mishap, Spend(k) PROVE used' = [used EXCEPT ![k] = @ + 1]
    BY <2>2 DEF Spend
  <2>3. ASSUME NEW w \in Worker, Fault(w) PROVE \E k \in Mishap : Spend(k)
    BY <2>3 DEF Fault, HeadFails, WalkFails, AckFails, Mishap
  <2>4. ASSUME NEW m \in Message, Redeliver(m) \/ RedeliverEarly(m)
        PROVE  used' = used \/ \E k \in Mishap : Spend(k)
    BY <2>4 DEF Redeliver, RedeliverEarly, Mishap
  <2>5. ASSUME NEW k \in Key, LoseObject(k) PROVE \E i \in Mishap : Spend(i)
    BY <2>5 DEF LoseObject, Mishap
  <2>6. CASE Stop \/ Restart
    BY <2>2, <2>6 DEF Stop, Restart, Mishap
  <2>7. CASE UNCHANGED vars
    BY <2>7 DEF vars
  <2> QED BY <2>1, <2>2, <2>3, <2>4, <2>5, <2>6, <2>7 DEF Next
<1> QED BY <1>1, <1>2

\* A run that is not disturbed yet was not before, and is neither stopping
\* nor missing an object; the step is not a restart.
LEMMA OneRunStep ==
  ASSUME Typed, ObjectsExist, [Next]_vars, OneRun'
  PROVE  /\ OneRun
         /\ ~stop /\ stored = Uploaded
         /\ ~Restart
         /\ \A k \in Key : ~LoseObject(k)
<1>1. /\ used["restart"] = 0 /\ used["lost"] = 0
      /\ used'["restart"] = 0 /\ used'["lost"] = 0
  <2>1. "restart" \in Mishap /\ "lost" \in Mishap
    BY DEF Mishap
  <2> QED BY <2>1, UsedGrows DEF OneRun
<1>2. ~stop /\ stored = Uploaded
  BY <1>1 DEF ObjectsExist
<1>3. ASSUME NEW kind \in {"restart", "lost"}, Spend(kind) PROVE FALSE
  BY <1>1, <1>3 DEF Spend, Typed, TypeOK, Mishap
<1> QED BY <1>1, <1>2, <1>3 DEF OneRun, Restart, LoseObject

LEMMA ObjectsExistNext ==
  ASSUME IInv, ObjectsExist, [Next]_vars
  PROVE  ObjectsExist'
<1> USE DEF ObjectsExist, memory, walk, outside
<1>1. /\ Typed /\ used \in [Mishap -> Nat] /\ unread \in [Worker -> SUBSET Key]
      /\ stored \subseteq Uploaded
  BY DEF IInv, Typed, TypeOK
<1>2. /\ used["lost"] \in Nat /\ used'["lost"] \in Nat /\ used["lost"] <= used'["lost"]
      /\ used["restart"] \in Nat /\ used'["restart"] \in Nat
      /\ used["restart"] <= used'["restart"]
  <2>1. "restart" \in Mishap /\ "lost" \in Mishap
    BY DEF Mishap
  <2> QED BY <1>1, <2>1, UsedGrows
<1>3. ASSUME UNCHANGED <<unread, stored, stop>> PROVE ObjectsExist'
  BY <1>2, <1>3
<1>4. ASSUME NEW w \in Worker, Register(w) PROVE ObjectsExist'
  <2>1. PICK c \in Cluster : c = ClusterOf[job[w]] /\ job[w] \in MessagesOf(c)
    BY <1>4 DEF Register, IInv, Typed, JobValid, Valid, MessagesOf
  <2>2. files[c] \cup {KeyOf[job[w]]} \subseteq Uploaded
    <3>1. LogFiles(c) \subseteq Uploaded
      BY DEF LogFiles, MessagesOf, Valid
    <3>2. files[c] \cup {KeyOf[job[w]]} \subseteq LogFiles(c)
      BY <2>1 DEF IInv, Safe, FilesKnown, LogFiles
    <3> QED BY <3>1, <3>2
  <2>3. \A v \in Worker : unread'[v] \subseteq Uploaded
    BY <1>1, <1>4, <2>1, <2>2 DEF Register, IgnoreLate, Remember, Claim
  <2> QED BY <1>2, <1>4, <2>3 DEF Register
<1>5. ASSUME NEW w \in Worker, ReadFile(w) PROVE ObjectsExist'
  BY <1>1, <1>2, <1>5 DEF ReadFile
<1>6. ASSUME NEW w \in Worker, WalkFails(w) \/ WalkMissesFile(w) \/ Commit(w)
      PROVE  ObjectsExist'
  BY <1>1, <1>2, <1>6 DEF WalkFails, WalkMissesFile, Commit, GiveUp, ForgetWalk
<1>7. ASSUME NEW k \in Key, LoseObject(k) PROVE ObjectsExist'
  <2>1. used'["lost"] > 0
    BY <1>1, <1>2, <1>7 DEF LoseObject, Spend, Mishap
  <2> QED BY <1>2, <1>7, <2>1 DEF LoseObject
<1>8. CASE Stop
  <2>1. used'["restart"] > 0
    BY <1>1, <1>2, <1>8 DEF Stop, Spend, Mishap
  <2> QED BY <1>2, <1>8, <2>1 DEF Stop
<1>9. CASE Restart
  BY <1>1, <1>2, <1>9 DEF Restart
<1>10. ASSUME NEW w \in Worker,
              \/ Receive(w) \/ PollAgain(w) \/ Exit(w) \/ BatchDone(w) \/ TakeMessage(w)
              \/ WriteBatch(w) \/ Announce(w) \/ Ack(w) \/ HeadFails(w) \/ AckFails(w)
       PROVE  ObjectsExist'
  BY <1>3, <1>10 DEF Receive, PollAgain, vars, Exit, BatchDone, TakeMessage, WriteBatch, Announce,
       Ack, HeadFails, AckFails, Finished
<1>11. ASSUME NEW m \in Message, Redeliver(m) \/ RedeliverEarly(m) PROVE ObjectsExist'
  BY <1>3, <1>11 DEF Redeliver, RedeliverEarly, Reappear
<1>12. CASE UNCHANGED vars
  BY <1>3, <1>12 DEF vars
<1> QED
  BY <1>4, <1>5, <1>6, <1>7, <1>8, <1>9, <1>10, <1>11, <1>12 DEF Next, Step, Fault

\* Only a complete set is claimed, and a set that was claimed keeps its files.
LEMMA TakenIsCompleteNext ==
  ASSUME IInv, TakenIsComplete, [Next]_vars
  PROVE  TakenIsComplete'
<1> USE DEF TakenIsComplete, AlreadyTaken, memory, walk, outside
<1>1. /\ files \in [Cluster -> SUBSET Key] /\ evaluating \in [Cluster -> BOOLEAN]
      /\ evaluated \in [Cluster -> BOOLEAN]
  BY DEF IInv, Typed, TypeOK
<1>2. ASSUME UNCHANGED <<files, evaluating, evaluated>> PROVE TakenIsComplete'
  BY <1>2
<1>3. ASSUME NEW w \in Worker, Register(w) PROVE TakenIsComplete'
  <2>1. PICK c \in Cluster : c = ClusterOf[job[w]] /\ job[w] \in MessagesOf(c)
    BY <1>3 DEF Register, IInv, Typed, JobValid, Valid, MessagesOf
  <2>2. PICK S \in SUBSET LogFiles(c) : IgnoreLate(w, c) \/ Remember(w, c, S) \/ Claim(w, c, S)
    <3>1. files[c] \cup {KeyOf[job[w]]} \subseteq LogFiles(c)
      BY <2>1 DEF IInv, Safe, FilesKnown, LogFiles
    <3> QED BY <1>3, <2>1, <3>1 DEF Register
  <2>3. CASE IgnoreLate(w, c)
    BY <2>3 DEF IgnoreLate
  <2>4. CASE Remember(w, c, S)
    BY <1>1, <2>4 DEF Remember
  <2>5. CASE Claim(w, c, S)
    <3>1. S = LogFiles(c)
      BY <2>2, <2>5, CompleteIsAll DEF Claim
    <3> QED BY <1>1, <2>5, <3>1 DEF Claim
  <2> QED BY <2>2, <2>3, <2>4, <2>5
<1>4. ASSUME NEW w \in Worker, WalkFails(w) \/ WalkMissesFile(w) \/ Commit(w)
      PROVE  TakenIsComplete'
  <2>1. PICK c \in Cluster : c = ClusterOf[job[w]] /\ evaluating[c]
    <3>1. PICK c \in Cluster : c = ClusterOf[job[w]] /\ pc[w] = "walk"
      BY <1>4 DEF WalkFails, WalkMissesFile, Commit, IInv, Typed, JobValid, Valid
    <3>2. w \in Walkers(c)
      BY <3>1 DEF Walkers
    <3> QED BY <3>1, <3>2 DEF IInv, Safe, SingleOwner
  <2>2. UNCHANGED files /\ files[c] = LogFiles(c)
    BY <1>4, <2>1 DEF WalkFails, WalkMissesFile, Commit, GiveUp
  <2>3. \A d \in Cluster \ {c} : evaluating'[d] = evaluating[d] /\ evaluated'[d] = evaluated[d]
    BY <1>1, <1>4, <2>1 DEF WalkFails, WalkMissesFile, Commit, GiveUp
  <2> QED BY <2>2, <2>3
<1>5. CASE Restart
  BY <1>5 DEF Restart
<1>6. ASSUME NEW w \in Worker,
             \/ Receive(w) \/ PollAgain(w) \/ Exit(w) \/ BatchDone(w) \/ TakeMessage(w)
             \/ ReadFile(w) \/ WriteBatch(w) \/ Announce(w) \/ Ack(w) \/ HeadFails(w)
             \/ AckFails(w)
      PROVE  UNCHANGED <<files, evaluating, evaluated>>
  BY <1>6 DEF Receive, PollAgain, vars, Exit, BatchDone, TakeMessage, ReadFile, WriteBatch,
       Announce, Ack, HeadFails, AckFails, Finished
<1>7. ASSUME \/ \E m \in Message : Redeliver(m) \/ RedeliverEarly(m)
             \/ \E k \in Key : LoseObject(k)
             \/ Stop
             \/ UNCHANGED vars
      PROVE  UNCHANGED <<files, evaluating, evaluated>>
  BY <1>7 DEF Redeliver, RedeliverEarly, Reappear, LoseObject, Stop, vars
<1> QED BY <1>2, <1>3, <1>4, <1>5, <1>6, <1>7 DEF Next, Step, Fault

\* A step that hands no message to a worker, and takes none out of flight that
\* a worker keeps, changes nothing of who holds what.
LEMMA HeldOnceQuiet ==
  ASSUME HeldOnce, used["early"] = 0,
         \A w \in Worker, m \in Message :
           /\ m \in batch'[w] => m \in batch[w]
           /\ job'[w] = m => job[w] = m \/ (m \in batch[w] /\ m \notin batch'[w])
           /\ Holds(w, m)' /\ queue[m] = "inflight" => queue'[m] = "inflight"
  PROVE  HeldOnce'
<1>1. \A w \in Worker, m \in Message : Holds(w, m)' => Holds(w, m)
  BY DEF Holds
<1>2. ASSUME NEW w \in Worker, NEW m \in Message, Holds(w, m)'
      PROVE  /\ queue'[m] = "inflight"
             /\ ~(m \in batch'[w] /\ job'[w] = m)
             /\ \A v \in Worker : Holds(v, m)' => v = w
  <2>1. Holds(w, m)
    BY <1>1, <1>2
  <2>2. queue'[m] = "inflight" /\ \A v \in Worker : Holds(v, m)' => v = w
    BY <1>1, <1>2, <2>1 DEF HeldOnce
  <2>3. ~(m \in batch'[w] /\ job'[w] = m)
    BY <2>1 DEF HeldOnce
  <2> QED BY <2>2, <2>3
<1> QED BY <1>2 DEF HeldOnce

LEMMA HeldOnceNext ==
  ASSUME IInv, HeldOnce, [Next]_vars
  PROVE  HeldOnce'
<1>1. SUFFICES ASSUME used'["early"] = 0 PROVE HeldOnce'
  BY DEF HeldOnce
<1>2. used["early"] = 0
  <2>1. "early" \in Mishap
    BY DEF Mishap
  <2> QED BY <1>1, <2>1, UsedGrows DEF IInv
<1>3. /\ queue \in [Message -> {"visible", "inflight", "deleted"}]
      /\ batch \in [Worker -> SUBSET Message]
      /\ job \in [Worker -> Message \cup {NoMessage}]
      /\ used \in [Mishap -> Nat]
      /\ NoMessage \notin Message
      /\ \A w \in Worker : job[w] = NoMessage <=> pc[w] \in {"poll", "next", "exited"}
  BY MessagesAssumption DEF IInv, Typed, TypeOK
<1> USE DEF memory, walk, outside
\* What is received was visible, so nobody held it.
<1>4. ASSUME NEW w \in Worker, Receive(w) PROVE HeldOnce'
  <2>1. PICK S \in SUBSET {m \in Message : queue[m] = "visible"} :
          /\ queue' = [m \in Message |-> IF m \in S THEN "inflight" ELSE queue[m]]
          /\ batch' = [batch EXCEPT ![w] = S]
    BY <1>4 DEF Receive
  <2>2. job' = job /\ job[w] = NoMessage
    BY <1>3, <1>4 DEF Receive
  <2>3. \A v \in Worker, m \in S : ~Holds(v, m)
    BY <1>2, <2>1 DEF HeldOnce
  <2>4. ASSUME NEW v \in Worker, NEW m \in Message
        PROVE  Holds(v, m)' <=> IF m \in S THEN v = w ELSE Holds(v, m) /\ v # w
    BY <1>3, <2>1, <2>2, <2>3 DEF Holds
  <2>5. ASSUME NEW v \in Worker, NEW m \in Message, Holds(v, m)'
        PROVE  /\ queue'[m] = "inflight"
               /\ ~(m \in batch'[v] /\ job'[v] = m)
               /\ \A u \in Worker : Holds(u, m)' => u = v
    <3>1. CASE m \in S
      BY <1>3, <2>1, <2>2, <2>3, <2>4, <2>5, <3>1 DEF Holds
    <3>2. CASE m \notin S
      <4>1. Holds(v, m) /\ v # w
        BY <2>4, <2>5, <3>2
      <4> QED BY <1>2, <1>3, <2>1, <2>2, <2>4, <3>2, <4>1 DEF HeldOnce
    <3> QED BY <3>1, <3>2
  <2> QED BY <2>5 DEF HeldOnce
<1>5. ASSUME NEW w \in Worker, TakeMessage(w) PROVE HeldOnce'
  <2>1. PICK m \in batch[w] :
          batch' = [batch EXCEPT ![w] = @ \ {m}] /\ job' = [job EXCEPT ![w] = m]
    BY <1>5 DEF TakeMessage
  <2>2. queue' = queue
    BY <1>5 DEF TakeMessage
  <2> QED BY <1>2, <1>3, <2>1, <2>2, HeldOnceQuiet
\* What is deleted was held by this worker only, which lets go of it.
<1>6. ASSUME NEW w \in Worker, Ack(w) PROVE HeldOnce'
  <2>1. /\ job[w] \in Message /\ Holds(w, job[w])
        /\ queue' = [queue EXCEPT ![job[w]] = "deleted"]
        /\ job' = [job EXCEPT ![w] = NoMessage] /\ batch' = batch
    BY <1>3, <1>6 DEF Ack, Finished, Holds
  <2>2. \A v \in Worker : Holds(v, job[w]) => v = w /\ job[w] \notin batch[w]
    BY <1>2, <2>1 DEF HeldOnce
  <2>3. \A v \in Worker, m \in Message : Holds(v, m)' => m # job[w]
    BY <1>3, <2>1, <2>2 DEF Holds
  <2>4. \A v \in Worker, m \in Message :
           /\ m \in batch'[v] => m \in batch[v]
           /\ job'[v] = m => job[v] = m
    BY <1>3, <2>1
  <2>5. \A v \in Worker, m \in Message :
           Holds(v, m)' /\ queue[m] = "inflight" => queue'[m] = "inflight"
    BY <1>3, <2>1, <2>3
  <2> QED BY <1>2, <2>4, <2>5, HeldOnceQuiet
<1>7. ASSUME NEW m \in Message, Redeliver(m) PROVE HeldOnce'
  <2>1. /\ \A w \in Worker : ~Holds(w, m)
        /\ queue' = [queue EXCEPT ![m] = "visible"] /\ job' = job /\ batch' = batch
    BY <1>7 DEF Redeliver, Reappear
  <2>2. \A w \in Worker, n \in Message : Holds(w, n)' <=> Holds(w, n)
    BY <2>1 DEF Holds
  <2> QED BY <1>2, <1>3, <2>1, <2>2, HeldOnceQuiet
<1>8. ASSUME NEW m \in Message, RedeliverEarly(m) PROVE FALSE
  BY <1>1, <1>2, <1>3, <1>8 DEF RedeliverEarly, Spend, Mishap
<1>9. ASSUME queue' = queue,
             \A w \in Worker : batch'[w] \subseteq batch[w] /\ job'[w] \in {job[w], NoMessage}
      PROVE  HeldOnce'
  BY <1>2, <1>3, <1>9, HeldOnceQuiet
<1>10. ASSUME NEW w \in Worker,
              \/ PollAgain(w) \/ Exit(w) \/ BatchDone(w) \/ Register(w) \/ ReadFile(w)
              \/ WriteBatch(w) \/ WalkMissesFile(w) \/ Commit(w) \/ Announce(w)
              \/ HeadFails(w) \/ WalkFails(w) \/ AckFails(w)
       PROVE  /\ queue' = queue
              /\ \A v \in Worker : batch'[v] \subseteq batch[v] /\ job'[v] \in {job[v], NoMessage}
  BY <1>3, <1>10 DEF PollAgain, vars, Exit, BatchDone, Register, ReadFile, WriteBatch,
       WalkMissesFile, Commit, Announce, HeadFails, WalkFails, AckFails, Finished
<1>11. ASSUME Restart \/ Stop \/ UNCHANGED vars \/ \E k \in Key : LoseObject(k)
       PROVE  /\ queue' = queue
              /\ \A v \in Worker : batch'[v] \subseteq batch[v] /\ job'[v] \in {job[v], NoMessage}
  BY <1>3, <1>11 DEF Restart, Stop, vars, LoseObject
<1> QED BY <1>4, <1>5, <1>6, <1>7, <1>8, <1>9, <1>10, <1>11 DEF Next, Step, Fault

\* In one run a message of a cluster is settled only by the worker that is
\* finished with it in a critical section, as a late or a further file or as
\* the one whose walk is committed: it is not poison, and no file is missing.
LEMMA SettledBy ==
  ASSUME IInv, ObjectsExist, [Next]_vars, OneRun',
         NEW c \in Cluster, NEW m \in MessagesOf(c), ~Settled(m), Settled(m)'
  PROVE  \E w \in Worker : job[w] = m /\ (Register(w) \/ Commit(w))
<1>1. /\ ~stop /\ stored = Uploaded /\ ~Restart /\ \A k \in Key : ~LoseObject(k)
  BY OneRunStep DEF IInv
<1>2. /\ queue \in [Message -> {"visible", "inflight", "deleted"}]
      /\ batch \in [Worker -> SUBSET Message]
      /\ job \in [Worker -> Message \cup {NoMessage}] /\ pc \in [Worker -> Place]
      /\ NoMessage \notin Message
      /\ \A w \in Worker : job[w] = NoMessage <=> pc[w] \in {"poll", "next", "exited"}
  BY MessagesAssumption DEF IInv, Typed, TypeOK
<1>3. m \in Message /\ Valid(m) /\ ~CanNeverSucceed(m)
  BY <1>1 DEF MessagesOf, Valid, CanNeverSucceed
<1>4. queue[m] # "deleted" /\ \A w \in Worker : job[w] = m => pc[w] \notin {"announce", "ack"}
  BY DEF Settled
<1>5. \/ queue'[m] = "deleted"
      \/ \E w \in Worker : job'[w] = m /\ pc'[w] \in {"announce", "ack"}
  BY DEF Settled
\* Every other step settles nothing.
<1>6. ASSUME queue'[m] = "deleted" => queue[m] = "deleted",
             \A w \in Worker : /\ job'[w] = m /\ pc'[w] \in {"announce", "ack"}
                               => job[w] = m /\ pc[w] \in {"announce", "ack"}
      PROVE  FALSE
  BY <1>4, <1>5, <1>6
<1> USE DEF memory, walk, outside
<1>7. ASSUME NEW w \in Worker, TakeMessage(w) PROVE FALSE
  <2>1. PICK n \in batch[w] :
          /\ job' = [job EXCEPT ![w] = n]
          /\ pc' = [pc EXCEPT ![w] = IF CanNeverSucceed(n) THEN "ack" ELSE "register"]
    BY <1>7 DEF TakeMessage
  <2>2. queue' = queue
    BY <1>7 DEF TakeMessage
  <2> QED BY <1>2, <1>3, <1>6, <2>1, <2>2
<1>8. ASSUME NEW w \in Worker, Ack(w) \/ AckFails(w) PROVE FALSE
  <2>1. pc[w] = "ack" /\ job' = [job EXCEPT ![w] = NoMessage] /\ pc' = [pc EXCEPT ![w] = "next"]
    BY <1>8 DEF Ack, AckFails, Finished
  <2>2. job[w] # m /\ (queue' = queue \/ queue' = [queue EXCEPT ![job[w]] = "deleted"])
    BY <1>4, <1>8, <2>1 DEF Ack, AckFails
  <2> QED BY <1>2, <1>3, <1>6, <2>1, <2>2
<1>9. ASSUME NEW w \in Worker, WalkMissesFile(w) PROVE FALSE
  BY <1>1, <1>9 DEF WalkMissesFile, ObjectsExist
<1>10. ASSUME NEW w \in Worker, Announce(w) PROVE FALSE
  BY <1>2, <1>6, <1>10 DEF Announce
<1>11. ASSUME NEW w \in Worker, Receive(w) PROVE FALSE
  <2>1. PICK S \in SUBSET Message :
          queue' = [n \in Message |-> IF n \in S THEN "inflight" ELSE queue[n]]
    BY <1>11 DEF Receive
  <2>2. job' = job /\ pc' = [pc EXCEPT ![w] = "next"]
    BY <1>11 DEF Receive
  <2> QED BY <1>2, <1>3, <1>6, <2>1, <2>2
<1>12. ASSUME NEW w \in Worker,
              \/ PollAgain(w) \/ Exit(w) \/ BatchDone(w) \/ ReadFile(w) \/ WriteBatch(w)
              \/ HeadFails(w) \/ WalkFails(w)
       PROVE  FALSE
  BY <1>2, <1>6, <1>12 DEF PollAgain, vars, Exit, BatchDone, ReadFile, WriteBatch, HeadFails,
       WalkFails
<1>13. ASSUME NEW n \in Message, Redeliver(n) \/ RedeliverEarly(n) PROVE FALSE
  BY <1>2, <1>3, <1>6, <1>13 DEF Redeliver, RedeliverEarly, Reappear
<1>14. CASE Stop \/ UNCHANGED vars
  BY <1>6, <1>14 DEF Stop, vars
<1>15. ASSUME NEW w \in Worker, Register(w) \/ Commit(w), job[w] # m PROVE FALSE
  <2>1. PICK there \in Place : pc' = [pc EXCEPT ![w] = there]
    BY <1>15 DEF Register, IgnoreLate, Remember, Claim, Commit, Place
  <2>2. job' = job /\ queue' = queue
    BY <1>15 DEF Register, Commit
  <2> QED BY <1>2, <1>6, <1>15, <2>1, <2>2
<1> QED
  BY <1>1, <1>7, <1>8, <1>9, <1>10, <1>11, <1>12, <1>13, <1>14, <1>15 DEF Next, Step, Fault

\* Without a restart the files of a cluster only grow, and it stays evaluated.
LEMMA MemoryStays ==
  ASSUME IInv, [Next]_vars, ~Restart, NEW c \in Cluster
  PROVE  /\ files[c] \subseteq files'[c]
         /\ evaluated[c] => evaluated'[c]
<1>1. /\ files \in [Cluster -> SUBSET Key] /\ evaluated \in [Cluster -> BOOLEAN]
  BY DEF IInv, Typed, TypeOK
<1> USE DEF memory, walk, outside
<1>2. ASSUME NEW w \in Worker, Register(w)
      PROVE  files[c] \subseteq files'[c] /\ evaluated' = evaluated
  <2>1. ClusterOf[job[w]] \in Cluster
    BY <1>2 DEF Register, IInv, Typed, JobValid, Valid
  <2> QED BY <1>1, <1>2, <2>1 DEF Register, IgnoreLate, Remember, Claim
<1>3. ASSUME NEW w \in Worker, Commit(w)
      PROVE  files' = files /\ (evaluated[c] => evaluated'[c])
  BY <1>1, <1>3 DEF Commit
<1>4. ASSUME NEW w \in Worker,
             \/ Receive(w) \/ PollAgain(w) \/ Exit(w) \/ BatchDone(w) \/ TakeMessage(w)
             \/ ReadFile(w) \/ WriteBatch(w) \/ WalkMissesFile(w) \/ Announce(w) \/ Ack(w)
             \/ HeadFails(w) \/ WalkFails(w) \/ AckFails(w)
      PROVE  UNCHANGED <<files, evaluated>>
  BY <1>4 DEF Receive, PollAgain, vars, Exit, BatchDone, TakeMessage, ReadFile, WriteBatch,
       WalkMissesFile, WalkFails, GiveUp, Announce, Ack, HeadFails, AckFails, Finished
<1>5. ASSUME \/ \E m \in Message : Redeliver(m) \/ RedeliverEarly(m)
             \/ \E k \in Key : LoseObject(k)
             \/ Stop
             \/ UNCHANGED vars
      PROVE  UNCHANGED <<files, evaluated>>
  BY <1>5 DEF Redeliver, RedeliverEarly, Reappear, LoseObject, Stop, vars
<1> QED BY <1>2, <1>3, <1>4, <1>5 DEF Next, Step, Fault

LEMMA AckedIsRecordedNext ==
  ASSUME IInv, Kept, [Next]_vars
  PROVE  AckedIsRecorded'
<1>1. SUFFICES ASSUME OneRun', NEW c \in Cluster, NEW m \in MessagesOf(c), Settled(m)'
               PROVE  KeyOf[m] \in files'[c]
  BY DEF AckedIsRecorded, OneRun
<1>2. OneRun /\ ~Restart
  BY <1>1, OneRunStep DEF IInv, Kept
<1>3. files[c] \subseteq files'[c]
  BY <1>2, MemoryStays
<1>4. KeyOf[m] \in LogFiles(c) /\ ClusterOf[m] = c
  BY DEF LogFiles, MessagesOf
<1>5. CASE Settled(m)
  BY <1>2, <1>3, <1>5 DEF Kept, AckedIsRecorded, OneRun
<1>6. CASE ~Settled(m)
  <2>1. PICK w \in Worker : job[w] = m /\ (Register(w) \/ Commit(w))
    BY <1>1, <1>6, SettledBy DEF Kept
  <2>2. CASE Commit(w)
    <3>1. w \in Walkers(c)
      BY <1>4, <2>1, <2>2 DEF Commit, Walkers
    <3>2. files[c] = LogFiles(c)
      BY <3>1 DEF IInv, Safe, SingleOwner, Kept, TakenIsComplete, AlreadyTaken
    <3> QED BY <1>3, <1>4, <3>2
  <2>3. CASE Register(w)
    <3> DEFINE S == files[c] \cup {KeyOf[m]}
    <3>1. IgnoreLate(w, c) \/ Remember(w, c, S) \/ Claim(w, c, S)
      BY <1>4, <2>1, <2>3 DEF Register
    <3>2. CASE IgnoreLate(w, c)
      <4>1. files[c] = LogFiles(c)
        BY <3>2 DEF IgnoreLate, Kept, TakenIsComplete
      <4> QED BY <1>3, <1>4, <4>1
    <3>3. CASE Remember(w, c, S) \/ Claim(w, c, S)
      <4>1. files'[c] = S
        BY <3>3 DEF Remember, Claim, IInv, Typed, TypeOK
      <4> QED BY <4>1
    <3> QED BY <3>1, <3>2, <3>3
  <2> QED BY <2>1, <2>2, <2>3
<1> QED BY <1>5, <1>6

\* The message of a walk is not settled while no other worker can have it.
LEMMA WalkedIsUnsettled ==
  ASSUME IInv, HeldOnce, used["early"] = 0, NEW c \in Cluster, NEW w \in Walkers(c)
  PROVE  /\ job[w] \in MessagesOf(c)
         /\ queue[job[w]] = "inflight"
         /\ \A v \in Worker : job[v] = job[w] => v = w
<1>1. w \in Worker /\ pc[w] = "walk" /\ ClusterOf[job[w]] = c
  BY DEF Walkers
<1>2. Valid(job[w])
  BY <1>1 DEF IInv, Typed, JobValid
<1>3. job[w] \in MessagesOf(c)
  BY <1>1, <1>2 DEF Valid, MessagesOf
<1>4. job[w] \in Message /\ \A v \in Worker : job[v] = job[w] => Holds(v, job[w])
  BY <1>2 DEF Valid, Holds
<1> QED BY <1>1, <1>3, <1>4 DEF HeldOnce

\* A walk that ends without evaluating its cluster, no object missing, ends
\* with a failed call.
LEMMA EndOfWalk ==
  ASSUME IInv, ObjectsExist, [Next]_vars, ~Restart, stored = Uploaded,
         NEW c \in Cluster, NEW w \in Worker, evaluating[c], ~evaluating'[c], ~evaluated'[c],
         \A v \in Worker : pc[v] = "walk" /\ ClusterOf[job[v]] = c => v = w
  PROVE  WalkFails(w)
<1>1. evaluating \in [Cluster -> BOOLEAN] /\ evaluated \in [Cluster -> BOOLEAN]
  BY DEF IInv, Typed, TypeOK
<1>2. evaluating' # evaluating
  OBVIOUS
<1> USE DEF memory, walk, outside
<1>3. ASSUME NEW v \in Worker, Commit(v) PROVE FALSE
  BY <1>1, <1>3 DEF Commit
<1>4. ASSUME NEW v \in Worker, WalkMissesFile(v) PROVE FALSE
  BY <1>4 DEF WalkMissesFile, ObjectsExist
<1>5. ASSUME NEW v \in Worker, WalkFails(v) PROVE WalkFails(w)
  <2>1. pc[v] = "walk" /\ ClusterOf[job[v]] = c
    BY <1>1, <1>5 DEF WalkFails, GiveUp
  <2> QED BY <1>5, <2>1
<1>6. ASSUME NEW v \in Worker, Register(v) PROVE FALSE
  BY <1>1, <1>6 DEF Register, IgnoreLate, Remember, Claim
<1>7. ASSUME NEW v \in Worker,
             \/ Receive(v) \/ PollAgain(v) \/ Exit(v) \/ BatchDone(v) \/ TakeMessage(v)
             \/ ReadFile(v) \/ WriteBatch(v) \/ Announce(v) \/ Ack(v) \/ HeadFails(v)
             \/ AckFails(v)
      PROVE  FALSE
  BY <1>2, <1>7 DEF Receive, PollAgain, vars, Exit, BatchDone, TakeMessage, ReadFile, WriteBatch,
       Announce, Ack, HeadFails, AckFails, Finished
<1>8. ASSUME \/ \E m \in Message : Redeliver(m) \/ RedeliverEarly(m)
             \/ \E k \in Key : LoseObject(k)
             \/ Stop
             \/ UNCHANGED vars
      PROVE  FALSE
  BY <1>2, <1>8 DEF Redeliver, RedeliverEarly, Reappear, LoseObject, Stop, vars
<1> QED BY <1>3, <1>4, <1>5, <1>6, <1>7, <1>8 DEF Next, Step, Fault

LEMMA UnfinishedHasMessageNext ==
  ASSUME IInv, IInv', Kept, HeldOnce', TakenIsComplete', AckedIsRecorded', [Next]_vars
  PROVE  UnfinishedHasMessage'
<1>1. SUFFICES ASSUME OneRun', used'["early"] = 0, NEW c \in Cluster, ~evaluated'[c]
               PROVE  \E m \in MessagesOf(c) : ~Settled(m)'
  <2>1. /\ used'["restart"] \in Nat /\ used'["lost"] \in Nat /\ used'["early"] \in Nat
    BY DEF IInv, Typed, TypeOK, Mishap
  <2>2. used'["restart"] + used'["lost"] + used'["early"] = 0
          => used'["restart"] + used'["lost"] = 0 /\ used'["early"] = 0
    BY <2>1
  <2> QED BY <1>1, <2>2 DEF UnfinishedHasMessage, OneRun
<1>2. /\ OneRun /\ ~Restart /\ stored = Uploaded /\ used["early"] = 0
      /\ used["restart"] + used["lost"] + used["early"] = 0
  <2>1. OneRun /\ ~Restart /\ stored = Uploaded
    BY <1>1, OneRunStep DEF IInv, Kept
  <2>2. "early" \in Mishap
    BY DEF Mishap
  <2>3. used["early"] = 0
    BY <1>1, <2>2, UsedGrows DEF IInv
  <2> QED BY <2>1, <2>3 DEF OneRun
<1>3. ~evaluated[c] /\ files'[c] \subseteq LogFiles(c)
  BY <1>1, <1>2, MemoryStays DEF IInv, Safe, FilesKnown
\* A file is still unknown: its message cannot have been settled.
<1>4. CASE files'[c] # LogFiles(c)
  <2>1. PICK m \in MessagesOf(c) : KeyOf[m] \notin files'[c]
    BY <1>3, <1>4 DEF LogFiles
  <2> QED BY <1>1, <2>1 DEF AckedIsRecorded, OneRun
\* The cluster is walked: the walker has the message.
<1>5. CASE evaluating'[c]
  <2>1. PICK w \in Worker : w \in Walkers(c)'
    BY <1>5 DEF IInv, Safe, SingleOwner, Walkers
  <2>2. PICK m \in MessagesOf(c) :
          /\ job'[w] = m /\ pc'[w] = "walk"
          /\ queue'[m] = "inflight"
          /\ \A v \in Worker : job'[v] = m => v = w
    <3>1. pc'[w] = "walk" /\ ClusterOf[job'[w]] = c /\ Valid(job'[w])
      BY <2>1 DEF Walkers, IInv, Typed, JobValid
    <3>2. job'[w] \in MessagesOf(c) /\ job'[w] \in Message
      BY <3>1 DEF Valid, MessagesOf
    <3> QED BY <1>1, <3>1, <3>2 DEF HeldOnce, Holds
  <2>3. ~Settled(m)'
    BY <2>2 DEF Settled
  <2> QED BY <2>3
\* All files are known but the cluster is not walked.
<1>6. CASE files'[c] = LogFiles(c) /\ ~evaluating'[c]
  \* Its walk has just failed, which leaves the message in the queue.
  <2>1. CASE evaluating[c]
    <3>1. PICK w \in Walkers(c) : TRUE
      BY <2>1 DEF IInv, Safe, SingleOwner
    <3>2. /\ w \in Worker /\ pc[w] = "walk" /\ ClusterOf[job[w]] = c
          /\ \A v \in Worker : pc[v] = "walk" /\ ClusterOf[job[v]] = c => v = w
      BY <3>1 DEF Walkers, IInv, Safe, SingleOwner
    <3>3. WalkFails(w)
      BY <1>1, <1>2, <1>6, <2>1, <3>2, EndOfWalk DEF Kept
    <3>4. PICK m \in MessagesOf(c) :
            /\ job[w] = m /\ queue[m] = "inflight"
            /\ \A v \in Worker : job[v] = m => v = w
      BY <1>2, <3>1, WalkedIsUnsettled DEF Kept
    <3>5. queue' = queue /\ job' = [job EXCEPT ![w] = NoMessage]
      BY <3>3 DEF WalkFails
    <3>6. m # NoMessage /\ job \in [Worker -> Message \cup {NoMessage}]
      BY <3>4, MessagesAssumption DEF MessagesOf, IInv, Typed, TypeOK
    <3>7. ~Settled(m)'
      <4>1. \A v \in Worker : job'[v] # m
        BY <3>4, <3>5, <3>6
      <4> QED BY <3>4, <3>5, <4>1 DEF Settled
    <3> QED BY <3>7
  \* A message that was unsettled still is: registering it would claim.
  <2>2. CASE ~evaluating[c]
    <3>1. PICK m \in MessagesOf(c) : ~Settled(m)
      BY <1>2, <1>3 DEF Kept, UnfinishedHasMessage
    <3>2. ASSUME Settled(m)' PROVE FALSE
      <4>1. PICK w \in Worker : job[w] = m /\ (Register(w) \/ Commit(w))
        BY <1>1, <3>1, <3>2, SettledBy DEF Kept
      <4>2. ClusterOf[m] = c
        BY DEF MessagesOf
      <4>3. CASE Commit(w)
        <5>1. evaluated'[c]
          BY <4>1, <4>2, <4>3 DEF Commit, IInv, Typed, TypeOK
        <5> QED BY <1>1, <5>1
      <4>4. CASE Register(w)
        <5> DEFINE S == files[c] \cup {KeyOf[m]}
        <5>1. IgnoreLate(w, c) \/ Remember(w, c, S) \/ Claim(w, c, S)
          BY <4>1, <4>2, <4>4 DEF Register
        <5>2. ~IgnoreLate(w, c)
          BY <1>3, <2>2 DEF IgnoreLate, AlreadyTaken
        <5>3. ASSUME Remember(w, c, S) PROVE FALSE
          <6>1. S = LogFiles(c) /\ ~IsComplete(c, S)
            BY <1>6, <5>3 DEF Remember, IInv, Typed, TypeOK
          <6>2. Cardinality(S) = NumLogFiles[c] /\ NumLogFiles[c] \in Nat
            BY <6>1, ManifestAssumption
          <6> QED BY <6>1, <6>2 DEF IsComplete
        <5>4. ASSUME Claim(w, c, S) PROVE FALSE
          BY <1>6, <5>4 DEF Claim, IInv, Typed, TypeOK
        <5> QED BY <5>1, <5>2, <5>3, <5>4
      <4> QED BY <4>1, <4>3, <4>4
    <3> QED BY <3>1, <3>2
  <2> QED BY <2>1, <2>2
<1> QED BY <1>3, <1>4, <1>5, <1>6

LEMMA KeptInit == Init => Kept
<1> SUFFICES ASSUME Init PROVE Kept
  OBVIOUS
<1> USE DEF Init, MemoryInit
<1>1. ObjectsExist /\ TakenIsComplete
  BY DEF ObjectsExist, TakenIsComplete, AlreadyTaken
<1>2. HeldOnce
  BY MessagesAssumption DEF HeldOnce, Holds
<1>3. ASSUME NEW m \in Message PROVE ~Settled(m)
  BY <1>3 DEF Settled
<1>4. AckedIsRecorded
  BY <1>3 DEF AckedIsRecorded, MessagesOf
<1>5. UnfinishedHasMessage
  <2>1. ASSUME NEW c \in Cluster PROVE MessagesOf(c) # {}
    <3>1. LogFiles(c) # {}
      <4>1. Cardinality({}) = 0
        BY FS_EmptySet
      <4>2. Cardinality(LogFiles(c)) # 0
        BY ManifestAssumption
      <4> QED BY <4>1, <4>2
    <3> QED BY <3>1 DEF LogFiles
  <2> QED BY <1>3, <2>1 DEF UnfinishedHasMessage, MessagesOf
<1> QED BY <1>1, <1>2, <1>4, <1>5 DEF Kept

LEMMA KeptInductive == Spec => [](IInv /\ Kept)
<1>1. Init => IInv /\ Kept
  BY TypedInit, SafeInit, KeptInit DEF IInv
<1>2. IInv /\ Kept /\ [Next]_vars => IInv' /\ Kept'
  <2> SUFFICES ASSUME IInv, Kept, [Next]_vars PROVE IInv' /\ Kept'
    OBVIOUS
  <2>1. IInv'
    BY TypedNext, SafeNext DEF IInv
  <2>2. ObjectsExist' /\ TakenIsComplete' /\ HeldOnce'
    BY ObjectsExistNext, TakenIsCompleteNext, HeldOnceNext DEF Kept
  <2>3. AckedIsRecorded'
    BY AckedIsRecordedNext
  <2>4. UnfinishedHasMessage'
    BY <2>1, <2>2, <2>3, UnfinishedHasMessageNext
  <2> QED BY <2>1, <2>2, <2>3, <2>4 DEF Kept
<1> QED BY <1>1, <1>2, PTL DEF Spec

\* A message of a cluster is deleted only once its key is recorded
\* (scaler.py:17), in one run of the process and while no object is deleted.
THEOREM AckedMessagesAreRecorded == Spec => []AckedIsRecorded
<1>1. Kept => AckedIsRecorded
  BY DEF Kept
<1> QED BY <1>1, KeptInductive, PTL

\* While a cluster is not evaluated some message of it is still to be handled
\* or in the hands of its walker (scaler.py:17-18, 352-354), as long as no
\* message is redelivered to a second worker.
THEOREM UnfinishedClustersHaveMessages == Spec => []UnfinishedHasMessage
<1>1. Kept => UnfinishedHasMessage
  BY DEF Kept
<1> QED BY <1>1, KeptInductive, PTL

-----------------------------------------------------------------------------
(* The pool implements Publication: a write is a Publish of the walked      *)
(* cluster, a commit its Finish, and no other step shows.                   *)

LEMMA PromiseWrite ==
  ASSUME IInv, NEW w \in Worker,
         WriteBatch(w) \/ WalkFails(w) \/ WalkMissesFile(w)
  PROVE  \E c \in Cluster : Promise!Publish(c)
<1>1. PICK c \in Cluster : c = ClusterOf[job[w]] /\ WalkOf(w, c) /\ pc[w] = "walk"
  BY DEF WriteBatch, WalkFails, WalkMissesFile, IInv, Typed, JobValid, Valid, Safe, WalksAreWhole
<1>2. ~evaluated[c]
  <2>1. w \in Walkers(c)
    BY <1>1 DEF Walkers
  <2> QED BY <2>1 DEF IInv, Safe, SingleOwner
<1>3. UNCHANGED <<evaluated, announced>>
  BY DEF WriteBatch, WalkFails, WalkMissesFile, GiveUp, memory
<1>4. PICK ranks \in SUBSET NextRanks(w) :
        table' = table \cup {Item(c, LogFiles(c), n) : n \in ranks}
  <2>1. CASE WalkMissesFile(w)
    <3>1. table' = table \cup {Item(c, LogFiles(c), n) : n \in {}}
      BY <2>1 DEF WalkMissesFile, outside
    <3> QED BY <3>1
  <2>2. CASE WalkFails(w)
    <3>1. PICK ranks \in SUBSET (IF MayWrite(w) THEN NextRanks(w) ELSE {}) :
            table' = table \cup {Item(ClusterOf[job[w]], snapshot[w], n) : n \in ranks}
      BY <2>2 DEF WalkFails
    <3> QED BY <1>1, <3>1 DEF WalkOf
  <2>3. CASE WriteBatch(w)
    <3>1. table' = table \cup {Item(c, LogFiles(c), n) : n \in NextRanks(w)}
      BY <1>1, <2>3 DEF WriteBatch, WalkOf
    <3> QED BY <3>1
  <2> QED BY <2>1, <2>2, <2>3
<1>5. {Item(c, LogFiles(c), n) : n \in ranks} \in SUBSET Genuine(c)
  <2>1. NextRanks(w) \subseteq 1..NumDecisions[c]
    BY <1>1 DEF NextRanks
  <2> QED BY <2>1 DEF Genuine, Decisions
<1>6. Promise!Publish(c)
  BY <1>2, <1>3, <1>4, <1>5 DEF Promise!Publish
<1> QED BY <1>6

LEMMA PromiseCommit ==
  ASSUME IInv, NEW w \in Worker, Commit(w)
  PROVE  \E c \in Cluster : Promise!Finish(c)
<1>1. PICK c \in Cluster : c = ClusterOf[job[w]]
  BY DEF Commit, IInv, Typed, JobValid, Valid
<1>2. evaluated' = [evaluated EXCEPT ![c] = TRUE] /\ UNCHANGED <<table, announced>>
  BY <1>1 DEF Commit, outside
<1>3. evaluated \in [Cluster -> BOOLEAN]
  BY DEF IInv, Typed, TypeOK
<1>4. EvaluatedIsDurable'
  BY SafeCommit DEF Safe
<1>5. Genuine(c) \subseteq table
  BY <1>2, <1>3, <1>4 DEF EvaluatedIsDurable
<1>6. {d \in Cluster : evaluated'[d]} = {d \in Cluster : evaluated[d]} \cup {c}
  BY <1>2, <1>3
<1>7. Promise!Finish(c)
  BY <1>2, <1>5, <1>6 DEF Promise!Finish
<1> QED BY <1>7

LEMMA PromiseStep == IInv /\ [Next]_vars => [Promise!Next]_(Promise!vars)
<1> SUFFICES ASSUME IInv, [Next]_vars PROVE [Promise!Next]_(Promise!vars)
  OBVIOUS
<1>1. ASSUME NEW w \in Worker, WriteBatch(w) \/ WalkFails(w) \/ WalkMissesFile(w)
      PROVE  Promise!Next
  BY <1>1, PromiseWrite DEF Promise!Next
<1>2. ASSUME NEW w \in Worker, Commit(w) PROVE Promise!Next
  BY <1>2, PromiseCommit DEF Promise!Next
<1>3. ASSUME NEW w \in Worker, Announce(w) PROVE Promise!Next
  <2>1. AllDone(evaluated)
    BY <1>3 DEF Announce, IInv, Safe, AnnouncedAfterAll
  <2>2. Promise!Announce
    BY <1>3, <2>1 DEF Announce, outside, AllDone, Promise!Announce
  <2> QED BY <2>2 DEF Promise!Next
<1>4. CASE Restart
  <2>1. {c \in Cluster : evaluated'[c]} = {} /\ announced' = FALSE /\ table' = table
    BY <1>4 DEF Restart, outside
  <2>2. Promise!Restart
    BY <2>1 DEF Promise!Restart
  <2> QED BY <2>2 DEF Promise!Next
<1>5. ASSUME UNCHANGED <<table, evaluated, announced>> PROVE UNCHANGED Promise!vars
  BY <1>5 DEF Promise!vars
<1> USE DEF memory, walk, outside
<1>6. ASSUME NEW w \in Worker,
             \/ Receive(w) \/ PollAgain(w) \/ Exit(w) \/ BatchDone(w) \/ TakeMessage(w)
             \/ Register(w) \/ ReadFile(w) \/ Ack(w) \/ HeadFails(w) \/ AckFails(w)
      PROVE  UNCHANGED <<table, evaluated, announced>>
  BY <1>6 DEF Receive, PollAgain, vars, Exit, BatchDone, TakeMessage, Register, IgnoreLate,
       Remember, Claim, ReadFile, Ack, HeadFails, AckFails, Finished
<1>7. ASSUME \/ \E m \in Message : Redeliver(m) \/ RedeliverEarly(m)
             \/ \E k \in Key : LoseObject(k)
             \/ Stop
             \/ UNCHANGED vars
      PROVE  UNCHANGED <<table, evaluated, announced>>
  BY <1>7 DEF Redeliver, RedeliverEarly, Reappear, LoseObject, Stop, vars
<1> QED
  BY <1>1, <1>2, <1>3, <1>4, <1>5, <1>6, <1>7 DEF Next, Step, Fault

\* Whatever is duplicated, retried or cut short, a reader of the table and of
\* the announcement sees only what Publication allows.
THEOREM PoolImplementsPublication == Spec => ImplementsPublication
<1>1. Init => Promise!Init
  BY DEF Init, MemoryInit, Promise!Init
<1>2. IInv /\ [Next]_vars => [Promise!Next]_(Promise!vars)
  BY PromiseStep
<1> QED BY <1>1, <1>2, Inductive, PTL DEF Spec, Promise!Spec, ImplementsPublication
=============================================================================
