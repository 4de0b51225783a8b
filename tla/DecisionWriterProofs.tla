------------------------ MODULE DecisionWriterProofs ------------------------
(***************************************************************************)
(* For every table, every sequence of decisions, every batch size and      *)
(* every number of attempts, put_decisions leaves in the table what one    *)
(* put per decision would have left.                                       *)
(***************************************************************************)
EXTENDS DecisionWriter, TLAPS

\* What is in the way of the type invariant: an attempt is left while a batch
\* is being sent.
AttemptLeft == pc = "send" => attempt < MaxAttempts

\* An item still to be written is not superseded by a decision handed over.
RequestsAreLast == requests \subseteq LastWrites(1, handed)

\* Between batches nothing is left to send.
NothingLeft == pc \in {"walk", "done"} => requests = {}

\* Unless the batch was given up, every decision handed over that is the last
\* of its key is in the table or among the items still to be sent.
WrittenOrRequested ==
  pc # "raised" =>
    \A n \in LastWrites(1, handed) : n \in requests \/ table[decisions[n]] = n

IInv == TypeOK /\ AttemptLeft /\ RequestsAreLast /\ NothingLeft /\ WrittenOrRequested

-----------------------------------------------------------------------------
\* Of two decisions of one key at most one is the last.
LEMMA LastIsUnique ==
  ASSUME NEW n \in Nat, NEW l \in LastWrites(1, n), NEW m \in LastWrites(1, n),
         decisions[l] = decisions[m]
  PROVE  l = m
<1>1. l \in 1..n /\ m \in 1..n
  BY DEF LastWrites
<1>2. CASE l < m
  <2>1. m \in l + 1..n
    BY <1>1, <1>2
  <2> QED BY <2>1 DEF LastWrites
<1>3. CASE m < l
  <2>1. l \in m + 1..n
    BY <1>1, <1>3
  <2> QED BY <2>1 DEF LastWrites
<1> QED BY <1>1, <1>2, <1>3

\* A decision that is the last of its key up to n is so among fewer, as long
\* as it is one of them.
LEMMA LastAmongFewer ==
  ASSUME NEW k \in Nat, NEW n \in Nat, k <= n, NEW m \in LastWrites(1, n)
  PROVE  /\ m <= k => m \in LastWrites(1, k)
         /\ m > k => m \in LastWrites(k + 1, n)
<1>1. m \in 1..n
  BY DEF LastWrites
<1>2. ASSUME m <= k PROVE m \in LastWrites(1, k)
  <2>1. m \in 1..k /\ m + 1..k \subseteq m + 1..n
    BY <1>1, <1>2
  <2> QED BY <2>1 DEF LastWrites
<1>3. ASSUME m > k PROVE m \in LastWrites(k + 1, n)
  <2>1. m \in k + 1..n
    BY <1>1, <1>3
  <2> QED BY <2>1 DEF LastWrites
<1> QED BY <1>2, <1>3

\* The last writes of a batch that ends at n are last writes of all n.
LEMMA BatchIsLast ==
  ASSUME NEW k \in Nat, NEW n \in Nat
  PROVE  LastWrites(k + 1, n) \subseteq LastWrites(1, n)
BY DEF LastWrites

\* What putting some requests does to the table.
LEMMA PutWrites ==
  ASSUME IInv, NEW items \in SUBSET requests
  PROVE  /\ Put(items) \in [Key -> 0..Len(decisions)]
         /\ \A n \in LastWrites(1, handed) :
              /\ n \in items => Put(items)[decisions[n]] = n
              /\ n \notin items => Put(items)[decisions[n]] = table[decisions[n]]
<1> USE DEF IInv, TypeOK
<1>1. decisions \in Seq(Key) /\ handed \in Nat /\ Len(decisions) \in Nat
  BY WriterAssumption
<1>2. \A n \in 1..handed : decisions[n] \in Key
  BY <1>1
<1>3. items \subseteq LastWrites(1, handed) /\ items \subseteq 0..Len(decisions)
  BY <1>1 DEF RequestsAreLast
<1>4. Put(items) \in [Key -> 0..Len(decisions)]
  BY <1>3 DEF Put
<1>5. ASSUME NEW n \in LastWrites(1, handed), n \in items
      PROVE  Put(items)[decisions[n]] = n
  <2>1. \A m \in items : decisions[m] = decisions[n] => m = n
    BY <1>1, <1>3, LastIsUnique
  <2>2. decisions[n] \in Key
    BY <1>2 DEF LastWrites
  <2> QED BY <1>5, <2>1, <2>2 DEF Put
<1>6. ASSUME NEW n \in LastWrites(1, handed), n \notin items
      PROVE  Put(items)[decisions[n]] = table[decisions[n]]
  <2>1. \A m \in items : decisions[m] # decisions[n]
    BY <1>1, <1>3, <1>6, LastIsUnique
  <2>2. decisions[n] \in Key
    BY <1>2 DEF LastWrites
  <2> QED BY <2>1, <2>2 DEF Put
<1> QED BY <1>4, <1>5, <1>6

-----------------------------------------------------------------------------
LEMMA InitIsSafe == Init => IInv
<1> SUFFICES ASSUME Init PROVE IInv
  OBVIOUS
<1> USE DEF Init, Nothing
<1>1. Len(decisions) \in Nat
  BY WriterAssumption
<1>2. TypeOK
  BY <1>1, WriterAssumption DEF TypeOK
<1>3. LastWrites(1, handed) = {}
  BY DEF LastWrites
<1> QED BY <1>2, <1>3 DEF IInv, AttemptLeft, RequestsAreLast, NothingLeft, WrittenOrRequested

LEMMA HandIsSafe == IInv /\ Hand => IInv'
<1> SUFFICES ASSUME IInv, Hand PROVE IInv'
  OBVIOUS
<1> USE DEF Hand
<1>1. /\ decisions \in Seq(Key) /\ Len(decisions) \in Nat /\ handed \in Nat
      /\ BatchSize \in Nat \ {0} /\ MaxAttempts \in Nat \ {0}
  BY WriterAssumption DEF IInv, TypeOK
<1>2. handed' \in Nat /\ handed < handed' /\ handed' <= Len(decisions)
  BY <1>1 DEF EndOfBatch
<1>3. requests' = LastWrites(handed + 1, handed')
  BY DEF Distinct
<1>4. requests' \subseteq LastWrites(1, handed')
  BY <1>1, <1>2, <1>3, BatchIsLast
<1>5. \A n \in LastWrites(1, handed') : n \in 1..handed'
  BY DEF LastWrites
<1>6. TypeOK'
  BY <1>1, <1>2, <1>4, <1>5 DEF IInv, TypeOK
<1>7. RequestsAreLast'
  BY <1>4 DEF RequestsAreLast, LastWrites
<1>8. ASSUME NEW n \in LastWrites(1, handed')
      PROVE  n \in requests' \/ table[decisions[n]] = n
  <2>1. n \in Nat
    BY <1>2, <1>5
  <2>2. CASE n > handed
    BY <1>1, <1>2, <1>3, <2>2, LastAmongFewer
  <2>3. CASE n <= handed
    <3>1. n \in LastWrites(1, handed)
      BY <1>1, <1>2, <2>3, LastAmongFewer
    <3> QED BY <3>1 DEF IInv, WrittenOrRequested, NothingLeft
  <2> QED BY <1>1, <2>1, <2>2, <2>3
<1>9. WrittenOrRequested'
  BY <1>8 DEF WrittenOrRequested, LastWrites
<1> QED BY <1>1, <1>6, <1>7, <1>9 DEF IInv, AttemptLeft, NothingLeft

LEMMA SendIsSafe == IInv /\ Send => IInv'
<1> SUFFICES ASSUME IInv, Send PROVE IInv'
  OBVIOUS
<1> USE DEF Send
<1>1. PICK accepted \in SUBSET requests :
        table' = Put(accepted) /\ requests' = Unprocessed(accepted)
  OBVIOUS
<1>2. requests' = requests \ accepted
  BY <1>1 DEF Unprocessed
<1>3. attempt \in Nat /\ attempt < MaxAttempts /\ MaxAttempts \in Nat
  BY WriterAssumption DEF IInv, TypeOK, AttemptLeft
<1>4. pc' \in {"walk", "raised", "send"}
  BY DEF Drained
<1>5. /\ pc' = "walk" => requests' = {}
      /\ pc' = "send" => attempt + 1 # MaxAttempts
  BY DEF Drained, Exhausted
<1>6. table' \in [Key -> 0..Len(decisions)]
  BY <1>1, PutWrites
<1>7. TypeOK'
  <2>1. faults' \in 0..MaxFaults
    BY WriterAssumption DEF Fault, IInv, TypeOK
  <2> QED BY <1>2, <1>3, <1>4, <1>6, <2>1 DEF IInv, TypeOK
<1>8. RequestsAreLast'
  BY <1>2 DEF IInv, RequestsAreLast, LastWrites
<1>9. ASSUME NEW n \in LastWrites(1, handed)
      PROVE  n \in requests' \/ table'[decisions[n]] = n
  <2>1. n \in requests \/ table[decisions[n]] = n
    BY <1>9 DEF IInv, WrittenOrRequested
  <2> QED BY <1>1, <1>2, <2>1, PutWrites
<1>10. WrittenOrRequested'
  BY <1>9 DEF WrittenOrRequested, LastWrites
<1> QED BY <1>3, <1>4, <1>5, <1>7, <1>8, <1>10 DEF IInv, AttemptLeft, NothingLeft

LEMMA FailureIsSafe == IInv /\ CallFails => IInv'
<1> SUFFICES ASSUME IInv, CallFails PROVE IInv'
  OBVIOUS
<1> USE DEF CallFails, Fault
<1>1. table' \in [Key -> 0..Len(decisions)]
  BY PutWrites
<1>2. TypeOK'
  BY <1>1, WriterAssumption DEF IInv, TypeOK
<1>3. RequestsAreLast'
  BY DEF IInv, RequestsAreLast, LastWrites
<1> QED BY <1>2, <1>3 DEF IInv, AttemptLeft, NothingLeft, WrittenOrRequested

LEMMA RerunIsSafe == IInv /\ Rerun => IInv'
<1> SUFFICES ASSUME IInv, Rerun PROVE IInv'
  OBVIOUS
<1> USE DEF Rerun
<1>1. TypeOK'
  BY WriterAssumption DEF IInv, TypeOK
<1>2. LastWrites(1, handed)' = {}
  BY DEF LastWrites
<1> QED BY <1>1, <1>2 DEF IInv, AttemptLeft, RequestsAreLast, NothingLeft, WrittenOrRequested

LEMMA UnchangedIsSafe == IInv /\ (Done \/ UNCHANGED vars) => IInv'
<1> SUFFICES ASSUME IInv, Done \/ UNCHANGED vars PROVE IInv'
  OBVIOUS
<1>1. UNCHANGED <<decisions, table, handed, requests, attempt, faults>>
  BY DEF Done, vars
<1>2. pc' = pc \/ (pc = "walk" /\ pc' = "done")
  BY DEF Done, vars
<1>3. TypeOK' /\ RequestsAreLast'
  BY <1>1, <1>2 DEF IInv, TypeOK, RequestsAreLast, LastWrites
<1>4. AttemptLeft' /\ NothingLeft'
  BY <1>1, <1>2 DEF IInv, AttemptLeft, NothingLeft
<1>5. WrittenOrRequested'
  BY <1>1, <1>2 DEF IInv, WrittenOrRequested, LastWrites
<1> QED BY <1>3, <1>4, <1>5 DEF IInv

-----------------------------------------------------------------------------
LEMMA WriterInvariant == Spec => []IInv
<1>1. IInv /\ [Next]_vars => IInv'
  BY HandIsSafe, SendIsSafe, FailureIsSafe, RerunIsSafe, UnchangedIsSafe DEF Next
<1> QED BY <1>1, InitIsSafe, PTL DEF Spec

\* The loop of _write_batch makes at most MaxAttempts calls for a batch, and
\* the other variables keep their types.
THEOREM WriterTypeCorrect == Spec => []TypeOK
<1>1. IInv => TypeOK
  BY DEF IInv
<1> QED BY <1>1, WriterInvariant, PTL

\* No request of put_decisions has two items of one key, whatever came back
\* unprocessed (dynamodb_client.py:42-43).
THEOREM RequestsAreLegal == Spec => []BatchHasDistinctKeys
<1>1. IInv => BatchHasDistinctKeys
  <2> SUFFICES ASSUME IInv, NEW m \in requests, NEW n \in requests,
                      decisions[m] = decisions[n]
               PROVE  m = n
    BY DEF BatchHasDistinctKeys
  <2>1. handed \in Nat
    BY WriterAssumption DEF IInv, TypeOK
  <2> QED BY <2>1, LastIsUnique DEF IInv, RequestsAreLast
<1> QED BY <1>1, WriterInvariant, PTL

\* Whenever put_decisions has returned, the table has what sequential puts of
\* all decisions handed over would have left (dynamodb_client.py:44), after
\* any history of throttled, failed and repeated writes.
THEOREM PutsAreSequential == Spec => []TableIsSequential
<1>1. IInv => TableIsSequential
  BY DEF IInv, NothingLeft, WrittenOrRequested, TableIsSequential
<1> QED BY <1>1, WriterInvariant, PTL
=============================================================================
