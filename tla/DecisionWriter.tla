--------------------------- MODULE DecisionWriter ---------------------------
(***************************************************************************)
(* put_decisions of aws_clients/dynamodb_client.py, as the walk of a       *)
(* cluster calls it: batch after batch of decisions, each sent with        *)
(* batch_write_item until DynamoDB has accepted all of it.                 *)
(*                                                                         *)
(* The decisions of the walk are a sequence of table keys; a decision is   *)
(* named by its place in the sequence, and the table holds, per key, the   *)
(* place of the decision last written there, or Nothing.                   *)
(***************************************************************************)
EXTENDS Naturals, Sequences

CONSTANTS
  Key,          \* the primary keys of the table
  Walks,        \* the sequences of decisions considered
  BatchSize,    \* DYNAMODB_BATCH_SIZE
  MaxAttempts,  \* UNPROCESSED_MAX_ATTEMPTS
  MaxFaults     \* how many calls may fail, or be accepted in part only

ASSUME WriterAssumption ==
  /\ Walks \subseteq Seq(Key)
  /\ BatchSize \in Nat \ {0}
  /\ MaxAttempts \in Nat \ {0}
  /\ MaxFaults \in Nat

VARIABLES
  decisions,  \* what the walk yields, chosen at the start
  table,      \* key -> the decision stored there
  handed,     \* how many decisions have been given to put_decisions
  requests,   \* the decisions of the batch not accepted yet
  attempt,    \* calls made for the batch
  faults,     \* calls that failed or were accepted in part
  pc          \* "walk", "send", "raised" or "done"

vars == <<decisions, table, handed, requests, attempt, faults, pc>>

Nothing == 0

Init ==
  /\ decisions \in Walks
  /\ table = [k \in Key |-> Nothing]
  /\ handed = 0 /\ requests = {} /\ attempt = 0
  /\ faults = 0
  /\ pc = "walk"

\* Of the decisions from..n, those whose key no later one of them has.
LastWrites(from, n) ==
  {m \in from..n : \A later \in m + 1..n : decisions[later] # decisions[m]}

\* Deviation: the items of a batch are not de-duplicated.
AllOf(from, n) == from..n

Distinct(from, n) == LastWrites(from, n)

EndOfBatch == IF handed + BatchSize < Len(decisions) THEN handed + BatchSize
                                                     ELSE Len(decisions)

\* put_decisions is called with the next full batch, or with what remains.
Hand ==
  /\ pc = "walk"
  /\ handed < Len(decisions)
  /\ requests' = Distinct(handed + 1, EndOfBatch)
  /\ handed' = EndOfBatch
  /\ attempt' = 0
  /\ pc' = "send"
  /\ UNCHANGED <<decisions, table, faults>>

\* What the table holds after a set of decisions of different keys is put.
Put(items) ==
  [k \in Key |-> IF \E n \in items : decisions[n] = k
                 THEN CHOOSE n \in items : decisions[n] = k
                 ELSE table[k]]

\* Deviation: what comes back as unprocessed is forgotten.
Forgotten(accepted) == {}

\* Deviation: the whole batch is sent again.
AllAgain(accepted) == requests

Unprocessed(accepted) == requests \ accepted

Drained(rest) == rest = {}

\* Deviation: the loop makes one attempt too many.
OneMoreAttempt == attempt = MaxAttempts

Exhausted == attempt + 1 = MaxAttempts

Fault == faults < MaxFaults /\ faults' = faults + 1

\* One turn of the loop of _write_batch.  DynamoDB may throttle it, that is,
\* return any part of the request as unprocessed, all of it included.
Send ==
  /\ pc = "send"
  /\ \E accepted \in SUBSET requests :
       /\ IF accepted = requests THEN UNCHANGED faults ELSE Fault
       /\ table' = Put(accepted)
       /\ requests' = Unprocessed(accepted)
  /\ attempt' = attempt + 1
  /\ pc' = IF Drained(requests') THEN "walk"
           ELSE IF Exhausted THEN "raised" ELSE "send"
  /\ UNCHANGED <<decisions, handed>>

\* The call fails, which may be after some or all items were written.
CallFails ==
  /\ pc = "send"
  /\ Fault
  /\ \E applied \in SUBSET requests : table' = Put(applied)
  /\ pc' = "raised"
  /\ UNCHANGED <<decisions, handed, requests, attempt>>

\* The message is redelivered and the cluster walked again from its start.
Rerun ==
  /\ pc = "raised"
  /\ handed' = 0 /\ requests' = {} /\ attempt' = 0
  /\ pc' = "walk"
  /\ UNCHANGED <<decisions, table, faults>>

Done ==
  /\ pc = "walk"
  /\ handed = Len(decisions)
  /\ pc' = "done"
  /\ UNCHANGED <<decisions, table, handed, requests, attempt, faults>>

Next == Hand \/ Send \/ CallFails \/ Rerun \/ Done

Spec == Init /\ [][Next]_vars /\ WF_vars(Next)

-----------------------------------------------------------------------------
\* Properties.

TypeOK ==
  /\ decisions \in Walks
  /\ table \in [Key -> 0..Len(decisions)]
  /\ handed \in 0..Len(decisions)
  /\ requests \subseteq 1..handed
  /\ attempt \in 0..MaxAttempts
  /\ faults \in 0..MaxFaults
  /\ pc \in {"walk", "send", "raised", "done"}

\* "A batch must not contain the same primary key twice"
\* (dynamodb_client.py:42-43): DynamoDB rejects such a request as a whole.
BatchHasDistinctKeys ==
  \A m, n \in requests : decisions[m] = decisions[n] => m = n

\* "The same result sequential put_item calls give" (dynamodb_client.py:44):
\* whenever put_decisions has returned, the table has, for every decision
\* handed over so far, the last one of its key - whatever was accepted in
\* parts, and although an earlier walk may have written later decisions.
TableIsSequential ==
  pc \in {"walk", "done"} =>
    \A n \in LastWrites(1, handed) : table[decisions[n]] = n

\* "re-sent with exponential backoff until the batch is fully durable or
\* UNPROCESSED_MAX_ATTEMPTS is exhausted" (dynamodb_client.py:40-42), and then
\* walked again: once DynamoDB stops to throttle and to fail, a walk gets to
\* its end, wherever the calls before left the batch.
WritesComplete == <>(pc = "done")
=============================================================================
