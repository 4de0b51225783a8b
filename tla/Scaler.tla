------------------------------- MODULE Scaler -------------------------------
(***************************************************************************)
(* The worker pool of autoscaler_service/engine/scaler.py: workers receive *)
(* notifications from SQS, remember the announced log files per cluster,   *)
(* and the worker that completes a cluster's file set walks the files and  *)
(* writes the decisions to DynamoDB, outside the lock.                     *)
(*                                                                         *)
(* One action per critical section or per call of an AWS service.  The     *)
(* data is abstract: a decision is named by the cluster, the set of files  *)
(* the walk was given and its rank in the walk.  The walk is deterministic *)
(* (module DecisionStream), so two walks of one file set produce the same  *)
(* items, and a walk of a smaller file set produces others.                *)
(***************************************************************************)
EXTENDS Naturals, FiniteSets

CONSTANTS
  Worker,        \* the threads of the pool
  Cluster,       \* the cluster_ids of the manifest
  Key,           \* S3 object keys
  Message,       \* SQS messages, a duplicated notification being two of them
  NoMessage,     \* what a worker that handles no message holds
  KeyOf,         \* the "key" of a message's body
  ClusterOf,     \* the "cluster_id" of a message's body
  Malformed,     \* the messages whose body is not a notification
  Uploaded,      \* the keys that exist in the bucket at the start
  NumLogFiles,   \* num_log_files of a cluster in the manifest
  NumDecisions,  \* how many decisions the walk of a cluster yields
  BatchSize,     \* DYNAMODB_BATCH_SIZE
  MaxMessages,   \* SQS_MAX_MESSAGES
  Limits         \* combinations of mishaps: how many of each kind at most

\* fault: a failed call of an AWS service.  early: a message whose visibility
\* runs out while a worker still holds it.  restart: the process dies or is
\* stopped, and is started again.  lost: an object deleted from the bucket.
Mishap == {"fault", "early", "restart", "lost"}

\* A message whose handling reaches the critical section, its object existing.
Valid(m) == /\ m \in Message \ Malformed
            /\ ClusterOf[m] \in Cluster
            /\ KeyOf[m] \in Uploaded

MessagesOf(c) == {m \in Message : Valid(m) /\ ClusterOf[m] = c}

\* The log files of c: those that exist and are announced on the queue.
LogFiles(c) == {KeyOf[m] : m \in MessagesOf(c)}

ASSUME MessagesAssumption ==
  /\ NoMessage \notin Message
  /\ Malformed \subseteq Message
  /\ Uploaded \subseteq Key
  /\ KeyOf \in [Message -> Key]
  /\ DOMAIN ClusterOf = Message

ASSUME SizesAssumption ==
  /\ BatchSize \in Nat \ {0}
  /\ MaxMessages \in Nat \ {0}
  /\ NumDecisions \in [Cluster -> Nat]
  /\ Limits \subseteq [Mishap -> Nat]

\* clusters.json tells the true number of files, at least one per cluster
\* (validate_manifest), and every file of a cluster is announced.
ASSUME ManifestAssumption ==
  /\ NumLogFiles \in [Cluster -> Nat \ {0}]
  /\ IsFiniteSet(Message)
  /\ \A c \in Cluster : Cardinality(LogFiles(c)) = NumLogFiles[c]

-----------------------------------------------------------------------------
VARIABLES
  queue,       \* message -> visible, in flight or deleted
  batch,       \* worker -> the received messages it has not looked at yet
  job,         \* worker -> the message it is handling
  pc,          \* worker -> where it is in the loop
  files,       \* cluster -> ClusterBuffer.files, its keys
  evaluating,  \* cluster -> ClusterBuffer.evaluating
  evaluated,   \* cluster -> ClusterBuffer.evaluated
  snapshot,    \* worker -> the copy of files its walk was given
  unread,      \* worker -> the files its walk has not read yet
  written,     \* worker -> how many decisions its walk has persisted
  stored,      \* the objects in the bucket
  table,       \* the items of the DynamoDB table
  announced,   \* the _all_processed event, set with the announcement
  stop,        \* the _stop event
  used         \* mishaps so far, by kind

memory  == <<files, evaluating, evaluated, announced>>
walk    == <<snapshot, unread, written>>
outside == <<stored, table>>
vars    == <<queue, batch, job, pc, memory, walk, outside, stop, used>>

Item(c, S, n)  == [cluster |-> c, files |-> S, rank |-> n]
Decisions(c, S) == {Item(c, S, n) : n \in 1..NumDecisions[c]}
Genuine(c)     == Decisions(c, LogFiles(c))

Holds(w, m) == m \in batch[w] \/ job[w] = m

\* The mishaps of a behaviour stay within one of the combinations.
Spend(kind) == /\ used' = [used EXCEPT ![kind] = @ + 1]
               /\ \E limit \in Limits : \A k \in Mishap : used'[k] <= limit[k]

MemoryInit ==
  /\ batch = [w \in Worker |-> {}]
  /\ job = [w \in Worker |-> NoMessage]
  /\ pc = [w \in Worker |-> "poll"]
  /\ files = [c \in Cluster |-> {}]
  /\ evaluating = [c \in Cluster |-> FALSE]
  /\ evaluated = [c \in Cluster |-> FALSE]
  /\ snapshot = [w \in Worker |-> {}]
  /\ unread = [w \in Worker |-> {}]
  /\ written = [w \in Worker |-> 0]
  /\ announced = FALSE
  /\ stop = FALSE

Init ==
  /\ queue = [m \in Message |-> "visible"]
  /\ MemoryInit
  /\ stored = Uploaded
  /\ table = {}
  /\ used = [kind \in Mishap |-> 0]

-----------------------------------------------------------------------------
\* _worker_loop.

\* Deviation: at-most-once delivery, the message deleted as it is received.
ReceiveAndDelete(w) ==
  /\ pc[w] = "poll"
  /\ ~stop
  /\ \E m \in Message :
       /\ queue[m] = "visible"
       /\ queue' = [queue EXCEPT ![m] = "deleted"]
       /\ batch' = [batch EXCEPT ![w] = {m}]
  /\ pc' = [pc EXCEPT ![w] = "next"]
  /\ UNCHANGED <<job, memory, walk, outside, stop, used>>

Receive(w) ==
  /\ pc[w] = "poll"
  /\ ~stop
  /\ \E S \in SUBSET {m \in Message : queue[m] = "visible"} :
       /\ Cardinality(S) \in 1..MaxMessages
       /\ queue' = [m \in Message |-> IF m \in S THEN "inflight" ELSE queue[m]]
       /\ batch' = [batch EXCEPT ![w] = S]
  /\ pc' = [pc EXCEPT ![w] = "next"]
  /\ UNCHANGED <<job, memory, walk, outside, stop, used>>

\* The receive times out empty, or fails and is repeated after a pause.
PollAgain(w) ==
  /\ pc[w] = "poll"
  /\ ~stop
  /\ UNCHANGED vars

Exit(w) ==
  /\ pc[w] = "poll"
  /\ stop
  /\ pc' = [pc EXCEPT ![w] = "exited"]
  /\ UNCHANGED <<queue, batch, job, memory, walk, outside, stop, used>>

\* The batch is finished, or dropped because the scaler is stopping.
BatchDone(w) ==
  /\ pc[w] = "next"
  /\ batch[w] = {} \/ stop
  /\ batch' = [batch EXCEPT ![w] = {}]
  /\ pc' = [pc EXCEPT ![w] = "poll"]
  /\ UNCHANGED <<queue, job, memory, walk, outside, stop, used>>

-----------------------------------------------------------------------------
\* handle_message up to the critical section: the body is parsed, the buffer
\* looked up, the object checked with a HEAD request.

CanNeverSucceed(m) == \/ m \in Malformed
                      \/ ClusterOf[m] \notin Cluster
                      \/ KeyOf[m] \notin stored

\* Deviation: a message that can never succeed is skipped, not acked.
SkipPoison(w) ==
  /\ pc[w] = "next"
  /\ ~stop
  /\ \E m \in batch[w] :
       /\ batch' = [batch EXCEPT ![w] = @ \ {m}]
       /\ job' = [job EXCEPT ![w] = IF CanNeverSucceed(m) THEN NoMessage ELSE m]
       /\ pc' = [pc EXCEPT ![w] = IF CanNeverSucceed(m) THEN "next" ELSE "register"]
  /\ UNCHANGED <<queue, memory, walk, outside, stop, used>>

TakeMessage(w) ==
  /\ pc[w] = "next"
  /\ ~stop
  /\ \E m \in batch[w] :
       /\ batch' = [batch EXCEPT ![w] = @ \ {m}]
       /\ job' = [job EXCEPT ![w] = m]
       /\ pc' = [pc EXCEPT ![w] = IF CanNeverSucceed(m) THEN "ack" ELSE "register"]
  /\ UNCHANGED <<queue, memory, walk, outside, stop, used>>

\* Deviation: a failed HEAD request is treated like a missing object.
HeadFailureAcks(w) ==
  /\ pc[w] = "next"
  /\ ~stop
  /\ \E m \in batch[w] \ Malformed :
       /\ ClusterOf[m] \in Cluster
       /\ batch' = [batch EXCEPT ![w] = @ \ {m}]
       /\ job' = [job EXCEPT ![w] = m]
  /\ pc' = [pc EXCEPT ![w] = "ack"]
  /\ Spend("fault")
  /\ UNCHANGED <<queue, memory, walk, outside, stop>>

\* The HEAD request fails: the message is left in the queue.
HeadFails(w) ==
  /\ pc[w] = "next"
  /\ ~stop
  /\ \E m \in batch[w] \ Malformed :
       /\ ClusterOf[m] \in Cluster
       /\ batch' = [batch EXCEPT ![w] = @ \ {m}]
  /\ Spend("fault")
  /\ UNCHANGED <<queue, job, pc, memory, walk, outside, stop>>

-----------------------------------------------------------------------------
\* The critical section of process_notification.

\* Deviation: only evaluated clusters turn a late file away.
AlreadyEvaluated(c) == evaluated[c]

AlreadyTaken(c) == evaluated[c] \/ evaluating[c]

\* Deviation: one file short counts as complete.
IsAlmostComplete(c, S) == Cardinality(S) + 1 >= NumLogFiles[c]

IsComplete(c, S) == Cardinality(S) >= NumLogFiles[c]

IgnoreLate(w, c) ==
  /\ AlreadyTaken(c)
  /\ pc' = [pc EXCEPT ![w] = "ack"]
  /\ UNCHANGED <<memory, walk>>

\* add_file, the cluster's set still being incomplete.
Remember(w, c, S) ==
  /\ ~AlreadyTaken(c)
  /\ ~IsComplete(c, S)
  /\ files' = [files EXCEPT ![c] = S]
  /\ pc' = [pc EXCEPT ![w] = "ack"]
  /\ UNCHANGED <<evaluating, evaluated, announced, walk>>

\* add_file completes the set: this worker owns the cluster from here on.
Claim(w, c, S) ==
  /\ ~AlreadyTaken(c)
  /\ IsComplete(c, S)
  /\ files' = [files EXCEPT ![c] = S]
  /\ evaluating' = [evaluating EXCEPT ![c] = TRUE]
  /\ snapshot' = [snapshot EXCEPT ![w] = S]
  /\ unread' = [unread EXCEPT ![w] = S]
  /\ pc' = [pc EXCEPT ![w] = "walk"]
  /\ UNCHANGED <<evaluated, announced, written>>

Register(w) ==
  /\ pc[w] = "register"
  /\ LET c == ClusterOf[job[w]]
         S == files[c] \cup {KeyOf[job[w]]}
     IN  IgnoreLate(w, c) \/ Remember(w, c, S) \/ Claim(w, c, S)
  /\ UNCHANGED <<queue, batch, job, outside, stop, used>>

-----------------------------------------------------------------------------
\* _evaluate_and_persist, outside the lock.

\* The ranks of the decisions the next put_decisions call is given: a full
\* batch, or after the last file what remains.
NextRanks(w) ==
  LET D == NumDecisions[ClusterOf[job[w]]]
  IN  {n \in 1..D : n > written[w] /\ n <= written[w] + BatchSize}

MayWrite(w) == Cardinality(NextRanks(w)) = BatchSize \/ unread[w] = {}

ReadFile(w) ==
  /\ pc[w] = "walk"
  /\ \E k \in unread[w] \cap stored : unread' = [unread EXCEPT ![w] = @ \ {k}]
  /\ UNCHANGED <<queue, batch, job, pc, memory, snapshot, written, outside, stop, used>>

WriteBatch(w) ==
  /\ pc[w] = "walk"
  /\ NextRanks(w) # {}
  /\ MayWrite(w)
  /\ table' = table \cup {Item(ClusterOf[job[w]], snapshot[w], n) : n \in NextRanks(w)}
  /\ written' = [written EXCEPT ![w] = @ + Cardinality(NextRanks(w))]
  /\ UNCHANGED <<queue, batch, job, pc, memory, snapshot, unread, stored, stop, used>>

\* What the walk's locals are once it has ended, either way.
ForgetWalk(w) ==
  /\ snapshot' = [snapshot EXCEPT ![w] = {}]
  /\ unread' = [unread EXCEPT ![w] = {}]
  /\ written' = [written EXCEPT ![w] = 0]

\* Deviation: the flag is not reset.
GiveUpStillFlagged(w) == ForgetWalk(w) /\ UNCHANGED memory

\* Deviation: the cluster is marked evaluated although its walk failed.
GiveUpAsEvaluated(w) ==
  /\ evaluating' = [evaluating EXCEPT ![ClusterOf[job[w]]] = FALSE]
  /\ evaluated' = [evaluated EXCEPT ![ClusterOf[job[w]]] = TRUE]
  /\ ForgetWalk(w)
  /\ UNCHANGED <<files, announced>>

\* The except clause: the cluster is given up.
GiveUp(w) ==
  /\ evaluating' = [evaluating EXCEPT ![ClusterOf[job[w]]] = FALSE]
  /\ ForgetWalk(w)
  /\ UNCHANGED <<files, evaluated, announced>>

\* Deviation: the failure is swallowed, and the message acked.
WalkFailureAcks(w) ==
  /\ pc[w] = "walk"
  /\ GiveUp(w)
  /\ pc' = [pc EXCEPT ![w] = "ack"]
  /\ Spend("fault")
  /\ UNCHANGED <<queue, batch, job, outside, stop>>

\* A download or a write fails, some items of the batch possibly written; the
\* exception propagates and handle_message leaves the message in the queue.
WalkFails(w) ==
  /\ pc[w] = "walk"
  /\ \E ranks \in SUBSET (IF MayWrite(w) THEN NextRanks(w) ELSE {}) :
       table' = table \cup {Item(ClusterOf[job[w]], snapshot[w], n) : n \in ranks}
  /\ GiveUp(w)
  /\ job' = [job EXCEPT ![w] = NoMessage]
  /\ pc' = [pc EXCEPT ![w] = "next"]
  /\ Spend("fault")
  /\ UNCHANGED <<queue, batch, stored, stop>>

\* Deviation: the message of a walk that misses a file is left in the queue.
MissingFileIsRetried(w) ==
  /\ pc[w] = "walk"
  /\ unread[w] \ stored # {}
  /\ GiveUp(w)
  /\ job' = [job EXCEPT ![w] = NoMessage]
  /\ pc' = [pc EXCEPT ![w] = "next"]
  /\ UNCHANGED <<queue, batch, outside, stop, used>>

\* A file of the snapshot is gone: S3ObjectNotFound propagates, and
\* handle_message acks the message.
WalkMissesFile(w) ==
  /\ pc[w] = "walk"
  /\ unread[w] \ stored # {}
  /\ GiveUp(w)
  /\ pc' = [pc EXCEPT ![w] = "ack"]
  /\ UNCHANGED <<queue, batch, job, outside, stop, used>>

\* Deviation: the last, partial batch is not written.
FullBatchesWritten(w) == unread[w] = {} /\ Cardinality(NextRanks(w)) < BatchSize

AllWritten(w) == unread[w] = {} /\ NextRanks(w) = {}

\* Deviation: any evaluated cluster counts as all of them.
AnyDone(done) == \E c \in Cluster : done[c]

AllDone(done) == \A c \in Cluster : done[c]

\* The second critical section: the owner releases the cluster as evaluated
\* and looks, in the same section, whether it was the last one.
Commit(w) ==
  /\ pc[w] = "walk"
  /\ AllWritten(w)
  /\ evaluated' = [evaluated EXCEPT ![ClusterOf[job[w]]] = TRUE]
  /\ evaluating' = [evaluating EXCEPT ![ClusterOf[job[w]]] = FALSE]
  /\ pc' = [pc EXCEPT ![w] = IF AllDone(evaluated') THEN "announce" ELSE "ack"]
  /\ ForgetWalk(w)
  /\ UNCHANGED <<queue, batch, job, files, announced, outside, stop, used>>

Announce(w) ==
  /\ pc[w] = "announce"
  /\ announced' = TRUE
  /\ pc' = [pc EXCEPT ![w] = "ack"]
  /\ UNCHANGED <<queue, batch, job, files, evaluating, evaluated, walk, outside, stop, used>>

-----------------------------------------------------------------------------
\* _ack, and its failure, after which the message comes back.

\* Deviation: the worker still holds the message it is finished with.
FinishedHolding(w) ==
  /\ pc[w] = "ack"
  /\ pc' = [pc EXCEPT ![w] = "next"]
  /\ UNCHANGED <<batch, job, memory, walk, outside, stop>>

Finished(w) ==
  /\ pc[w] = "ack"
  /\ job' = [job EXCEPT ![w] = NoMessage]
  /\ pc' = [pc EXCEPT ![w] = "next"]
  /\ UNCHANGED <<batch, memory, walk, outside, stop>>

Ack(w) ==
  /\ Finished(w)
  /\ queue' = [queue EXCEPT ![job[w]] = "deleted"]
  /\ UNCHANGED used

AckFails(w) ==
  /\ Finished(w)
  /\ Spend("fault")
  /\ UNCHANGED queue

-----------------------------------------------------------------------------
\* The services and the operator.

Reappear(m) ==
  /\ queue[m] = "inflight"
  /\ queue' = [queue EXCEPT ![m] = "visible"]
  /\ UNCHANGED <<batch, job, pc, memory, walk, outside, stop>>

\* The visibility of a message nobody holds runs out.
Redeliver(m) ==
  /\ \A w \in Worker : ~Holds(w, m)
  /\ Reappear(m)
  /\ UNCHANGED used

\* The visibility of a held message runs out: its extensions failed, or it
\* waits in a batch, where no heartbeat extends it.
RedeliverEarly(m) ==
  /\ \E w \in Worker : Holds(w, m)
  /\ Reappear(m)
  /\ Spend("early")

LoseObject(k) ==
  /\ k \in stored
  /\ stored' = stored \ {k}
  /\ Spend("lost")
  /\ UNCHANGED <<queue, batch, job, pc, memory, walk, table, stop>>

\* Scaler.stop: the restart has begun.
Stop ==
  /\ ~stop
  /\ stop' = TRUE
  /\ Spend("restart")
  /\ UNCHANGED <<queue, batch, job, pc, memory, walk, outside>>

\* The process dies, or ends after Stop, and a new one starts: what it held
\* in memory is gone, the queue, the bucket and the table are not.
Restart ==
  /\ IF stop THEN UNCHANGED used ELSE Spend("restart")
  /\ batch' = [w \in Worker |-> {}]
  /\ job' = [w \in Worker |-> NoMessage]
  /\ pc' = [w \in Worker |-> "poll"]
  /\ files' = [c \in Cluster |-> {}]
  /\ evaluating' = [c \in Cluster |-> FALSE]
  /\ evaluated' = [c \in Cluster |-> FALSE]
  /\ snapshot' = [w \in Worker |-> {}]
  /\ unread' = [w \in Worker |-> {}]
  /\ written' = [w \in Worker |-> 0]
  /\ announced' = FALSE
  /\ stop' = FALSE
  /\ UNCHANGED <<queue, outside>>

-----------------------------------------------------------------------------
Step(w) == \/ Receive(w) \/ PollAgain(w) \/ Exit(w) \/ BatchDone(w)
           \/ TakeMessage(w) \/ Register(w) \/ ReadFile(w) \/ WriteBatch(w)
           \/ WalkMissesFile(w) \/ Commit(w) \/ Announce(w) \/ Ack(w)

Fault(w) == HeadFails(w) \/ WalkFails(w) \/ AckFails(w)

Next == \/ \E w \in Worker : Step(w) \/ Fault(w)
        \/ \E m \in Message : Redeliver(m) \/ RedeliverEarly(m)
        \/ \E k \in Key : LoseObject(k)
        \/ Stop
        \/ Restart

Spec == Init /\ [][Next]_vars

\* Every thread keeps running, SQS makes a message visible again when its
\* timeout passes, and a stopped scaler is started again.  Nothing forces a
\* mishap.
Fairness == /\ \A w \in Worker : WF_vars(Step(w))
            /\ \A m \in Message : WF_vars(Redeliver(m))
            /\ WF_vars(stop /\ Restart)

FairSpec == Spec /\ Fairness
-----------------------------------------------------------------------------
\* Properties.

Place == {"poll", "next", "register", "walk", "announce", "ack", "exited"}

AllItems == UNION {Decisions(c, S) : c \in Cluster, S \in SUBSET Key}

\* Every variable has its type, and a worker handles a message exactly while
\* it is somewhere between taking it and being finished with it.
TypeOK ==
  /\ queue \in [Message -> {"visible", "inflight", "deleted"}]
  /\ batch \in [Worker -> SUBSET Message]
  /\ job \in [Worker -> Message \cup {NoMessage}]
  /\ pc \in [Worker -> Place]
  /\ files \in [Cluster -> SUBSET Key]
  /\ evaluating \in [Cluster -> BOOLEAN]
  /\ evaluated \in [Cluster -> BOOLEAN]
  /\ snapshot \in [Worker -> SUBSET Key]
  /\ unread \in [Worker -> SUBSET Key]
  /\ written \in [Worker -> Nat]
  /\ stored \subseteq Uploaded
  /\ table \subseteq AllItems
  /\ announced \in BOOLEAN
  /\ stop \in BOOLEAN
  /\ used \in [Mishap -> Nat]
  /\ \A w \in Worker : job[w] = NoMessage <=> pc[w] \in {"poll", "next", "exited"}

Walkers(c) == {w \in Worker : pc[w] = "walk" /\ ClusterOf[job[w]] = c}

\* "A cluster in the evaluating state is owned by exactly one worker"
\* (scaler.py:28-29): the flag is up exactly while some worker walks the
\* cluster, no two workers walk one cluster, and an evaluated one is not
\* walked again.  Violated by a lost reset as much as by a double claim.
SingleOwner ==
  \A c \in Cluster :
    /\ evaluating[c] <=> Walkers(c) # {}
    /\ \A v, w \in Walkers(c) : v = w
    /\ evaluated[c] => ~evaluating[c]

\* Section 6.1 defines the record set as all of a cluster's files
\* (scaler.py:5-8): whatever was interleaved, retried, or cut short by a
\* crash, no decision of a walk over fewer files ever reaches the table.
OnlyGenuineItems == table \subseteq UNION {Genuine(c) : c \in Cluster}

\* "The buffer is flipped to evaluated only after the last write succeeds"
\* (scaler.py:352): every decision of an evaluated cluster is in the table.
EvaluatedIsDurable ==
  \A c \in Cluster : evaluated[c] => Genuine(c) \subseteq table

\* The announcement is made only once the decisions of every cluster of the
\* manifest are in the table (scaler.py:382-389).
AnnouncedIsDurable ==
  announced => \A c \in Cluster : Genuine(c) \subseteq table

\* The delivery of m is over or about to be, so nothing will handle it again
\* unless deleting it fails.
Settled(m) == \/ queue[m] = "deleted"
              \/ \E w \in Worker : job[w] = m /\ pc[w] \in {"announce", "ack"}

\* "A message is deleted (acked) once its key has been recorded"
\* (scaler.py:17): within one run of the process and while no object is
\* deleted, a message of a cluster is given up only after its key is known,
\* also when it was handled by the branch that ignores late files.
AckedIsRecorded ==
  used["restart"] + used["lost"] = 0 =>
    \A c \in Cluster : \A m \in MessagesOf(c) : Settled(m) => KeyOf[m] \in files[c]

\* "... or, for the message that completes a cluster, after every decision has
\* been written" (scaler.py:17-18): while a cluster is not evaluated some
\* message of it is still to be handled, or held by the worker that walks it,
\* so a walk that fails is repeated.  Holds while SQS redelivers no message
\* that a worker still holds.
UnfinishedHasMessage ==
  used["restart"] + used["lost"] + used["early"] = 0 =>
    \A c \in Cluster : ~evaluated[c] => \E m \in MessagesOf(c) : ~Settled(m)

\* "If the owner fails the state is reset so the redelivered message re-runs
\* the evaluation" (scaler.py:30-31), for any redelivery: a cluster that is
\* neither evaluated nor owned has a message that will be handled.  Without
\* one it stays as it is for good, and the run is never announced.
NoClusterStranded ==
  used["restart"] + used["lost"] = 0 =>
    \A c \in Cluster : ~AlreadyTaken(c) => \E m \in MessagesOf(c) : ~Settled(m)

\* "On failure evaluating is reset and the exception propagates, so the
\* message stays in the queue" (scaler.py:352-354): no worker leaves a walk
\* towards the ack without having evaluated the cluster.
FailedWalkKeepsMessage ==
  [][\A w \in Worker :
       pc[w] = "walk" /\ pc'[w] = "ack" => evaluated'[ClusterOf[job[w]]]]_vars

\* However the calls fail, finitely often, the run comes to its end, if the
\* process lives and no object is deleted: every cluster is evaluated and
\* announced.
EventuallyAnnounced == <>(announced \/ used["restart"] + used["lost"] > 0)

\* Every message is eventually deleted for good: no poison message, and no
\* duplicate, is redelivered forever.
QueueDrains == <>[](\A m \in Message : queue[m] = "deleted")

\* "Crash between last write and ack: same replay path" (DESIGN.md:48): when
\* a process starts over while the table has all decisions of a cluster and
\* the message that completed it is still queued, the cluster is evaluated.
CrashIsReplayed ==
  \A c \in Cluster :
    (/\ used["restart"] > 0
     /\ ~stop
     /\ Genuine(c) \subseteq table
     /\ \E m \in MessagesOf(c) : queue[m] # "deleted") ~> (evaluated[c] \/ stop)

\* A lost object costs only its own cluster: every cluster whose files are
\* all still there is evaluated in the end, if the process lives.
LossIsContained ==
  \A c \in Cluster :
    <>(evaluated[c] \/ ~(LogFiles(c) \subseteq stored) \/ used["restart"] > 0)

\* What survives of "same replay path": a cluster of one file that is not
\* deleted is in the table in the end, whenever the process dies or is stopped.
SingleFileSurvivesCrash ==
  \A c \in Cluster :
    NumLogFiles[c] = 1 => <>(Genuine(c) \subseteq table \/ ~(LogFiles(c) \subseteq stored))

-----------------------------------------------------------------------------
\* What the pool promises to the reader of the table and of the announcement
\* (module Publication), whatever is retried, duplicated or cut short.
Promise == INSTANCE Publication WITH
             Output <- [c \in Cluster |-> Genuine(c)],
             finished <- {c \in Cluster : evaluated[c]}

\* Every step of the pool is a step of Publication or changes nothing of it.
ImplementsPublication == Promise!Spec
=============================================================================
