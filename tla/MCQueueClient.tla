--------------------------- MODULE MCQueueClient ---------------------------
(***************************************************************************)
(* The plans that TLC explores, all in one run: each has what makes one    *)
(* kind of trouble for the client, and no more of the rest than it takes.  *)
(***************************************************************************)
EXTENDS QueueClient

CONSTANTS w1, w2, m1, m2, b1, b2

\* The workers share the URL of a queue that is deleted and made again, twice.
Pollers == [workers |-> {w1, w2}, files |-> {}, beats |-> {},
            stable |-> FALSE, queues |-> 3, faults |-> 1]

\* They share a message, of a queue that is made again under the same URL, ...
Redelivery == [workers |-> {w1, w2}, files |-> {m1}, beats |-> {b1},
               stable |-> TRUE, queues |-> 2, faults |-> 0]

\* ... or with a failing call, and beats that outlive their handling, ...
LateBeats == [workers |-> {w1, w2}, files |-> {m1}, beats |-> {b1, b2},
              stable |-> FALSE, queues |-> 1, faults |-> 1]

\* ... or take batches of two, in which messages wait without a beat.
Batches == [workers |-> {w1, w2}, files |-> {m1, m2}, beats |-> {b1},
            stable |-> FALSE, queues |-> 1, faults |-> 0]

\* One worker has all of it, be it with beats that may outlive their handling
\* or with batches: failing calls, and a queue made again under another URL.
OneWorker == [workers |-> {w1}, files |-> {m1}, beats |-> {b1, b2},
              stable |-> FALSE, queues |-> 2, faults |-> 2]

OwnBatches == [workers |-> {w1}, files |-> {m1, m2}, beats |-> {b1},
               stable |-> FALSE, queues |-> 2, faults |-> 1]

MCPlans == {Pollers, Redelivery, LateBeats, Batches, OneWorker, OwnBatches}
=============================================================================
