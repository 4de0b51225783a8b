-------------------------------- MODULE Seed --------------------------------
(***************************************************************************)
(* seed.py, the operator's script that provisions what the service works   *)
(* on: it makes the bucket (--reset empties it), recreates the queue, keeps*)
(* or (--reset) recreates the table, uploads the configuration and the log *)
(* files, and puts one message per file on the queue.  Any call may fail   *)
(* and end the script between two steps; the operator runs it again.       *)
(***************************************************************************)
EXTENDS Naturals

CONSTANTS
  File,      \* the log files of the data directory
  Draft,     \* object -> what the operator's file of it may hold
  MaxTries,  \* how often create_queue is tried
  MaxRuns    \* how often the operator runs the script

VARIABLES
  bucket,     \* the configuration objects: object -> its content
  logs,       \* the log files in the bucket
  queue,      \* "absent", "deleting" or "present"
  announced,  \* file -> its messages on the queue
  table,      \* the table exists
  step,       \* where the script is
  reset,      \* it was given --reset
  keys,       \* the files this run has uploaded
  tries,      \* its attempts at create_queue
  runs        \* how often it was started

script    == <<step, reset, keys, tries, runs>>
resources == <<bucket, logs, queue, announced, table>>
seedVars  == <<resources, script>>

Nowhere == [f \in File |-> 0]

Init ==
  /\ bucket = [o \in {"rules", "manifest"} |-> "missing"] /\ logs = {}
  /\ queue = "absent" /\ announced = Nowhere
  /\ table = FALSE
  /\ step = "over" /\ reset = FALSE /\ keys = {} /\ tries = 0 /\ runs = 0

StepTo(from, to) == step = from /\ step' = to

Exit == step' = "over" /\ reset' = FALSE /\ keys' = {} /\ tries' = 0

-----------------------------------------------------------------------------
\* The script's command line; create_bucket accepts a bucket that exists.
Start ==
  /\ runs < MaxRuns
  /\ runs' = runs + 1
  /\ reset' \in BOOLEAN
  /\ StepTo("over", IF reset' THEN "wipe" ELSE "findQueue")
  /\ UNCHANGED <<resources, keys, tries>>

\* The objects are listed by key and deleted a page at a time: the two
\* configuration objects are on the first page.
WipePage ==
  /\ \E page \in SUBSET logs :
       /\ logs' = logs \ page
       /\ StepTo("wipe", IF page = logs THEN "findQueue" ELSE "wipe")
  /\ bucket' = [o \in DOMAIN bucket |-> "missing"]
  /\ UNCHANGED <<queue, announced, table, reset, keys, tries, runs>>

\* Deviation: a queue that exists is kept.
KeepQueue ==
  /\ StepTo("findQueue", IF queue = "present" THEN "table" ELSE "createQueue")
  /\ UNCHANGED <<resources, reset, keys, tries, runs>>

\* A queue that exists is deleted, with its messages.
DeleteQueue ==
  /\ StepTo("findQueue", "createQueue")
  /\ IF queue = "present" THEN queue' = "deleting" /\ announced' = Nowhere
                          ELSE UNCHANGED <<queue, announced>>
  /\ UNCHANGED <<bucket, logs, table, reset, keys, tries, runs>>

CreateQueue ==
  /\ StepTo("createQueue", "table")
  /\ queue = "absent"
  /\ queue' = "present"
  /\ tries' = 0
  /\ UNCHANGED <<bucket, logs, announced, table, reset, keys, runs>>

\* QueueDeletedRecently, which the last attempt raises.
CreateRefused ==
  /\ step = "createQueue"
  /\ queue = "deleting"
  /\ IF tries + 1 < MaxTries THEN tries' = tries + 1 /\ UNCHANGED <<step, reset, keys>>
                             ELSE Exit
  /\ UNCHANGED <<resources, runs>>

\* A table that exists is kept, or deleted to be made again.
EnsureTable ==
  /\ StepTo("table", IF table /\ ~reset THEN "manifest" ELSE "createTable")
  /\ table' = (table /\ ~reset)
  /\ UNCHANGED <<bucket, logs, queue, announced, reset, keys, tries, runs>>

CreateTable ==
  /\ StepTo("createTable", "manifest")
  /\ table' = TRUE
  /\ UNCHANGED <<bucket, logs, queue, announced, reset, keys, tries, runs>>

\* Whatever the operator's file holds.
UploadConfig(o, next) ==
  /\ StepTo(o, next)
  /\ \E content \in Draft[o] : bucket' = [bucket EXCEPT ![o] = content]
  /\ UNCHANGED <<logs, queue, announced, table, reset, keys, tries, runs>>

UploadLog(f) ==
  /\ step = "logs"
  /\ f \notin keys
  /\ keys' = keys \cup {f}
  /\ logs' = logs \cup {f}
  /\ step' = IF keys' = File THEN "enqueue" ELSE "logs"
  /\ UNCHANGED <<bucket, queue, announced, table, reset, tries, runs>>

Enqueue(f) ==
  /\ step = "enqueue"
  /\ f \in keys
  /\ announced' = [announced EXCEPT ![f] = @ + 1]
  /\ IF keys = {f} THEN Exit ELSE keys' = keys \ {f} /\ UNCHANGED <<step, reset, tries>>
  /\ UNCHANGED <<bucket, logs, queue, table, runs>>

\* A call fails, a file of the data directory is missing, or the operator
\* gives up.
Abort ==
  /\ step # "over"
  /\ Exit
  /\ UNCHANGED <<resources, runs>>

\* The service has forgotten the deleted queue, and its name is free again.
QueueGone ==
  /\ queue = "deleting"
  /\ queue' = "absent"
  /\ UNCHANGED <<bucket, logs, announced, table, script>>

Next == \/ Start \/ Abort \/ QueueGone
        \/ WipePage \/ DeleteQueue \/ CreateQueue \/ CreateRefused
        \/ EnsureTable \/ CreateTable
        \/ UploadConfig("manifest", "rules") \/ UploadConfig("rules", "logs")
        \/ \E f \in File : UploadLog(f) \/ Enqueue(f)

-----------------------------------------------------------------------------
Emptied == \A o \in DOMAIN bucket : bucket[o] = "missing"
Loaded  == \A o \in DOMAIN bucket : bucket[o] # "missing"

\* What a worker is told to read is there to be read, and what it decides can
\* be recorded: no file is on the queue twice (seed.py:56, "exactly one fresh
\* message per file"), and when one is, the table is there, and the file and
\* the configuration too, unless a --reset has just emptied the bucket, which
\* it does before it deletes the queue (seed.py:139-143).  However often the
\* script fails half-way and is run again, with --reset or without.
AnnouncedIsInPlace ==
  \A f \in File : announced[f] > 0 =>
    /\ announced[f] = 1
    /\ table
    /\ Emptied \/ (Loaded /\ f \in logs)
=============================================================================
