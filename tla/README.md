# Verification of the Streaming Job Autoscaler

This directory holds TLA+ specifications of the autoscaler in `src/autoscaler_service`, TLC
configurations that model-check them on small instances, and TLAPS proofs of their main results for
every instance. It is written for a reader who has the repository next to it; `PROJECT.json` lists,
per definition, the source lines it stands for.

1. [The system](#1-the-system)
2. [Modules](#2-modules)
3. [What is abstracted](#3-what-is-abstracted)
4. [Runs](#4-runs)
5. [Fairness](#5-fairness)
6. [Proofs](#6-proofs)
7. [Where code and documentation disagree](#7-where-code-and-documentation-disagree)
8. [What is not modelled, and the plan](#8-what-is-not-modelled-and-the-plan)

## 1. The system

A batch of Spark clusters has run; each left hourly log files in S3 and a notification per file in
SQS. The service reads the notifications, and once it knows all files of a cluster it walks their
records in time order, decides at each record whether a scaling rule fires, and writes the decisions
to DynamoDB. When every cluster of the manifest has been evaluated it prints one line.

| Component | State | Operations |
| --- | --- | --- |
| Worker pool, `engine/scaler.py` | per cluster: `files`, `evaluating`, `evaluated`; per thread: its batch, its message, its walk; `_all_processed`, `_stop` | receive, `handle_message`, the two critical sections, the walk, the announcement, the ack, stop |
| Decision engine, `engine/decision_engine.py` | `pending`, `evaluated`, `seen`, `ClusterState` | `evaluate_stream`, `flush`, rule conditions, gates |
| DynamoDB client | the table | `put_decisions`: de-duplication, batches, `UnprocessedItems` |
| SQS client | the queue; the cached queue URL | receive, delete, extend visibility |
| S3 client | the bucket | HEAD, GET, whole bodies |
| Service, `main.py` | `AppState`: rules, manifest, scaler, error, stop event | the bootstrap thread, lifespan (shutdown), `/health`, `/rules`, `/clusters` |
| Visibility heartbeat | one timer thread per handled message, which may outlive it | extend the visibility of a held message |
| File order, `order_log_keys` | none | order by hour, or by first record |
| Log parser, `spark_log_parser.py` | none | lines into entries, entries into records or nothing |
| Rule and manifest validation | none | shape of rules, of the manifest |
| Seed script, `seed/seed.py` | the bucket, the queue, the table | provision, upload, announce, with `--reset` or without |
| Debug log; configuration | trace files; none | |

**Interaction.** The bootstrap thread and `/health` share `AppState` without a lock. The workers
share the cluster buffers under one lock, held for bookkeeping only: the walk, its reads and its
writes run outside it, guarded by the `evaluating` flag. SQS connects the deliveries: what is not
deleted comes back. All threads share one cached queue URL, without a lock, which any failed receive
resets. The operator's script changes the bucket, the queue and the table under the running service.
Nothing but the queue, the bucket and the table survives the process.

**What is hard.** Two workers around the flag of one cluster, a message that comes back while it is
still held, walks that fail half way through their writes, a process that dies between the last
write and the ack; records that lie on the boundary between two files, at the edge of a window, of
the look-back or of a cooldown; batches accepted in parts; log entries cut in two by
a rotation, corrupt files and file names without an hour; a URL reset between two looks at it, beats that
fail while a visibility timeout runs out or are still in a call when their message is done with; a script that
fails half way and is run again; start-up, a dying worker, a shutdown and
a request that interleave. `PROJECT.json` lists the hazards one by one, with their line and the
properties that watch them.

**What makes it correct.** Of the pool: one owner per cluster, no decision from an incomplete file
set, no flag and no announcement ahead of the table, no message given up too early, and an end. Of
the engine: the streamed walk is the walk over all records. Of the table: what is there is what one
put per decision would have left. Of the intake: every whole report of every file, in an order the
look-ahead can rely on. Of the queue client: a message in work reappears only when its beats are missed for
as long as it was hidden for, no worker stays away from a queue that exists, and such a queue is emptied. Of the
script: what it announces is in place. Of the service: it comes up when it can, an operator's error is
final, a dead worker shows, and a shutdown leaves nothing running.

## 2. Modules

| Module | Models | Role |
| --- | --- | --- |
| `Scaler` | the worker pool with SQS, S3 and DynamoDB around it | detailed specification |
| `Publication` | what a reader of the table and of the announcement may see | abstract specification of `Scaler` |
| `DecisionRules` | windows, aggregates, conditions, gates (README 6.2 - 6.4) | operators |
| `Records` | what the engine is given; when its look-ahead is exact (`Watermark`) | operators |
| `DecisionStream` | `evaluate_stream` and `flush` | detailed specification |
| `ClusterWalk` | README section 6 on the full record set | abstract specification of `DecisionStream` |
| `DecisionWriter` | `put_decisions` and `_write_batch`, under repeated walks | specification |
| `LogIntake` | from log files to records: `order_log_keys`, `iter_log_lines`, `iter_entries`, `parse_entry` | specification |
| `QueueClient` | `SqsClient` with its cached URL, the polling loop and the heartbeat, in discrete time | specification |
| `Service` | `main.py`: bootstrap, shutdown, `/health` | specification |
| `Seed` | `seed.py`, aborted anywhere and run again | specification |
| `Startup` | `Service` and `Seed` on one bucket | composition |
| `MCScaler`, `MCDecisionStream`, `MCDecisionWriter`, `MCLogIntake`, `MCQueueClient`, `MCStartup` | | instances for TLC |
| `ScalerProofs`, `DecisionStreamProofs`, `DecisionWriterProofs`, `LogIntakeProofs`, `QueueClientProofs`, `ServiceProofs`, `StartupProofs` | | theorems |

The modules meet at stated interfaces. `Scaler` names a decision by cluster, file set and rank,
which is sound because the walk is deterministic: that a walk over a file set always yields the same
decisions is what `DecisionStream` shows against `ClusterWalk`. `Scaler` writes a batch in one step
or fails after any part of it; that a call that returns has written everything is what
`DecisionWriter` shows. `LogIntake` ends where `DecisionStream` begins: its `OrderMeetsWatermark` is
`EarliestFirst` of `Records`, the condition on file contents under which `WindowIsComplete` holds. `Scaler` admits
that a held message comes back (`RedeliverEarly`); `QueueClient` shows what that takes of the heartbeat.
`Service` starts
the pool and sees its threads run, die or exit. It allows its operator any change of the bucket (`Edit`);
`Startup` puts `Seed` in the operator's place and so inherits the theorems (`StartupIsAService`).

**`Scaler` and the code.** One action per critical section or AWS call. `Receive` is
`read_msg_from_queue`; `PollAgain`, `BatchDone` and `Exit` are `_worker_loop`. `TakeMessage` and
`HeadFails` are the checks of `handle_message`, up to and including the HEAD of the object.
`Register` is the critical section of `process_notification` with its three outcomes `IgnoreLate`,
`Remember` and `Claim`. `ReadFile`, `WriteBatch`, `WalkFails` and `WalkMissesFile` are
`_evaluate_and_persist` outside the lock, `Commit` its second critical section, `Announce`
`_announce_all_processed`, `Ack` and `AckFails` the delete. Around them, `Redeliver` and
`RedeliverEarly` are the visibility timeout of a message nobody holds and of one a worker holds,
`LoseObject` deletes an object, `Stop` and `Restart` end the process and start a new one.

**`DecisionStream` and the code.** `ReadFile` is one turn of the batch loop: de-duplication against
`seen`, then the beginning of `flush(before=batch_min)`. `EvaluatePoint` is one turn of the loop over
`ready`, `EndFlush` the pruning, `LastFlush` the flush after the last file. A file's entries are
numbered (`nth`), so that two copies of a report stay two entries.

**`DecisionWriter` and the code.** `Hand` is the call of `put_decisions` for the pending decisions of
the walk, with the last-wins de-duplication; `Send` is one turn of the loop of `_write_batch`, with
any part of the request accepted; `CallFails` a call that raises, after any part was written;
`Rerun` the walk that a redelivery starts again.

**`Service` and the code.** `boot` follows `bootstrap` statement by statement, because `/health` may
look between any two of them: `SetRules`, `SetManifest`, `StartWorkers`, `SetScaler`. `main` follows
the `finally` clause of `lifespan`. A request reads `AppState` in three steps: `HealthError`,
`HealthCount`, `HealthAnswer`. The workers' inside is `Scaler`'s matter.

**`LogIntake` and the code.** The driver has written a sequence of entries; the lines of the log are pairs of an entry
and a line number, and a file is a sequence of such lines. `OrderByName`, `StartPeeking` and `OrderByStamp` are
`order_log_keys`; `Hours` is `hour_from_key`. `ReadLine` is one turn of the nested generators `iter_log_lines` and
`iter_entries`, `EntryEnds` the `yield` of an entry at the next header or the end. `Verdict` is `parse_entry`;
`SkipEntry`, `KeepRecord` and `ParseRaises` are what `parse_lines` makes of it, `StampFile` what
`_first_record_timestamp` makes of it. `EndOfBody` is the end of the file or of its intact part, `Raise` an exception
that leaves the walk, `Rerun` the walk of the redelivered message.

**`QueueClient` and the code.** A thread is a worker's `Main` or one of its `Beats`. The property `queue_url` is four
steps of any of them, because another thread may run in between: `Check` (line 58), `Resolve`, `Store` (60), `Read`
(61), and then the call, where `Receive`, `Delete` and `Extend` reach the queue and `CallFails` does not.
`Receive` takes a batch of up to `MaxMessages` and leads to the log line (90), which looks at the URL once more.
`ReceiveFails` is the handler in `_worker_loop` with `reset_queue_url` and its pause. `Handle` takes the next
message of the batch and starts a beat for it; the others wait without one. `WorkEnds` and `WorkFails` are
`done.set()`, `JoinEnds` is `thread.join(timeout=5)`, which comes back when the beat has ended or
`JoinTimeout` is over, and `Delete` and `DeleteFails` are `_ack`. A beat that the join has given up on goes on
with its call; only back at its wait does it see that it is `Over`, and `BeatEnds`. Until then it may store a
URL or extend its message, beside the worker's next beat (`Current`). `BeatDue`, `Extend` and `ExtendFails` are the
rest of `beat`. `assured` is a history variable, which only `ExposureTakesMisses` reads. `Tick` lets a unit of time
pass once no thread has anything to do at once.

**`Seed`, `Startup` and the code.** One action per AWS call of `seed.py` that changes something, in the
order of `main`; `Abort` ends the script between any two of them. `WipePage` deletes one page of the
listing; `CreateRefused` is `QueueDeletedRecently`.

Definitions whose comment begins with *Deviation* are not part of any specification. Each is a
definition of the model changed the way a slip in the code would change it; putting it in the place
of the original must break the property it is listed with under "mutants".

## 3. What is abstracted

- **Mishaps are counted.** `Limits` of `Scaler` is a set of combinations: a behaviour may have as many
  failed calls, early redeliveries, restarts and deleted objects as one of them allows. `Limit` of
  `Service` does the same with one combination of failing fetches, dropped bodies, dying workers
  and slow joins; `MaxFaults` of `DecisionWriter` counts failing and throttled calls, `MaxMishaps` of
  `LogIntake` failing reads, and `Plans` of `QueueClient` is a set of combinations again: of
  workers, messages, beats, queues, and calls and handlings that fail although the queue exists. With
  a budget of 0 a kind does not happen. The proofs hold for every budget.
- **Decisions** of the pool are names; how they are computed is `DecisionStream`'s matter.
- **Metric values** are integers, an average is kept as a fraction and compared by multiplication,
  so no rounding is modelled. Time is in whole minutes. A cluster runs one query (README 4.3), so a
  report is known by its batch id.
- **A log entry** is one of valid, malformed (its text is no JSON object), incomplete (no id, batchId or
  timestamp), fatal (a value makes `parse_entry` raise what it does not catch), other (no progress
  marker). Of a valid one the batch id and the timestamp are kept, and how many of its lines the document
  needs. A file's name is the place of its key in the order of names, and its hour.
- **Response bodies.** When a generator given up half way closes its body is left out: on a return of
  `_first_record_timestamp` at once, but an exception of the parser keeps the suspended generator until its traceback
  is let go, after the pause in `handle_message`.
- **Time** in `QueueClient` is in whole units; what calls no service takes no time, a call takes any
  time up to `MaxCall` and has its effect at its end (SQS has it up to `MaxCall` earlier), and the handling of a
  message takes any time. `plan.beats` bounds
  how many beats of a worker are alive at once: with all of them in use the next message of a batch waits. A message that
  is dropped for its body, before a heartbeat is started, is `Scaler`'s matter (`TakeMessage`).
- **Receipts** in `QueueClient`: an extension works as long as the message is in flight in the queue the receipt is
  from, also after another receipt of it (LocalStack), and a delete always does.
- **In `Scaler`**, a failed receive changes nothing and is a stuttering step. **Receipt handles** are left out: a
  delete of a message received a second time is taken to be effective.
- **Read requests** (`/rules`, `/clusters`), status counters, trace logs, log lines and back-off
  delays change no state that a property is about.
- **The table** in `Seed` exists or does not, and the queue is not consumed: a message that is processed only makes
  `AnnouncedIsInPlace` easier.
- **An uploaded configuration object** is one of missing, misshapen (not the mapping asked for),
  rejected (of that shape, but an entry fails validation), good.

## 4. Runs

Each module has one type invariant, `TypeOK`. Runs marked with a cross are expected to fail, see
section 7. Deadlock is checked except where the program ends (the walk is done): `DecisionStream*`,
`DecisionWriter` and `LogIntake`. No run uses a state constraint: each explores every reachable state of its instance.

| Run | Instance | Properties |
| --- | --- | --- |
| `scaler_safety` | Two workers taking up to two messages at a time; a cluster of two files and three decisions, one of one file; a duplicated notification; batches of two decisions; a failed call with another one or with an early redelivery, or a restart, or a deleted object. Half a million states. | `TypeOK`, `SingleOwner`, `AckedIsRecorded`, `UnfinishedHasMessage`, `OnlyGenuineItems`, `EvaluatedIsDurable`, `AnnouncedIsDurable`, `ImplementsPublication` |
| `scaler_liveness` | The same clusters, each file announced once, a malformed message and one whose object does not exist; one failed call, one restart or one deleted object. | `EventuallyAnnounced`, `QueueDrains`, `LossIsContained`, `SingleFileSurvivesCrash` |
| `scaler_crash_replay` ✗ | One worker, one restart. | `CrashIsReplayed` |
| `scaler_early_redelivery` ✗ | A failed call and an early redelivery. | `NoClusterStranded` |
| `scaler_lost_mid_walk` ✗ | One deleted object. | `FailedWalkKeepsMessage` |
| `decision_stream` | Every placement of three reports over three files and five minutes that meets `Watermark`, one report possibly logged twice, two metric values, three rules with windows of 2, 3 and 1 and cooldowns of 2, 1 and 0. | `TypeOK`, `WindowIsComplete`, `HeldIsBounded`, `DecisionsChain`, `DecisionKeysDiffer`, `ImplementsClusterWalk`, `WalkCompletes` |
| `decision_stream_straddle` ✗ | The same under the docstring's own assumption, with files of two minutes. | `WindowIsComplete` |
| `decision_writer` | Every sequence of up to five decisions over three keys, batches of three, two attempts, three calls that fail or are throttled in any part. | `TypeOK`, `BatchHasDistinctKeys`, `TableIsSequential`, `WritesComplete` |
| `log_intake` | Logs of three batches, the second possibly reported twice, some entries of two lines, with an entry that is no record (every kind, two places), cut at any two lines into three files; one file possibly corrupt; names in the order of the hours or not, with an hour in all of them, in two or in none; one failing read. | `TypeOK`, `KeepsWhatIsWhole`, `OrderMeetsWatermark`, `ReadsToTheEnd` |
| `queue_client` | Six plans (`MCPlans`): two workers that only poll, one fault and a queue made three times under new URLs; two workers and a message, of a queue made twice under one URL, or with a fault and two beats each, or with batches of two; one worker with two beats, two faults and a queue made twice under two URLs, or with batches of two and one fault. Visibility and extension 4, interval, pause and longest call 1; the join gives up at once. 400 thousand states. | `TypeOK`, `ExposureTakesMisses`, `WorkersReachTheQueue`, `MessagesAreServed` |
| `service` | The service with two workers and one mishap of every kind; two runs of `seed.py` with one log file, whose configuration may be misshapen or have a rejected entry. | `TypeOK`, `OrderlyShutdown`, `AnnouncedIsInPlace`, `DeathIsReported`, `FailureIsFinal`, `ComesUpUndropped`, `ShutdownEnds`, `StopHoldsBack` |
| `service_dropped` ✗ | One run of `seed.py` and one connection lost in the middle of a body. | `ServiceComesUp` |

**What they show.** *The pool*: whatever is duplicated, retried or cut short, a cluster has one owner, a
message is given up only when its key is known, an unfinished cluster has a message left as long as
none comes back while it is held, and neither the flag nor the announcement is ahead of the table, so
that a reader sees only what `Publication` allows. It comes to its end; a lost object costs only its
own cluster, and a crash only clusters of several files. *The engine*: the bounded walk evaluates each
report once, in order, against complete windows, and decides what the walk over all records decides;
decisions chain across files and never share a table key. *The writer*: after each call the table is
what one put per decision would have left, also when an earlier walk wrote more, and the walk ends.
*The intake*: whatever is malformed, cut or corrupt, the engine gets exactly the whole reports of each
file, once, and in an order that is good for its look-ahead, whether names or first records decide it;
only a value that makes the parser raise keeps the walk from its end (section 7).
*The queue client*: resets and a re-created queue never keep a worker away for good; a message in work comes back
only when its beats have been missed for as long as it had; what is lost to a worker, comes back while it waits in a
batch, or is extended once more by a beat that outlives its handling, is served in the end. *The service and the
script*: comments at each property in `Service` and
`Seed` say which promise of `main.py` or `seed.py` it states.

**Why the bounds are enough.** Ownership, late files and retries involve at most two workers and two deliveries around
one cluster; a second cluster is needed for "the last cluster" of the announcement, and for the damage of a lost
object to be contained. Two files distinguish "some" from "all" files, three decisions with batches of two give a full
batch and a partial one. Batches of two messages let a message wait while another is handled. The known disagreements
of the pool with its documentation need at most two mishaps. Combinations no run explores, like a failed call with a
restart, are covered by the proofs. A message of an unknown cluster takes the same action as a malformed one and is
left out of the instance. Three reports over three files give a spill-over into the next file, an empty file, equal
timestamps, and a point whose window reaches back over a pruned one. Five decisions in batches of three over three
keys give a repeated key inside a batch and across batches; three faults exhaust two attempts and still fail another
call, so that a re-run finds its own later writes. Three files with cuts at every line give empty files, files without
a header, an entry and a document cut in two, and a report repeated across a rotation; three files are also what a
wrong order needs to matter to the look-ahead. Two workers with two beats each are six threads on one URL; two beats
give one that is left over beside the current one, which a join that gives up at once allows as often as possible. Two
messages in a batch give one that waits. A queue made twice gives a former URL, and under one URL a beat that has a
receipt of the former queue; three times give two former ones. No plan has everything at once: two workers with late
beats *and* a queue that is made again under another URL are several million states. What a worker's own threads do to
each other then, and what two pollers do, is explored; the invariants are proved for every plan. Two runs of the
script give one that finds what an aborted one has left. Two workers and one death distinguish "all alive" from "some
alive". Symmetry (`Permutations` of the workers) is used only in `scaler_safety`, where every property is a safety
property that treats workers alike. What depends on no bound is proved, section 6.

**Times of the heartbeat.** From one beat to the next it takes at most `Round`: an interval, the look-up of a URL that
was reset, and the call. `ExposureTakesMisses` says what that makes of the timeouts: a message that had `A` when its
handling began, or when a beat last got through, can reappear in work only after `k` beats missed in a row with
`A <= (k + 1) * Round`. `A` is what was left of `seed.py:68` (60 s) at the start, and 60 s (`config.py:29`) later. With the
interval of 20 s no beat need be missed if a round may take 60 s, which two calls of 20 s bring about, and a call may
take 30 s and be tried five times (base_boto_client.py:50-54); with calls under 5 s one missed beat is borne and two
in a row are not. Nothing in the settings asks for more: `config.py:111` compares the interval with the extension
only. The run has an extension of 4 and a round of 3, so that one missed beat is enough for a message to reappear in
work, and it does. The pause must not be 0: a call with `None` for a URL fails at once, and workers without a pause
can take the URL from each other for ever, which is what the mutant of `WorkersReachTheQueue` shows.

## 5. Fairness

- `Scaler`, `FairSpec`: weak fairness of each worker's step, since the threads run and no call blocks
  for ever (base_boto_client.py sets timeouts), of `Redeliver` for each message, the promise of SQS,
  and of the restart once the scaler was stopped: of a scaler stopped for good nothing is expected.
  No failure, early redelivery, stop or crash is ever forced. A worker that takes messages may
  choose between them, as SQS does, and the properties hold for every choice.
- `DecisionStream` and `DecisionWriter`: weak fairness of `Next`, one thread running a loop. In
  `DecisionWriter` throttling and failures end after `MaxFaults` calls; throttling for ever would have
  the walk repeated for ever.
- `LogIntake`: weak fairness of `Next`; one walk runs at a time, and reads fail at most `MaxMishaps` times.
- `QueueClient`: weak fairness of each thread, main or beat, and of time. It also makes the handling of a message end
  at some time; nothing forces a queue to be deleted or created, or a call to fail.
- `Service`, `Startup`: weak fairness of the bootstrap thread, of the shutdown once it has begun, of a worker's
  exit and of a request. Weak fairness of the shutdown also says that the workers told to stop end,
  so that a join comes back. Nothing forces the operator to run the script, the script to go on, or the service
  to be stopped;
  `ServiceComesUp` and `ComesUpUndropped` are therefore conditional on both objects being good for good.

## 6. Proofs

TLAPS checks these for all values of the constants, under the assumptions named in the modules (`MessagesAssumption`,
`SizesAssumption`, `ManifestAssumption`, `WriterAssumption`, `RulesAssumption`, `RulesSequence`, `LogsAssumption`,
`IntakeAssumption`, `TimesAssumption`, `PlansAssumption`, `ServiceAssumption`, `StartupAssumption`). Three carry
weight. `ManifestAssumption`: the manifest tells the true number of files of a cluster, and each is announced.
`IntakeAssumption`: Spark logs its batches in the order of their triggers; a file holds lines of the log in their
order, with no line missing inside an entry; of two files one was written before the other, and an hour in the name
tells which. The watermark, which `Init` of `DecisionStream` asks of the log, and which `OrderIsSafeToWalk` shows in
its second part (`EarliestFirst`) of what the intake hands over.

| Theorem | States |
| --- | --- |
| `ScalerProofs!TypeCorrect` | `Spec => []TypeOK` |
| `ScalerProofs!ClusterHasOneOwner` | `Spec => []SingleOwner` |
| `ScalerProofs!TableIsGenuine` | `Spec => []OnlyGenuineItems` |
| `ScalerProofs!EvaluatedClustersAreDurable` | `Spec => []EvaluatedIsDurable` |
| `ScalerProofs!AnnouncementIsNotEarly` | `Spec => []AnnouncedIsDurable` |
| `ScalerProofs!PoolImplementsPublication` | `Spec => ImplementsPublication` |
| `ScalerProofs!AckedMessagesAreRecorded` | `Spec => []AckedIsRecorded` |
| `ScalerProofs!UnfinishedClustersHaveMessages` | `Spec => []UnfinishedHasMessage` |
| `DecisionStreamProofs!StreamTypeCorrect` | `Spec => []TypeOK` |
| `DecisionStreamProofs!WindowsAreComplete` | `Spec => []WindowIsComplete` |
| `DecisionStreamProofs!MemoryIsBounded` | `Spec => []HeldIsBounded` |
| `DecisionStreamProofs!StreamImplementsWalk` | `Spec => ImplementsClusterWalk` |
| `DecisionStreamProofs!DecisionsChainUp` | `Spec => []DecisionsChain` |
| `DecisionStreamProofs!DecisionKeysAreUnique` | `Spec => []DecisionKeysDiffer` |
| `DecisionWriterProofs!WriterTypeCorrect` | `Spec => []TypeOK` |
| `DecisionWriterProofs!RequestsAreLegal` | `Spec => []BatchHasDistinctKeys` |
| `DecisionWriterProofs!PutsAreSequential` | `Spec => []TableIsSequential` |
| `LogIntakeProofs!IntakeTypeCorrect` | `Spec => []TypeOK` |
| `LogIntakeProofs!NothingWholeIsLost` | `Spec => []KeepsWhatIsWhole` |
| `LogIntakeProofs!OrderIsSafeToWalk` | `Spec => []OrderMeetsWatermark` |
| `QueueClientProofs!ClientTypeCorrect` | `Spec => []TypeOK` |
| `QueueClientProofs!ExposureNeedsMisses` | `Spec => []ExposureTakesMisses` |
| `ServiceProofs!ServiceTypeCorrect` | `Spec => []TypeOK` |
| `ServiceProofs!ShutdownLeavesNoWorker` | `Spec => []OrderlyShutdown` |
| `ServiceProofs!ErrorIsFinal` | `Spec => FailureIsFinal` |
| `ServiceProofs!DeathShowsOnHealth` | `Spec => DeathIsReported` |
| `ServiceProofs!StopIsHeeded` | `Spec => StopHoldsBack` |
| `StartupProofs!AnnouncedFilesAreInPlace` | `StartupSpec => []AnnouncedIsInPlace` |
| `StartupProofs!StartupIsAService` | `StartupSpec => Spec` |

**The pool.** The inductive invariant is `Typed /\ Safe`. `Typed` adds to the types that a worker past
the checks handles a message of a known cluster whose object existed. `Safe` is `SingleOwner`,
`OnlyGenuineItems` and `EvaluatedIsDurable` with what they and `AnnouncedIsDurable` rest on: the keys known of a
cluster are log files of it; a walk's snapshot is
all of them (`CompleteIsAll`: `is_complete` counts, and a subset of full cardinality is the whole set;
this is where `ManifestAssumption` is used); what a walk has counted as written is in the table; an
announcing worker has seen every cluster evaluated. One lemma per action shows that it is preserved;
the refinement then maps each step to a step of `Publication` or a stutter.

Where the messages are is a second invariant on top of it, `Kept`. `AckedIsRecorded` needs that the store holds every
uploaded object (`ObjectsExist`) and that the memory of a cluster already taken is that of all its files
(`TakenIsComplete`): a message may be deleted because its cluster is taken, and then its key is recorded by then.
`UnfinishedHasMessage` needs that as long as no message came back early each is
held by one worker (`HeldOnce`), so that the completing message of a failed walk is the one that stays.

**The engine.** The inductive invariant `WalkInv` says where every record read so far is. `Placed`: what is pending,
due or kept for the look-back is a first copy already read, the look-back of a file read is of records walked, and
the keys remembered (`seen`) reach back at least to the last file. `Parted`: the bound of the flush (`before`) parts
what is walked or due from what is pending or still unread, and what is due sorts after what is walked. `Kept`:
the look-back holds what any window still to come needs and nothing older, and no key is kept that is older by `Margin`.
The watermark is used where a file is read: `EarliestFirst` keeps a new record from falling below the bound,
and `OneOverlap` makes the keys of the last file enough to recognise every copy. From there
`WindowsAreComplete` needs no more than the definition of a window, and the refinement maps `EvaluatePoint` to the
step of `ClusterWalk` that takes the earliest record not yet evaluated, and every other step to a stutter. The two
theorems about decisions need `Accounted` as well: the state is what the last decision left, and every decision was
taken at a walked record, by the first rule that holds there.

**The intake.** `AtHand` says that the entry at hand begins where the last one ended, and consists of consecutive
lines. `EntryIsJudged` is the heart: at the end of an entry, `parse_entry` finds a report in the lines at hand exactly
if the lines read so far hold one more report as a whole, and no later line adds to that. So the records found are the
whole reports of the lines done with (`FoundIsWhole`), and at the end of the file those of the file. For the order, a
file is stamped with its first whole report (`Ordered`); that two files out of the order of the log do no harm then
follows from `NoTies`: their reports that lie between the two first ones are all of one batch, and the later file's
first copy of it is not in that file.

**The queue client.** `Typed` fixes, for each place of a thread, what it holds and whether it knows a URL; `Paired`
says that the beat of a handling is alive at least until the join begins, and has the worker's message and receipt as
long as it lives. `Covered` relates the message to its beat: what is left of its invisibility, and the time the beat
has `Spent` since it got through or was missed, are together at least what was `assured`. `Tick` takes from the one
what it gives to the other, because time passes only while the beat is in its wait or in a call; a miss takes a round
from both sides; other workers, left-over beats and a receipt only hide a message longer, a delete ends it, and a new
queue ends the handling's claim on it. What is exposed has nothing left, so that `assured` is at most `Spent`, which
is at most a `Round`. The theorem assumes nothing of how the times compare, but that the interval is below the
extension (`config.py:111`).

**The writer.** `TableIsSequential` speaks only of the time between two calls. Inductive is that every
last write of the decisions handed over is in the table *or* still requested, and that what is
requested is a last write (`RequestsAreLast`): this is why a re-sent item never overwrites a later
decision, and why a request never holds a key twice.

**The service.** `Safe` links the places of the three threads: the scaler is published only after
its threads were listed, told to stop only after it was published, joined only after it was told.
`FailureIsFinal`, `DeathIsReported` and `StopHoldsBack` have the form `[](A => []B)`; each is proved from a formula
that `A` implies, that every step preserves and that implies `B`. For `DeathIsReported` this is that
a request in its last step has counted fewer workers than there are.

**The script.** `AnnouncedIsInPlace` is not inductive: `SeedSafe` adds what the script has done before it gets to a
step (`DoneBefore`), that no message is on the queue from its deletion to the last upload
(`EmptyMeanwhile`), and that a file still to be announced has no message. `StartupIsAService` rests on
the types of the bucket alone.

**Induction over data.** What the sorted sequences and the sums of the models contain is proved by the least
counterexample (`WFMin`, `FS_StrictSubsetOrderingWellFounded`), or needs no induction at all: `SortedBy` gives
each member the
place that the number of its predecessors says, so that `SortedByProperties` is a statement about cardinalities. On the
sets of the instance TLC finds it equal to `SetToSortSeq` (`SortedByIsSetToSortSeq` in `MCLogIntake`).

**Model-checked only.** All liveness (`EventuallyAnnounced`, `WalkCompletes`, `WritesComplete`, `ReadsToTheEnd`,
`WorkersReachTheQueue` and the others of that kind): fairness and `ENABLED` are outside what the prover handles. Every
invariant of a passing run is a theorem.

## 7. Where code and documentation disagree

Each of the five is a run that TLC refutes; `PROJECT.json` quotes the lines.

1. **A crash after the last write is not replayed** (`scaler_crash_replay`). The keys of a cluster are
   kept in memory and their messages deleted. After a crash only the last message comes back, and the
   new process waits for files that nobody announces again. DESIGN.md promises the same replay.
2. **A cluster can be stranded** (`scaler_early_redelivery`). When the completing message becomes
   visible while its owner walks, a second worker acks it as late; if the owner then fails, no message
   is left. The comments expect the redelivered message to re-run the evaluation.
3. **A failed walk may lose its message** (`scaler_lost_mid_walk`). An object missing during the walk
   is answered like a missing object of the message itself: acked, though the docstring says that a
   failing walk leaves its message in the queue.
4. **The look-ahead needs more than the docstring says** (`decision_stream_straddle`). "Own file or the
   next one" lets a record lie below the earliest new record of a file read before it, when that file
   is sparse; the point is then evaluated against a pruned window. `Watermark` is the condition under
   which the walk is exact.
5. **A dropped connection ends the start-up** (`service_dropped`). `get_object_bytes` reads the body
   outside the error translation, and `bootstrap` does not catch what botocore raises there. The thread
   dies, and `/health` says "starting" for ever.

Others, met while modelling and without a run of their own:

- Two missed beats expose a message. The module docstring (scaler.py:33-34) says that a slow evaluation is *never*
  redelivered mid-way, the one of the heartbeat (415-416) that at worst it is, and DESIGN.md:31 that it is. The second
  is what the code does: a failed beat is followed by an interval, so that with the 60 s and 20 s it ships with, two
  beats missed in a row suffice, even if no call is slow. `ExposureTakesMisses` states what does hold.
- A message that waits in a batch has no heartbeat: the same docstring speaks of every message a worker holds. With
  `SQS_MAX_MESSAGES` above its default of 1, which config.py:107 allows, the later ones of a batch reappear while a
  slow first one is handled, without any failure. Two workers may then handle one message, as after an early redelivery.
- A record can be fatal. A batchId like `"--5"` passes the test of spark_log_parser.py:120, which strips every leading
  minus, and `int` then raises a `ValueError` that `parse_entry` does not catch: the walk fails on every delivery, and
  the cluster is never decided on. README.md:252 asks to skip malformed records, and the parser calls itself
  lenient (spark_log_parser.py:11-12). `ReadsToTheEnd` excludes such a record (`Fatal`), so that no run shows it.
- `HealthAnswer` may say "degraded" between `SetManifest` and `SetScaler`, although no worker died, the
  meaning main.py:155 gives to the word; and it answers 200 in the states "starting" and "degraded", where
  DESIGN.md:178 asks for 503 unless the system is healthy.
- `order_log_keys` by first records needs that no two batches have one timestamp (`NoTies`): of two files
  whose first records tie, the name decides, and the later one may be read first. With several queries
  in one cluster, which README 4.3 excludes, the fallback would have more such cases.
- `beat` does not reset the URL. Were a re-created queue to have another URL, a former URL, stored late
  (sqs_client.py:59-60), would keep all beats from the queue until a receive fails: they count as missed.
- seed.py:148 prints "ready (empty)" for a table that it has kept, rows and all; and seed.py:9 calls the
  script idempotent, while on SQS, which refuses the name of a deleted queue for a minute, its ten
  attempts two seconds apart give up before. It can then be run again, as `AnnouncedIsInPlace` shows.
- `seed.py --reset` under a running service leaves an empty table: the service remembers the clusters as
  evaluated and acks the new messages as late.
- A manifest without clusters is accepted (scaler.py:60-90), but nothing is ever announced, since only the end
  of a walk looks (scaler.py:382). In validate_rules and validate_manifest an unhashable name or cluster
  id raises a `TypeError` instead of being listed as a problem; `bootstrap` catches it.
- A threshold of "nan" is coerced to a number and accepted (decision_engine.py:52-58); its rule never fires.

## 8. What is not modelled, and the plan

Built so far, in this order: `Publication`, `Scaler`, its proofs; `DecisionRules`, `ClusterWalk`,
`DecisionStream`; `Service` and `DecisionWriter` with their proofs; `LogIntake`, `QueueClient`; `Seed` and
`Startup` with their proofs; the proofs of `DecisionStream`, `LogIntake` and `QueueClient`. To come, in this order:

1. **Proofs**: what the instances meet at: that a walk over a file set yields one sequence of decisions (from
   `StreamImplementsWalk`), so that `Scaler` may name a decision by its rank.
2. **The pool with an unfaithful manifest**: too small or too large a `num_log_files`, to state what
   remains of the properties without `ManifestAssumption`.
3. **The pool with the script**: `Scaler` composed with `Seed`, whose `--reset` empties the table under clusters that
   are remembered as evaluated.

Left out for good: decompression, decoding and JSON parsing (text processing, no state); what
`extract_metrics` takes from a document (data; `DecisionRules` has records with and without a metric); the coercion
of YAML spellings; the debug log (append-only files nothing reads back); configuration (constants; their
ranges are assumptions). One interleaving is in
`Service` without a promise about it: a shutdown that overtakes the bootstrap thread finds no
scaler to stop, the workers start afterwards, and end with the process.
