------------------------------- MODULE Service -------------------------------
(***************************************************************************)
(* The process around the worker pool (autoscaler_service/main.py): the    *)
(* bootstrap thread, which waits for the configuration in the bucket and   *)
(* starts the scaler, the main thread, which serves and then shuts down,   *)
(* and a /health request.  They share AppState without a lock.             *)
(*                                                                         *)
(* A configuration object is abstracted to what load_config_from_s3 and    *)
(* the validation of its entries make of it.  What the workers do is in    *)
(* module Scaler; here they run, exit when told to stop, or die.           *)
(***************************************************************************)
EXTENDS Naturals, FiniteSets

CONSTANTS
  Worker,   \* the NUM_OF_WORKERS threads of the scaler
  Limit     \* how many mishaps of each kind a behaviour may have

\* fetch: an S3 call fails.  drop: the connection is lost while the body of an
\* object is read.  death: a worker thread ends by itself.  slow: a join gives
\* up after its timeout.
Mishap == {"fetch", "drop", "death", "slow"}

Object == {"rules", "manifest"}

\* misshapen: not the mapping load_config_from_s3 asks for.  rejected: of that
\* shape, but an entry fails validation.
Content == {"missing", "misshapen", "rejected", "good"}

None == "none"

ASSUME ServiceAssumption == /\ IsFiniteSet(Worker)
                            /\ Worker # {}
                            /\ Limit \in [Mishap -> Nat]

VARIABLES
  bucket,     \* object -> its content
  fetched,    \* object -> what the bootstrap thread has read of it, or None
  rules,      \* AppState.rules, or None
  manifest,   \* AppState.manifest, or None
  published,  \* AppState.scaler is set
  failed,     \* AppState.bootstrap_error is set
  stopping,   \* AppState.stop_event
  boot,       \* where the bootstrap thread is
  main,       \* where the main thread is
  worker,     \* worker -> "none", "running", "dead" or "exited"
  listed,     \* Scaler._threads
  told,       \* the scaler's own _stop event
  health,     \* where the request is
  counted,    \* the workers it has found alive
  answer,     \* its answer, or NoAnswer
  used        \* mishaps so far, by kind

appState == <<rules, manifest, published, failed, stopping>>
pool     == <<worker, listed, told>>
request  == <<health, counted, answer>>

Answer(code, status) == [code |-> code, status |-> status]
NoAnswer             == Answer(0, None)

vars == <<bucket, fetched, appState, boot, main, pool, request, used>>

Spend(kind) == /\ used[kind] < Limit[kind]
               /\ used' = [used EXCEPT ![kind] = @ + 1]

Init ==
  /\ bucket = [o \in Object |-> "missing"]
  /\ fetched = [o \in Object |-> None]
  /\ rules = None /\ manifest = None
  /\ published = FALSE /\ failed = FALSE /\ stopping = FALSE
  /\ boot = "check" /\ main = "serving"
  /\ worker = [w \in Worker |-> "none"] /\ listed = {} /\ told = FALSE
  /\ health = "idle" /\ counted = 0 /\ answer = NoAnswer
  /\ used = [kind \in Mishap |-> 0]

-----------------------------------------------------------------------------
\* The bootstrap thread.

BootTo(from, to) == boot = from /\ boot' = to

\* Deviation: the loop does not look at stop_event.
NeverStops ==
  /\ BootTo("check", "rules")
  /\ UNCHANGED <<bucket, fetched, appState, main, pool, request, used>>

\* The loop's condition, before every attempt.
CheckStop ==
  /\ BootTo("check", IF stopping THEN "ended" ELSE "rules")
  /\ UNCHANGED <<bucket, fetched, appState, main, pool, request, used>>

\* A body that was read and parsed; its shape is checked before the next one
\* is asked for.
Fetch(o, next) ==
  /\ boot = o
  /\ bucket[o] # "missing"
  /\ fetched' = [fetched EXCEPT ![o] = bucket[o]]
  /\ failed' = (bucket[o] = "misshapen")
  /\ boot' = IF bucket[o] = "misshapen" THEN "ended" ELSE next
  /\ UNCHANGED <<bucket, rules, manifest, published, stopping, main, pool, request, used>>

\* Deviation: a missing object ends the bootstrap thread.
MissingIsFatal ==
  /\ boot \in Object
  /\ bucket[boot] = "missing"
  /\ boot' = "ended"
  /\ UNCHANGED <<bucket, fetched, appState, main, pool, request, used>>

\* BotoClientError: the object is not there yet.
NotAvailable ==
  /\ boot \in Object
  /\ bucket[boot] = "missing"
  /\ boot' = "wait"
  /\ UNCHANGED <<bucket, fetched, appState, main, pool, request, used>>

\* BotoClientError: the call failed.
FetchFails ==
  /\ boot \in Object
  /\ boot' = "wait"
  /\ Spend("fetch")
  /\ UNCHANGED <<bucket, fetched, appState, main, pool, request>>

\* The connection is lost in get_object_bytes while the body is read, outside
\* _call: botocore's exception is none of those bootstrap catches.
BodyDrops ==
  /\ boot \in Object
  /\ bucket[boot] # "missing"
  /\ boot' = "crashed"
  /\ Spend("drop")
  /\ UNCHANGED <<bucket, fetched, appState, main, pool, request>>

\* stop_event.wait(startup_retry_seconds), which a stop cuts short.
Waited ==
  /\ BootTo("wait", "check")
  /\ UNCHANGED <<bucket, fetched, appState, main, pool, request, used>>

\* Deviation: only the manifest is validated.
OnlyManifestAccepted == fetched["manifest"] = "good"

Accepted == \A o \in Object : fetched[o] = "good"

\* Deviation: the error is reported, but bootstrap does not return.
BuildGoesOn ==
  /\ BootTo("build", "setRules")
  /\ failed' = ~Accepted
  /\ UNCHANGED <<bucket, fetched, rules, manifest, published, stopping, main, pool, request, used>>

\* DecisionEngine and Scaler validate the entries as they are built.
Build ==
  /\ BootTo("build", IF Accepted THEN "setRules" ELSE "ended")
  /\ failed' = ~Accepted
  /\ UNCHANGED <<bucket, fetched, rules, manifest, published, stopping, main, pool, request, used>>

SetRules ==
  /\ BootTo("setRules", "setManifest")
  /\ rules' = fetched["rules"]
  /\ UNCHANGED <<bucket, fetched, manifest, published, failed, stopping, main, pool, request, used>>

SetManifest ==
  /\ BootTo("setManifest", "start")
  /\ manifest' = fetched["manifest"]
  /\ UNCHANGED <<bucket, fetched, rules, published, failed, stopping, main, pool, request, used>>

StartWorkers ==
  /\ BootTo("start", "setScaler")
  /\ worker' = [w \in Worker |-> "running"]
  /\ listed' = Worker
  /\ UNCHANGED <<bucket, fetched, appState, main, told, request, used>>

SetScaler ==
  /\ BootTo("setScaler", "ended")
  /\ published' = TRUE
  /\ UNCHANGED <<bucket, fetched, rules, manifest, failed, stopping, main, pool, request, used>>

Bootstrap == \/ CheckStop \/ NotAvailable \/ FetchFails \/ BodyDrops \/ Waited
             \/ Fetch("rules", "manifest") \/ Fetch("manifest", "build")
             \/ Build \/ SetRules \/ SetManifest \/ StartWorkers \/ SetScaler

-----------------------------------------------------------------------------
\* The main thread: lifespan's finally clause, once the server stops.

MainTo(from, to) == main = from /\ main' = to

BeginShutdown ==
  /\ MainTo("serving", "stopScaler")
  /\ stopping' = TRUE
  /\ UNCHANGED <<bucket, fetched, rules, manifest, published, failed, boot, pool, request, used>>

\* state.scaler is looked at once.
StopScaler ==
  /\ MainTo("stopScaler", IF published THEN "joinWorkers" ELSE "joinBootstrap")
  /\ told' = (told \/ published)
  /\ UNCHANGED <<bucket, fetched, appState, boot, worker, listed, request, used>>

\* Deviation: the threads are forgotten, not joined.
NotJoined ==
  /\ MainTo("joinWorkers", "joinBootstrap")
  /\ listed' = {}
  /\ UNCHANGED <<bucket, fetched, appState, boot, worker, told, request, used>>

JoinWorkers ==
  /\ MainTo("joinWorkers", "joinBootstrap")
  /\ listed' = {}
  /\ \/ /\ \A w \in listed : worker[w] # "running"
        /\ UNCHANGED used
     \/ /\ \E w \in listed : worker[w] = "running"
        /\ Spend("slow")
  /\ UNCHANGED <<bucket, fetched, appState, boot, worker, told, request>>

JoinBootstrap ==
  /\ MainTo("joinBootstrap", "ended")
  /\ \/ /\ boot \in {"ended", "crashed"}
        /\ UNCHANGED used
     \/ /\ boot \notin {"ended", "crashed"}
        /\ Spend("slow")
  /\ UNCHANGED <<bucket, fetched, appState, boot, pool, request>>

Shutdown == StopScaler \/ JoinWorkers \/ JoinBootstrap

-----------------------------------------------------------------------------
\* uvicorn.run returns, and with it the process.
Over == main = "ended" /\ UNCHANGED vars

-----------------------------------------------------------------------------
\* The workers, seen from outside.

WorkerExits(w) ==
  /\ worker[w] = "running"
  /\ told
  /\ worker' = [worker EXCEPT ![w] = "exited"]
  /\ UNCHANGED <<bucket, fetched, appState, boot, main, listed, told, request, used>>

WorkerDies(w) ==
  /\ worker[w] = "running"
  /\ worker' = [worker EXCEPT ![w] = "dead"]
  /\ Spend("death")
  /\ UNCHANGED <<bucket, fetched, appState, boot, main, listed, told, request>>

-----------------------------------------------------------------------------
\* GET /health: three reads of AppState, one after the other.

\* Deviation: threads that were started count, alive or not.
AnyListed == listed

Alive == {w \in listed : worker[w] = "running"}

HealthError ==
  /\ health = "idle"
  /\ main = "serving"
  /\ IF failed THEN health' = "answered" /\ answer' = Answer(503, "error")
               ELSE health' = "count" /\ answer' = NoAnswer
  /\ UNCHANGED <<bucket, fetched, appState, boot, main, pool, counted, used>>

HealthCount ==
  /\ health = "count"
  /\ health' = "answer"
  /\ counted' = IF published THEN Cardinality(Alive) ELSE 0
  /\ UNCHANGED <<bucket, fetched, appState, boot, main, pool, answer, used>>

ConfigLoaded == rules # None /\ manifest # None

HealthAnswer ==
  /\ health = "answer"
  /\ health' = "answered"
  /\ answer' = Answer(200, IF ~ConfigLoaded THEN "starting"
                           ELSE IF counted < Cardinality(Worker) THEN "degraded" ELSE "ok")
  /\ UNCHANGED <<bucket, fetched, appState, boot, main, pool, counted, used>>

\* The client has its answer, and may ask again.
HealthDone ==
  /\ health = "answered"
  /\ health' = "idle" /\ counted' = 0 /\ answer' = NoAnswer
  /\ UNCHANGED <<bucket, fetched, appState, boot, main, pool, used>>

Health == HealthError \/ HealthCount \/ HealthAnswer \/ HealthDone

-----------------------------------------------------------------------------
\* The operator changes the bucket; how seed.py does is in module Seed.
Edit ==
  /\ bucket' \in [Object -> Content]
  /\ UNCHANGED <<fetched, appState, boot, main, pool, request, used>>

Next == \/ Bootstrap
        \/ BeginShutdown \/ Shutdown \/ Over
        \/ \E w \in Worker : WorkerExits(w) \/ WorkerDies(w)
        \/ Health
        \/ Edit

\* The threads keep running; a join that waits for long enough ends.
Fairness == /\ WF_vars(Bootstrap)
            /\ WF_vars(Shutdown)
            /\ \A w \in Worker : WF_vars(WorkerExits(w))
            /\ WF_vars(Health)

Spec == Init /\ [][Next]_vars /\ Fairness

-----------------------------------------------------------------------------
\* Properties.

TypeOK ==
  /\ bucket \in [Object -> Content]
  /\ fetched \in [Object -> Content \cup {None}]
  /\ rules \in {None, "good"} /\ manifest \in {None, "good"}
  /\ published \in BOOLEAN /\ failed \in BOOLEAN /\ stopping \in BOOLEAN
  /\ boot \in Object \cup {"check", "wait", "build", "setRules", "setManifest",
                           "start", "setScaler", "ended", "crashed"}
  /\ main \in {"serving", "stopScaler", "joinWorkers", "joinBootstrap", "ended"}
  /\ worker \in [Worker -> {"none", "running", "dead", "exited"}]
  /\ listed \subseteq Worker
  /\ told \in BOOLEAN
  /\ health \in {"idle", "count", "answer", "answered"}
  /\ counted \in 0..Cardinality(Worker)
  /\ used \in [Mishap -> Nat]

\* "/health is 'ok' with live workers and flips to 'degraded' once a worker
\* thread is gone" (test_main.py:96): the request reads AppState in three steps,
\* but no request that begins after a worker died is ever answered "ok".
DeathIsReported ==
  []((\E w \in Worker : worker[w] = "dead") /\ health = "idle" =>
       [](answer # Answer(200, "ok")))

\* "A malformed rules/manifest file is an operator error: surface it on /health
\* and stop trying" (main.py:109-110): once the error is on /health no worker
\* is ever started, whatever the operator uploads afterwards.
FailureIsFinal == [](failed => [](\A w \in Worker : worker[w] = "none"))

\* A shutdown that found the scaler published leaves no worker behind, unless a
\* join timed out (main.py:138-142, scaler.py:215-219).  When it comes before
\* the scaler is published, told stays FALSE and nothing is promised.
OrderlyShutdown ==
  main = "ended" /\ told /\ used["slow"] = 0 => \A w \in Worker : worker[w] # "running"

\* A stop that finds the bootstrap thread before its check, or in its wait,
\* holds the workers back for good: shutdown looks at state.scaler once, and
\* what is started later is never told to stop (main.py:86, 106, 138-140).
StopHoldsBack ==
  [](stopping /\ boot \in {"check", "wait"} => [](\A w \in Worker : worker[w] = "none"))

Seeded  == \A o \in Object : bucket[o] = "good"
Started == \A w \in Worker : worker[w] # "none"

\* "A background thread keeps probing S3 for the manifest and rules; once both
\* load, the worker threads start" (main.py:5-7): once both objects are good
\* for good the workers start, unless an earlier upload was malformed or the
\* service is stopped.
ServiceComesUp == <>[]Seeded => <>(Started \/ stopping \/ failed)

\* The same, as long as no connection is lost in the middle of a body: neither
\* a missing object nor a failed call ends the attempts.
ComesUpUndropped == <>[]Seeded => <>(Started \/ stopping \/ failed \/ used["drop"] > 0)

\* A shutdown ends, and the bootstrap thread with it: the stop event ends its
\* attempts, although the objects may never come (main.py:83, 106).
ShutdownEnds == stopping ~> (main = "ended" /\ boot \in {"ended", "crashed"})
=============================================================================
