---------------------------- MODULE ServiceProofs ----------------------------
(***************************************************************************)
(* For every pool of workers and every number of mishaps: what start-up,   *)
(* /health and shutdown promise however their threads interleave.          *)
(***************************************************************************)
EXTENDS Service, FiniteSetTheorems, TLAPS

\* Only a configuration that passed validation is published.
PublishedIsAccepted == boot \in {"setRules", "setManifest"} => Accepted

\* Workers run once the bootstrap thread has started them, and after an error
\* it has ended without doing so.
StartedOnce ==
  /\ boot \notin {"setScaler", "ended"} => \A w \in Worker : worker[w] = "none"
  /\ failed => boot = "ended" /\ \A w \in Worker : worker[w] = "none"

\* The scaler is published last, with its threads started.
PublishedIsStarted ==
  /\ published => boot = "ended"
  /\ boot = "setScaler" => listed = Worker
  /\ published /\ main \in {"serving", "stopScaler", "joinWorkers"} => listed = Worker

\* The workers are told to stop before they are joined.
ToldIsJoined ==
  /\ told => published /\ main \in {"joinWorkers", "joinBootstrap", "ended"}
  /\ main = "joinWorkers" => told

\* The join of a scaler that was told to stop has waited for every worker.
JoinedHaveEnded ==
  told /\ main \in {"joinBootstrap", "ended"} /\ used["slow"] = 0 =>
    \A w \in Worker : worker[w] # "running"

\* A request has no answer before it is answered.
NoAnswerYet == health # "answered" => answer = NoAnswer

Safe == /\ PublishedIsAccepted /\ StartedOnce /\ PublishedIsStarted
        /\ ToldIsJoined /\ JoinedHaveEnded /\ NoAnswerYet

IInv == TypeOK /\ Safe

-----------------------------------------------------------------------------
(* Types. *)

\* The workers found alive are at most all of them, and fewer once one died.
LEMMA AliveBounded ==
  ASSUME listed \subseteq Worker
  PROVE  /\ Cardinality(Worker) \in Nat
         /\ Cardinality(Alive) \in 0..Cardinality(Worker)
         /\ \A w \in Worker : worker[w] # "running" => Cardinality(Alive) < Cardinality(Worker)
<1>1. IsFiniteSet(Worker) /\ Alive \subseteq Worker
  BY ServiceAssumption DEF Alive
<1>2. /\ IsFiniteSet(Alive)
      /\ Cardinality(Alive) <= Cardinality(Worker)
      /\ Cardinality(Alive) = Cardinality(Worker) => Alive = Worker
  BY <1>1, FS_Subset
<1>3. Cardinality(Worker) \in Nat /\ Cardinality(Alive) \in Nat
  BY <1>1, <1>2, FS_CardinalityType
<1>4. ASSUME NEW w \in Worker, worker[w] # "running" PROVE Alive # Worker
  BY <1>4 DEF Alive
<1> QED BY <1>2, <1>3, <1>4

LEMMA SpendTyped ==
  ASSUME TypeOK, NEW kind \in Mishap, Spend(kind)
  PROVE  used' \in [Mishap -> Nat]
<1>1. used[kind] + 1 \in Nat
  BY DEF TypeOK
<1> QED BY <1>1 DEF Spend, TypeOK

LEMMA TypeInit == Init => TypeOK
<1> SUFFICES ASSUME Init PROVE TypeOK
  OBVIOUS
<1>1. Cardinality(Worker) \in Nat
  BY ServiceAssumption, FS_CardinalityType
<1>2. bucket \in [Object -> Content] /\ fetched \in [Object -> Content \cup {None}]
  BY DEF Init, Content
<1>3. worker \in [Worker -> {"none", "running", "dead", "exited"}]
  BY DEF Init
<1>4. used \in [Mishap -> Nat]
  BY DEF Init
<1>5. counted \in 0..Cardinality(Worker)
  BY <1>1 DEF Init
<1> QED BY <1>2, <1>3, <1>4, <1>5 DEF Init, TypeOK

LEMMA TypeBootstrap == TypeOK /\ PublishedIsAccepted /\ Bootstrap => TypeOK'
<1> SUFFICES ASSUME TypeOK, PublishedIsAccepted, Bootstrap PROVE TypeOK'
  OBVIOUS
<1> USE DEF TypeOK, appState, pool, request, BootTo, Object
<1>1. CASE CheckStop
  BY <1>1 DEF CheckStop
<1>2. ASSUME NEW o \in Object, NEW next \in {"manifest", "build"}, Fetch(o, next)
      PROVE  TypeOK'
  BY <1>2 DEF Fetch
<1>3. CASE NotAvailable
  BY <1>3 DEF NotAvailable
<1>4. CASE FetchFails
  BY <1>4, SpendTyped DEF FetchFails, Mishap
<1>5. CASE BodyDrops
  BY <1>5, SpendTyped DEF BodyDrops, Mishap
<1>6. CASE Waited
  BY <1>6 DEF Waited
<1>7. CASE Build
  BY <1>7 DEF Build, Accepted
<1>8. CASE SetRules
  BY <1>8 DEF SetRules, PublishedIsAccepted, Accepted
<1>9. CASE SetManifest
  BY <1>9 DEF SetManifest, PublishedIsAccepted, Accepted
<1>10. CASE StartWorkers
  BY <1>10 DEF StartWorkers
<1>11. CASE SetScaler
  BY <1>11 DEF SetScaler
<1> QED
  BY <1>1, <1>2, <1>3, <1>4, <1>5, <1>6, <1>7, <1>8, <1>9, <1>10, <1>11 DEF Bootstrap

LEMMA TypeShutdown == TypeOK /\ (BeginShutdown \/ Shutdown \/ Over) => TypeOK'
<1> SUFFICES ASSUME TypeOK, BeginShutdown \/ Shutdown \/ Over PROVE TypeOK'
  OBVIOUS
<1> USE DEF TypeOK, appState, pool, request, MainTo
<1>1. CASE BeginShutdown
  BY <1>1 DEF BeginShutdown
<1>2. CASE StopScaler
  BY <1>2 DEF StopScaler
<1>3. CASE JoinWorkers
  BY <1>3, SpendTyped DEF JoinWorkers, Mishap
<1>4. CASE JoinBootstrap
  BY <1>4, SpendTyped DEF JoinBootstrap, Mishap
<1>5. CASE Over
  BY <1>5 DEF Over, vars
<1> QED BY <1>1, <1>2, <1>3, <1>4, <1>5 DEF Shutdown

LEMMA TypeOthers ==
  TypeOK /\ (\/ \E w \in Worker : WorkerExits(w) \/ WorkerDies(w)
             \/ Health
             \/ Edit) => TypeOK'
<1> SUFFICES ASSUME TypeOK,
                    \/ \E w \in Worker : WorkerExits(w) \/ WorkerDies(w)
                    \/ Health
                    \/ Edit
             PROVE  TypeOK'
  OBVIOUS
<1> USE DEF TypeOK, appState, pool, request
<1>1. ASSUME NEW w \in Worker, WorkerExits(w) PROVE TypeOK'
  BY <1>1 DEF WorkerExits
<1>2. ASSUME NEW w \in Worker, WorkerDies(w) PROVE TypeOK'
  BY <1>2, SpendTyped DEF WorkerDies, Mishap
<1>3. CASE HealthError
  BY <1>3 DEF HealthError
<1>4. CASE HealthCount
  <2>1. counted' \in 0..Cardinality(Worker)
    BY <1>4, AliveBounded DEF HealthCount
  <2> QED BY <1>4, <2>1 DEF HealthCount
<1>5. CASE HealthAnswer
  BY <1>5 DEF HealthAnswer
<1>6. CASE HealthDone
  <2>1. Cardinality(Worker) \in Nat
    BY AliveBounded
  <2> QED BY <1>6, <2>1 DEF HealthDone
<1>7. CASE Edit
  BY <1>7 DEF Edit
<1> QED BY <1>1, <1>2, <1>3, <1>4, <1>5, <1>6, <1>7 DEF Health
-----------------------------------------------------------------------------
(* Safety. *)

LEMMA SafeInit == Init => Safe
BY DEF Init, Safe, PublishedIsAccepted, StartedOnce, PublishedIsStarted, ToldIsJoined,
       JoinedHaveEnded, NoAnswerYet

\* The bootstrap thread.
LEMMA SafeBootstrap == IInv /\ Bootstrap => Safe'
<1> SUFFICES ASSUME IInv, Bootstrap PROVE Safe'
  OBVIOUS
<1> USE DEF IInv, TypeOK, Safe, PublishedIsAccepted, StartedOnce, PublishedIsStarted,
            ToldIsJoined, JoinedHaveEnded, NoAnswerYet, appState, pool, request, BootTo, Object
<1>1. CASE CheckStop
  BY <1>1 DEF CheckStop
<1>2. ASSUME NEW o \in Object, NEW next \in {"manifest", "build"}, Fetch(o, next)
      PROVE  Safe'
  BY <1>2 DEF Fetch
<1>3. CASE NotAvailable
  BY <1>3 DEF NotAvailable
<1>4. ASSUME FetchFails \/ BodyDrops PROVE Safe'
  <2>1. used'["slow"] = used["slow"]
    BY <1>4 DEF FetchFails, BodyDrops, Spend, Mishap
  <2> QED BY <1>4, <2>1 DEF FetchFails, BodyDrops
<1>5. CASE Waited
  BY <1>5 DEF Waited
<1>6. CASE Build
  BY <1>6 DEF Build, Accepted
<1>7. CASE SetRules
  BY <1>7 DEF SetRules, Accepted
<1>8. CASE SetManifest
  BY <1>8 DEF SetManifest
<1>9. CASE StartWorkers
  BY <1>9 DEF StartWorkers
<1>10. CASE SetScaler
  BY <1>10 DEF SetScaler
<1> QED
  BY <1>1, <1>2, <1>3, <1>4, <1>5, <1>6, <1>7, <1>8, <1>9, <1>10 DEF Bootstrap

\* The main thread.
LEMMA SafeShutdown == IInv /\ (BeginShutdown \/ Shutdown \/ Over) => Safe'
<1> SUFFICES ASSUME IInv, BeginShutdown \/ Shutdown \/ Over PROVE Safe'
  OBVIOUS
<1> USE DEF IInv, TypeOK, Safe, PublishedIsAccepted, StartedOnce, PublishedIsStarted,
            ToldIsJoined, JoinedHaveEnded, NoAnswerYet, Accepted, appState, pool, request, MainTo
<1>1. CASE BeginShutdown
  BY <1>1 DEF BeginShutdown
<1>2. CASE StopScaler
  BY <1>2 DEF StopScaler
<1>3. CASE JoinWorkers
  <2>1. CASE \E w \in listed : worker[w] = "running"
    <3>1. used'["slow"] = used["slow"] + 1 /\ used["slow"] \in Nat
      BY <1>3, <2>1 DEF JoinWorkers, Spend, Mishap
    <3>2. used'["slow"] # 0
      BY <3>1
    <3> QED BY <1>3, <3>2 DEF JoinWorkers
  <2>2. CASE \A w \in listed : worker[w] # "running"
    BY <1>3, <2>2 DEF JoinWorkers
  <2> QED BY <2>1, <2>2
<1>4. CASE JoinBootstrap
  <2>1. used'["slow"] = 0 => used["slow"] = 0
    BY <1>4 DEF JoinBootstrap, Spend, Mishap
  <2> QED BY <1>4, <2>1 DEF JoinBootstrap
<1>5. CASE Over
  BY <1>5 DEF Over, vars
<1> QED BY <1>1, <1>2, <1>3, <1>4, <1>5 DEF Shutdown

\* Workers, requests and edits.
LEMMA SafeOthers ==
  IInv /\ (\/ \E w \in Worker : WorkerExits(w) \/ WorkerDies(w)
           \/ Health
           \/ Edit) => Safe'
<1> SUFFICES ASSUME IInv,
                    \/ \E w \in Worker : WorkerExits(w) \/ WorkerDies(w)
                    \/ Health
                    \/ Edit
             PROVE  Safe'
  OBVIOUS
<1> USE DEF IInv, TypeOK, Safe, PublishedIsAccepted, StartedOnce, PublishedIsStarted,
            ToldIsJoined, JoinedHaveEnded, NoAnswerYet, Accepted, appState, pool, request
<1>1. ASSUME NEW w \in Worker, WorkerExits(w) PROVE Safe'
  BY <1>1 DEF WorkerExits
<1>2. ASSUME NEW w \in Worker, WorkerDies(w) PROVE Safe'
  <2>1. used'["slow"] = used["slow"]
    BY <1>2 DEF WorkerDies, Spend, Mishap
  <2> QED BY <1>2, <2>1 DEF WorkerDies
<1>3. CASE Health
  BY <1>3 DEF Health, HealthError, HealthCount, HealthAnswer, HealthDone
<1>4. CASE Edit
  BY <1>4 DEF Edit
<1> QED BY <1>1, <1>2, <1>3, <1>4

LEMMA Stutter == IInv /\ UNCHANGED vars => IInv'
BY DEF IInv, TypeOK, Safe, PublishedIsAccepted, StartedOnce, PublishedIsStarted,
       ToldIsJoined, JoinedHaveEnded, NoAnswerYet, Accepted, vars, appState, pool, request

LEMMA ServiceInvariant == Spec => []IInv
<1>1. Init => IInv
  BY TypeInit, SafeInit DEF IInv
<1>2. IInv /\ [Next]_vars => IInv'
  <2>1. IInv => TypeOK /\ PublishedIsAccepted
    BY DEF IInv, Safe
  <2>2. IInv /\ Next => TypeOK'
    BY <2>1, TypeBootstrap, TypeShutdown, TypeOthers DEF Next
  <2>3. IInv /\ Next => Safe'
    BY SafeBootstrap, SafeShutdown, SafeOthers DEF Next
  <2> QED BY <2>2, <2>3, Stutter DEF IInv
<1> QED BY <1>1, <1>2, PTL DEF Spec

-----------------------------------------------------------------------------
(* Theorems. *)

\* Every variable keeps its type; in particular only a configuration that
\* passed validation becomes AppState.rules and AppState.manifest.
THEOREM ServiceTypeCorrect == Spec => []TypeOK
<1>1. IInv => TypeOK
  BY DEF IInv
<1> QED BY <1>1, ServiceInvariant, PTL

\* A shutdown of a published scaler, none of whose joins times out, leaves no
\* worker running (main.py:138-142).
THEOREM ShutdownLeavesNoWorker == Spec => []OrderlyShutdown
<1>1. IInv => OrderlyShutdown
  BY DEF IInv, Safe, JoinedHaveEnded, OrderlyShutdown
<1> QED BY <1>1, ServiceInvariant, PTL

\* Once an error is on /health, no worker is ever started (main.py:109-113).
THEOREM ErrorIsFinal == Spec => FailureIsFinal
<1> DEFINE Failed  == failed
           NoStart == \A w \in Worker : worker[w] = "none"
           Ended   == boot = "ended" /\ NoStart
<1>1. IInv /\ Failed => Ended
  BY DEF IInv, Safe, StartedOnce
<1>2. Ended /\ [Next]_vars => Ended'
  <2> SUFFICES ASSUME Ended, [Next]_vars PROVE Ended'
    OBVIOUS
  <2> USE DEF appState, pool, request, vars, BootTo, MainTo, Object
  <2>1. CASE Bootstrap
    BY <2>1 DEF Bootstrap, CheckStop, Fetch, NotAvailable, FetchFails, BodyDrops, Waited,
                Build, SetRules, SetManifest, StartWorkers, SetScaler
  <2>2. CASE BeginShutdown \/ Shutdown \/ Over
    BY <2>2 DEF BeginShutdown, Shutdown, StopScaler, JoinWorkers, JoinBootstrap, Over
  <2>3. CASE \E w \in Worker : WorkerExits(w) \/ WorkerDies(w)
    BY <2>3 DEF WorkerExits, WorkerDies
  <2>4. CASE Health
    BY <2>4 DEF Health, HealthError, HealthCount, HealthAnswer, HealthDone
  <2>5. CASE Edit
    BY <2>5 DEF Edit
  <2> QED BY <2>1, <2>2, <2>3, <2>4, <2>5 DEF Next
<1>3. Ended => NoStart
  OBVIOUS
<1>4. Spec => [](Failed => []NoStart)
  <2> HIDE DEF Failed, NoStart, Ended
  <2> QED BY <1>1, <1>2, <1>3, ServiceInvariant, PTL DEF Spec
<1> QED BY <1>4 DEF FailureIsFinal

\* A stop that finds the bootstrap thread before its check or in its wait keeps
\* it from starting the workers (main.py:86, 106).
THEOREM StopIsHeeded == Spec => StopHoldsBack
<1> DEFINE NoStart == \A w \in Worker : worker[w] = "none"
           Held    == stopping /\ boot \in {"check", "wait"}
           Off     == stopping /\ boot \in {"check", "wait", "ended"} /\ NoStart
<1>1. IInv /\ Held => Off
  BY DEF IInv, Safe, StartedOnce
<1>2. Off /\ [Next]_vars => Off'
  <2> SUFFICES ASSUME Off, [Next]_vars PROVE Off'
    OBVIOUS
  <2> USE DEF appState, pool, request, vars, BootTo, MainTo, Object
  <2>1. CASE Bootstrap
    BY <2>1 DEF Bootstrap, CheckStop, Fetch, NotAvailable, FetchFails, BodyDrops, Waited,
                Build, SetRules, SetManifest, StartWorkers, SetScaler
  <2>2. CASE BeginShutdown \/ Shutdown \/ Over
    BY <2>2 DEF BeginShutdown, Shutdown, StopScaler, JoinWorkers, JoinBootstrap, Over
  <2>3. CASE \E w \in Worker : WorkerExits(w) \/ WorkerDies(w)
    BY <2>3 DEF WorkerExits, WorkerDies
  <2>4. CASE Health
    BY <2>4 DEF Health, HealthError, HealthCount, HealthAnswer, HealthDone
  <2>5. CASE Edit
    BY <2>5 DEF Edit
  <2> QED BY <2>1, <2>2, <2>3, <2>4, <2>5 DEF Next
<1>3. Off => NoStart
  OBVIOUS
<1>4. Spec => [](Held => []NoStart)
  <2> HIDE DEF Held, NoStart, Off
  <2> QED BY <1>1, <1>2, <1>3, ServiceInvariant, PTL DEF Spec
<1> QED BY <1>4 DEF StopHoldsBack

\* A request that begins after a worker died is not answered "ok"
\* (main.py:151-157), although it reads AppState in several steps.
THEOREM DeathShowsOnHealth == Spec => DeathIsReported
<1> DEFINE Dead     == \E w \in Worker : worker[w] = "dead"
           Asked    == Dead /\ health = "idle"
           NotOk    == answer # Answer(200, "ok")
           Reported == Dead /\ NotOk /\ (health = "answer" => counted < Cardinality(Worker))
<1>1. NoAnswer # Answer(200, "ok")
  BY DEF NoAnswer, Answer
<1>2. IInv /\ Asked => Reported
  BY <1>1 DEF IInv, Safe, NoAnswerYet
<1>3. IInv /\ Reported /\ [Next]_vars => Reported'
  <2> SUFFICES ASSUME IInv, Reported, [Next]_vars PROVE Reported'
    OBVIOUS
  <2> USE DEF appState, pool, request, vars, BootTo, MainTo, Object
  <2>1. CASE Bootstrap
    <3>1. ~StartWorkers
      BY DEF IInv, Safe, StartedOnce, StartWorkers
    <3>2. UNCHANGED <<worker, health, counted, answer>>
      BY <2>1, <3>1 DEF Bootstrap, CheckStop, Fetch, NotAvailable, FetchFails, BodyDrops,
                        Waited, Build, SetRules, SetManifest, SetScaler
    <3> QED BY <3>2
  <2>2. CASE BeginShutdown \/ Shutdown \/ Over
    BY <2>2 DEF BeginShutdown, Shutdown, StopScaler, JoinWorkers, JoinBootstrap, Over
  <2>3. CASE \E w \in Worker : WorkerExits(w) \/ WorkerDies(w)
    BY <2>3 DEF WorkerExits, WorkerDies, IInv, TypeOK
  <2>4. CASE HealthError
    BY <1>1, <2>4 DEF HealthError, Answer
  <2>5. CASE HealthCount
    <3>1. Cardinality(Worker) \in Nat /\ Cardinality(Alive) < Cardinality(Worker)
      BY AliveBounded DEF IInv, TypeOK
    <3>2. Cardinality(Worker) # 0
      BY ServiceAssumption, FS_EmptySet
    <3>3. counted' < Cardinality(Worker)
      BY <2>5, <3>1, <3>2 DEF HealthCount
    <3> QED BY <2>5, <3>3 DEF HealthCount
  <2>6. CASE HealthAnswer
    BY <2>6 DEF HealthAnswer, Answer
  <2>7. CASE HealthDone
    BY <1>1, <2>7 DEF HealthDone
  <2>8. CASE Edit
    BY <2>8 DEF Edit
  <2> QED BY <2>1, <2>2, <2>3, <2>4, <2>5, <2>6, <2>7, <2>8 DEF Next, Health
<1>4. Reported => NotOk
  OBVIOUS
<1>5. Spec => [](Asked => []NotOk)
  <2> HIDE DEF Asked, Reported, NotOk
  <2> QED BY <1>2, <1>3, <1>4, ServiceInvariant, PTL DEF Spec
<1> QED BY <1>5 DEF DeathIsReported
=============================================================================
