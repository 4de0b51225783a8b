---------------------------- MODULE StartupProofs ----------------------------
(***************************************************************************)
(* For every set of log files and every number of runs of seed.py, each of *)
(* which may end between any two of its calls: the script does not disturb *)
(* what the service promises, and what it announces is in place.           *)
(***************************************************************************)
EXTENDS Startup, ServiceProofs

USE DEF Seeding!script, Seeding!resources, Seeding!StepTo, Seeding!Exit

\* Types of what the order of the script is about.
SeedTyped ==
  /\ bucket \in [Object -> Content]
  /\ logs \subseteq File /\ keys \subseteq File
  /\ announced \in [File -> Nat]
  /\ table \in BOOLEAN /\ reset \in BOOLEAN

NoneAnnounced == \A f \in File : announced[f] = 0

\* Only a queue that is there has messages, and the script has none on it
\* while it makes the table and uploads.
EmptyMeanwhile ==
  /\ queue # "present" => NoneAnnounced
  /\ step \in {"createQueue", "table", "createTable", "manifest", "rules", "logs"} =>
       NoneAnnounced

\* What the script has done before it gets to a step.
DoneBefore ==
  /\ step \notin {"logs", "enqueue"} => keys = {}
  /\ step \in {"table", "createTable", "manifest", "rules", "logs", "enqueue"} =>
       queue = "present"
  /\ step \in {"manifest", "rules", "logs", "enqueue"} => table
  /\ step \in {"rules", "logs", "enqueue"} => bucket["manifest"] # "missing"
  /\ step \in {"logs", "enqueue"} => bucket["rules"] # "missing" /\ keys \subseteq logs

\* A file is announced once.
NotAgain == step = "enqueue" => \A f \in keys : announced[f] = 0

SeedSafe == /\ SeedTyped /\ EmptyMeanwhile /\ DoneBefore /\ NotAgain
            /\ AnnouncedIsInPlace

USE DEF SeedSafe, SeedTyped, NoneAnnounced, EmptyMeanwhile, DoneBefore, NotAgain,
        AnnouncedIsInPlace, Seeding!AnnouncedIsInPlace, Seeding!Emptied, Seeding!Loaded,
        Seeding!Nowhere, Object

LEMMA SeedSafeInit == StartupInit => SeedSafe
<1> SUFFICES ASSUME StartupInit PROVE SeedSafe
  OBVIOUS
<1>1. bucket \in [Object -> Content] /\ announced \in [File -> Nat]
  BY DEF StartupInit, Seeding!Init, Init, Content
<1>2. NoneAnnounced
  BY DEF StartupInit, Seeding!Init
<1>3. step = "over" /\ logs = {} /\ keys = {} /\ table = FALSE /\ reset = FALSE
  BY DEF StartupInit, Seeding!Init
<1>4. SeedTyped /\ EmptyMeanwhile /\ DoneBefore /\ NotAgain
  BY <1>1, <1>2, <1>3
<1>5. AnnouncedIsInPlace
  BY <1>2
<1> QED BY <1>4, <1>5

\* Up to the table, the script works on a queue without messages.
LEMMA SafeProvision ==
  SeedSafe /\ (\/ Seeding!Start \/ Seeding!Abort \/ Seeding!QueueGone \/ Seeding!WipePage
               \/ Seeding!DeleteQueue \/ Seeding!CreateQueue \/ Seeding!CreateRefused
               \/ Seeding!EnsureTable \/ Seeding!CreateTable) => SeedSafe'
<1> SUFFICES ASSUME SeedSafe,
                    \/ Seeding!Start \/ Seeding!Abort \/ Seeding!QueueGone \/ Seeding!WipePage
                    \/ Seeding!DeleteQueue \/ Seeding!CreateQueue \/ Seeding!CreateRefused
                    \/ Seeding!EnsureTable \/ Seeding!CreateTable
             PROVE  SeedSafe'
  OBVIOUS
<1>1. CASE Seeding!Start
  BY <1>1 DEF Seeding!Start
<1>2. CASE Seeding!Abort
  BY <1>2 DEF Seeding!Abort
<1>3. CASE Seeding!QueueGone
  BY <1>3 DEF Seeding!QueueGone
<1>4. CASE Seeding!WipePage
  <2>1. bucket' \in [Object -> Content] /\ \A o \in Object : bucket'[o] = "missing"
    BY <1>4 DEF Seeding!WipePage, Content
  <2> QED BY <1>4, <2>1 DEF Seeding!WipePage
<1>5. CASE Seeding!DeleteQueue
  BY <1>5 DEF Seeding!DeleteQueue
<1>6. CASE Seeding!CreateQueue
  BY <1>6 DEF Seeding!CreateQueue
<1>7. CASE Seeding!CreateRefused
  BY <1>7 DEF Seeding!CreateRefused
<1>8. CASE Seeding!EnsureTable
  BY <1>8 DEF Seeding!EnsureTable
<1>9. CASE Seeding!CreateTable
  BY <1>9 DEF Seeding!CreateTable
<1> QED BY <1>1, <1>2, <1>3, <1>4, <1>5, <1>6, <1>7, <1>8, <1>9

\* Then it uploads, and announces what it has uploaded.
LEMMA SafeLoad ==
  SeedSafe /\ (\/ Seeding!UploadConfig("manifest", "rules")
               \/ Seeding!UploadConfig("rules", "logs")
               \/ \E f \in File : Seeding!UploadLog(f) \/ Seeding!Enqueue(f)) => SeedSafe'
<1> SUFFICES ASSUME SeedSafe,
                    \/ Seeding!UploadConfig("manifest", "rules")
                    \/ Seeding!UploadConfig("rules", "logs")
                    \/ \E f \in File : Seeding!UploadLog(f) \/ Seeding!Enqueue(f)
             PROVE  SeedSafe'
  OBVIOUS
<1>1. ASSUME NEW o \in Object, NEW content \in Draft[o],
             bucket' = [bucket EXCEPT ![o] = content]
      PROVE  /\ bucket' \in [Object -> Content]
             /\ bucket'[o] # "missing"
             /\ \A other \in Object \ {o} : bucket'[other] = bucket[other]
  <2>1. content \in Content \ {"missing"}
    BY StartupAssumption
  <2> QED BY <1>1, <2>1
<1>2. CASE Seeding!UploadConfig("manifest", "rules")
  <2>1. bucket' \in [Object -> Content] /\ bucket'["manifest"] # "missing"
    BY <1>1, <1>2 DEF Seeding!UploadConfig
  <2> QED BY <1>2, <2>1 DEF Seeding!UploadConfig
<1>3. CASE Seeding!UploadConfig("rules", "logs")
  <2>1. /\ bucket' \in [Object -> Content] /\ bucket'["rules"] # "missing"
        /\ bucket'["manifest"] = bucket["manifest"]
    BY <1>1, <1>3 DEF Seeding!UploadConfig
  <2>3. NoneAnnounced'
    BY <1>3 DEF Seeding!UploadConfig
  <2>4. /\ step = "rules" /\ step' = "logs"
        /\ UNCHANGED <<logs, queue, announced, table, reset, keys>>
    BY <1>3 DEF Seeding!UploadConfig
  <2>5. SeedTyped' /\ DoneBefore'
    BY <2>1, <2>4
  <2> QED BY <2>3, <2>4, <2>5
<1>4. ASSUME NEW f \in File, Seeding!UploadLog(f) PROVE SeedSafe'
  BY <1>4 DEF Seeding!UploadLog
<1>5. ASSUME NEW f \in File, Seeding!Enqueue(f) PROVE SeedSafe'
  <2>1. /\ announced[f] = 0 /\ table /\ f \in logs
        /\ \A o \in Object : bucket[o] # "missing"
    BY <1>5 DEF Seeding!Enqueue
  <2>2. /\ announced' \in [File -> Nat]
        /\ announced'[f] = 1
        /\ \A other \in File \ {f} : announced'[other] = announced[other]
    BY <1>5, <2>1 DEF Seeding!Enqueue
  <2>3. keys' \subseteq keys \ {f}
    BY <1>5 DEF Seeding!Enqueue
  <2>4. queue = "present"
    BY <1>5 DEF Seeding!Enqueue
  <2>5. /\ step' \in {"over", "enqueue"} /\ reset' \in BOOLEAN
        /\ UNCHANGED <<bucket, logs, queue, table>>
    BY <1>5 DEF Seeding!Enqueue
  <2>6. SeedTyped' /\ EmptyMeanwhile' /\ DoneBefore'
    BY <1>5, <2>1, <2>2, <2>3, <2>4, <2>5 DEF Seeding!Enqueue
  <2>7. NotAgain'
    BY <1>5, <2>2, <2>3 DEF Seeding!Enqueue
  <2>8. AnnouncedIsInPlace'
    BY <2>1, <2>2, <2>5
  <2> QED BY <2>6, <2>7, <2>8
<1> QED BY <1>2, <1>3, <1>4, <1>5
-----------------------------------------------------------------------------
(* Theorems. *)

\* A step of the service leaves the script alone.
LEMMA ServiceStepKeepsBucket == ServiceStep => UNCHANGED <<bucket, seedVars>>
<1> USE DEF BootTo, MainTo, vars
<1>1. Bootstrap => UNCHANGED bucket
  BY DEF Bootstrap, CheckStop, Fetch, NotAvailable, FetchFails, BodyDrops, Waited,
         Build, SetRules, SetManifest, StartWorkers, SetScaler
<1>2. BeginShutdown \/ Shutdown \/ Over => UNCHANGED bucket
  BY DEF BeginShutdown, Shutdown, StopScaler, JoinWorkers, JoinBootstrap, Over
<1>3. (\E w \in Worker : WorkerExits(w) \/ WorkerDies(w)) => UNCHANGED bucket
  BY DEF WorkerExits, WorkerDies
<1>4. Health => UNCHANGED bucket
  BY DEF Health, HealthError, HealthCount, HealthAnswer, HealthDone
<1> QED BY <1>1, <1>2, <1>3, <1>4 DEF ServiceStep

LEMMA SeedInvariant == StartupSpec => []SeedSafe
<1>1. SeedSafe /\ [ServiceStep \/ SeedStep]_<<vars, seedVars>> => SeedSafe'
  <2> SUFFICES ASSUME SeedSafe, [ServiceStep \/ SeedStep]_<<vars, seedVars>> PROVE SeedSafe'
    OBVIOUS
  <2>1. CASE SeedStep
    BY <2>1, SafeProvision, SafeLoad DEF SeedStep, Seeding!Next
  <2>2. CASE ServiceStep \/ UNCHANGED <<vars, seedVars>>
    <3>1. UNCHANGED <<bucket, logs, queue, announced, table, step, reset, keys>>
      BY <2>2, ServiceStepKeepsBucket DEF vars, seedVars
    <3> QED BY <3>1
  <2> QED BY <2>1, <2>2
<1> QED BY <1>1, SeedSafeInit, PTL DEF StartupSpec

\* However often seed.py is run, and wherever it fails, a file is announced at
\* most once, and only while the service can read it and record what it decides
\* (seed.py:55-56, 139-143).
THEOREM AnnouncedFilesAreInPlace == StartupSpec => []AnnouncedIsInPlace
<1>1. SeedSafe => AnnouncedIsInPlace
  OBVIOUS
<1> QED BY <1>1, SeedInvariant, PTL

\* Next to seed.py the service is the Service of module ServiceProofs, whose
\* theorems hold of it: each of the script's steps is one that Service allows
\* its operator.
THEOREM StartupIsAService == StartupSpec => Spec
<1>1. StartupInit => Init
  BY DEF StartupInit
<1>2. SeedSafe' /\ [ServiceStep \/ SeedStep]_<<vars, seedVars>> => [Next]_vars
  <2> SUFFICES ASSUME SeedSafe', [ServiceStep \/ SeedStep]_<<vars, seedVars>> PROVE [Next]_vars
    OBVIOUS
  <2>1. CASE ServiceStep
    BY <2>1 DEF ServiceStep, Next
  <2>2. CASE SeedStep
    BY <2>2 DEF SeedStep, Edit, Next
  <2>3. CASE UNCHANGED <<vars, seedVars>>
    BY <2>3
  <2> QED BY <2>1, <2>2, <2>3
<1> QED
  <2> HIDE DEF SeedSafe
  <2> QED BY <1>1, <1>2, SeedInvariant, PTL DEF StartupSpec, Spec
=============================================================================
