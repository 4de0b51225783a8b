------------------------------- MODULE Startup -------------------------------
(***************************************************************************)
(* The service (module Service) and seed.py (module Seed) on one bucket:   *)
(* the containers start first, the script is run while the bootstrap       *)
(* thread probes the bucket, and may be run again later.  The script's     *)
(* steps are all that changes the bucket.                                  *)
(***************************************************************************)
EXTENDS Service

CONSTANTS File, Draft, MaxTries, MaxRuns   \* of module Seed

ASSUME StartupAssumption == /\ Draft \in [Object -> SUBSET (Content \ {"missing"})]
                            /\ MaxTries \in Nat \ {0}
                            /\ MaxRuns \in Nat

VARIABLES logs, queue, announced, table, step, reset, keys, tries, runs

Seeding == INSTANCE Seed

seedVars == <<logs, queue, announced, table, step, reset, keys, tries, runs>>

AnnouncedIsInPlace == Seeding!AnnouncedIsInPlace

StartupInit == Init /\ Seeding!Init

\* A step of the service: any of its own, but none of its operator's.
ServiceStep ==
  /\ \/ Bootstrap
     \/ BeginShutdown \/ Shutdown \/ Over
     \/ \E w \in Worker : WorkerExits(w) \/ WorkerDies(w)
     \/ Health
  /\ UNCHANGED seedVars

\* A step of the script is an edit to the service, or does not concern it.
SeedStep ==
  /\ Seeding!Next
  /\ UNCHANGED <<fetched, appState, boot, main, pool, request, used>>

StartupSpec == StartupInit /\ [][ServiceStep \/ SeedStep]_<<vars, seedVars>> /\ Fairness
=============================================================================
