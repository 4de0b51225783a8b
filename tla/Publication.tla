----------------------------- MODULE Publication -----------------------------
(***************************************************************************)
(* What the service promises to whoever reads the decisions table and      *)
(* waits for the announcement (README sections 2 and 7, and the module   *)
(* docstring of engine/scaler.py): the output of each cluster appears in   *)
(* the table piece by piece, a cluster is finished only when its whole     *)
(* output is there, nothing is written for a finished cluster, and the     *)
(* announcement follows the last cluster.  A restarted process knows of no *)
(* finished cluster; the table it leaves alone.                            *)
(***************************************************************************)
CONSTANTS Cluster,   \* the clusters of the manifest
          Output     \* cluster -> the items its walk yields

VARIABLES table,      \* the items published so far
          finished,   \* the clusters known to be finished
          announced   \* whether the end of the run has been announced

vars == <<table, finished, announced>>

Init == /\ table = {}
        /\ finished = {}
        /\ announced = FALSE

Publish(c) ==
  /\ c \notin finished
  /\ \E items \in SUBSET Output[c] : table' = table \cup items
  /\ UNCHANGED <<finished, announced>>

Finish(c) ==
  /\ Output[c] \subseteq table
  /\ finished' = finished \cup {c}
  /\ UNCHANGED <<table, announced>>

Announce ==
  /\ finished = Cluster
  /\ announced' = TRUE
  /\ UNCHANGED <<table, finished>>

Restart ==
  /\ finished' = {}
  /\ announced' = FALSE
  /\ UNCHANGED table

Next == \/ \E c \in Cluster : Publish(c) \/ Finish(c)
        \/ Announce
        \/ Restart

Spec == Init /\ [][Next]_vars
=============================================================================
