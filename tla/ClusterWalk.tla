----------------------------- MODULE ClusterWalk -----------------------------
(***************************************************************************)
(* README section 6 taken literally: all records of a cluster, deduplicated *)
(* and sorted, are walked one by one, each evaluated against the whole     *)
(* record set (evaluate_cluster of engine/decision_engine.py, given a      *)
(* fully buffered record set).  The decision taken at a point, and what it *)
(* leaves behind, are parameters: DecisionRules defines them.              *)
(***************************************************************************)
CONSTANTS
  SortsBefore(_, _),   \* the order of the walk
  Decide(_, _, _),     \* record set, evaluation point, state -> decision
  StateAfter(_, _),    \* state, decision -> state
  Extend(_, _),        \* decisions so far, decision -> decisions
  StartState           \* the state before the first point

VARIABLES
  records,     \* the record set, which does not change
  walked,      \* the records evaluated so far
  state,       \* ClusterState
  decisions    \* the decisions yielded so far

vars == <<records, walked, state, decisions>>

Init == /\ walked = {}
        /\ state = StartState
        /\ decisions = <<>>

\* The next evaluation point is the earliest record not yet walked.
Evaluate(r) ==
  /\ r \in records \ walked
  /\ \A s \in records \ walked : s = r \/ SortsBefore(r, s)
  /\ walked' = walked \cup {r}
  /\ state' = StateAfter(state, Decide(records, r, state))
  /\ decisions' = Extend(decisions, Decide(records, r, state))
  /\ UNCHANGED records

Next == \E r \in records : Evaluate(r)

Spec == Init /\ [][Next]_vars
=============================================================================
