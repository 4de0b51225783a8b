---------------------------- MODULE DecisionRules ----------------------------
(***************************************************************************)
(* The pure part of engine/decision_engine.py: README sections 6.2 to 6.4  *)
(* at one evaluation point.  Time is in minutes.  A record is              *)
(*   [batch |-> batchId, ts |-> its timestamp, metrics |-> its metrics]    *)
(* with Absent for a metric it does not carry; a record may have further   *)
(* fields, which nothing here looks at.  A cluster runs one query (README  *)
(* 4.3), so batchId alone identifies a report.  Metric values are integers: *)
(* the model has no rounding, and an average is kept as a fraction.        *)
(***************************************************************************)
EXTENDS Integers, Sequences, FiniteSetsExt

CONSTANTS
  Rules,    \* the rules of rules.yaml, in file order
  Absent    \* the value of a metric a record does not carry

\* validate_rules.
IsRule(rule) ==
  /\ rule.aggregation \in {"avg", "max", "min", "last"}
  /\ rule.operator \in {"gt", "lt"}
  /\ rule.threshold \in Int
  /\ rule.window \in Nat \ {0}
  /\ rule.minBatches \in Nat \ {0}
  /\ rule.target \in Nat
  /\ rule.cooldown \in Nat

ASSUME RulesAssumption == \A i \in DOMAIN Rules : IsRule(Rules[i])
ASSUME RulesSequence   == Len(Rules) \in Nat /\ DOMAIN Rules = 1..Len(Rules)

\* sort_key: ascending by (timestamp, batchId).
SortsBefore(r, s) == r.ts < s.ts \/ (r.ts = s.ts /\ r.batch < s.batch)

-----------------------------------------------------------------------------
\* 6.3: does a rule's condition hold?

Window(pool, at, minutes) == {r \in pool : at - minutes < r.ts /\ r.ts <= at}

Carrying(records, metric) == {r \in records : r.metrics[metric] # Absent}

Latest(records) == CHOOSE r \in records : \A s \in records : ~SortsBefore(r, s)

\* aggregate, as the fraction num / den.
Aggregate(rule, records) ==
  LET value(r) == r.metrics[rule.metric]
      values   == {value(r) : r \in records}
  IN  CASE rule.aggregation = "avg"  -> [num |-> MapThenSumSet(value, records),
                                         den |-> Cardinality(records)]
        [] rule.aggregation = "max"  -> [num |-> Max(values), den |-> 1]
        [] rule.aggregation = "min"  -> [num |-> Min(values), den |-> 1]
        [] rule.aggregation = "last" -> [num |-> value(Latest(records)), den |-> 1]

\* compare: both operators are strict.
Compare(fraction, operator, threshold) ==
  IF operator = "gt" THEN fraction.num > threshold * fraction.den
                     ELSE fraction.num < threshold * fraction.den

\* evaluate_rule on the records of its window.
HoldsOn(rule, window) ==
  LET carrying == Carrying(window, rule.metric)
  IN  /\ Cardinality(carrying) >= rule.minBatches
      /\ Compare(Aggregate(rule, carrying), rule.operator, rule.threshold)

\* condition_holds.
Holds(rule, pool, at) == HoldsOn(rule, Window(pool, at, rule.window))

-----------------------------------------------------------------------------
\* 6.2 and 6.4: the first rule that holds, and its gates.

Never == -1

\* ClusterState.
InitialState(workers) == [workers |-> workers, last |-> Never]

Matching(pool, at) == {i \in DOMAIN Rules : Holds(Rules[i], pool, at)}

\* Deviation: no cooldown.
IdempotenceOnly(rule, state, at) == rule.target # state.workers

\* Deviation: no idempotence gate.
CooldownOnly(rule, state, at) == state.last = Never \/ at >= state.last + rule.cooldown

\* gate_outcome = "decision".
GatesAllow(rule, state, at) ==
  /\ rule.target # state.workers
  /\ state.last = Never \/ at >= state.last + rule.cooldown

NoDecision == [rule |-> 0]

\* _evaluate_point: the first matching rule alone is put to the gates.
Decide(pool, record, state) ==
  LET at == record.ts
      i  == Min(Matching(pool, at))
  IN  IF Matching(pool, at) # {} /\ GatesAllow(Rules[i], state, at)
      THEN [rule |-> i, ts |-> at, from |-> state.workers, to |-> Rules[i].target]
      ELSE NoDecision

StateAfter(state, decision) ==
  IF decision = NoDecision THEN state
                           ELSE [workers |-> decision.to, last |-> decision.ts]

Extend(decisions, decision) ==
  IF decision = NoDecision THEN decisions ELSE Append(decisions, decision)

\* max_window_minutes.
MaxWindow == Max({Rules[i].window : i \in DOMAIN Rules} \cup {0})
=============================================================================
