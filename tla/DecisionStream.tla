--------------------------- MODULE DecisionStream ---------------------------
(***************************************************************************)
(* evaluate_stream of engine/decision_engine.py: the walk of a cluster     *)
(* whose records arrive file by file.  What lies before the earliest new   *)
(* record of the file just read is evaluated, against a pool that holds    *)
(* only the look-back of the largest window.                               *)
(*                                                                         *)
(* The files are the variable log, chosen at the start and never changed:  *)
(* log[f] is the set of records of the f-th file in reading order, as      *)
(* module Records has them.                                                *)
(***************************************************************************)
EXTENDS DecisionRules, Records

CONSTANTS
  Logs,            \* the inputs considered
  InitialWorkers,  \* initial_workers of the cluster
  Margin,          \* the two hours added to the look-back for dedup keys
  HourLength       \* how long one file is written to

ASSUME LogsAssumption ==
  /\ \A l \in Logs :
       /\ Len(l) \in Nat /\ DOMAIN l = 1..Len(l)
       /\ IsFiniteSet(AllRecords(l))
       /\ \A r \in AllRecords(l) : r.ts \in Nat /\ r.batch \in Nat /\ r.nth \in Nat
       /\ \A r, s \in AllRecords(l) :
            SameReport(r, s) => r.ts = s.ts /\ r.metrics = s.metrics
       /\ \A f, g \in DOMAIN l : \A r \in l[f] : \A s \in l[g] :
            /\ f < g => r.nth < s.nth
            /\ r.nth = s.nth => r = s
  /\ InitialWorkers \in Nat
  /\ Margin \in Nat \ {0}
  /\ HourLength \in Nat \ {0}

\* What the docstring asks for (decision_engine.py:318-320): a record is
\* logged into its own hour's file or into the next one.
OwnOrNext(l) ==
  /\ OneOverlap(l)
  /\ \A f \in DOMAIN l : \A r \in FirstIn(l, f) :
       r.ts \div HourLength + 1 \in {f, f - 1}

-----------------------------------------------------------------------------
VARIABLES
  log,        \* the files, in the order they are read
  next,       \* how many of them have been read
  pending,    \* known records not evaluated yet
  evaluated,  \* evaluated records kept as look-back
  seen,       \* the records behind the dedup keys kept
  ready,      \* during a flush: the records it still has to evaluate
  pool,       \* during a flush: what it evaluates them against
  before,     \* the bound of the flush, or NoBound
  state,      \* ClusterState
  decisions,  \* the decisions yielded so far
  pc          \* "read", "flush" or "done"

held == <<pending, evaluated, seen>>
vars == <<log, next, held, ready, pool, before, state, decisions, pc>>

NoBound == -1

\* Deviation: records at the bound are due as well.
BelowOrAt(r, bound) == bound = NoBound \/ r.ts <= bound

Below(r, bound) == bound = NoBound \/ r.ts < bound

Earliest(records) == Min({r.ts : r \in records})

InitWith(logs) ==
  /\ log \in logs
  /\ next = 0
  /\ pending = {} /\ evaluated = {} /\ seen = {}
  /\ ready = {} /\ pool = {}
  /\ before = NoBound
  /\ state = InitialState(InitialWorkers)
  /\ decisions = <<>>
  /\ pc = "read"

\* Deviation: what is due is not taken out of pending.
StartFlushKeeping(bound, waiting, otherwise) ==
  LET due == {r \in waiting : Below(r, bound)}
  IN  /\ before' = bound
      /\ ready' = due
      /\ pending' = waiting
      /\ pool' = IF due = {} THEN {} ELSE evaluated \cup due
      /\ pc' = IF due = {} THEN otherwise ELSE "flush"

\* The beginning of flush(bound), given the records pending then.  With
\* nothing to evaluate it returns at once, and prunes nothing.
StartFlush(bound, waiting, otherwise) ==
  LET due == {r \in waiting : Below(r, bound)}
  IN  /\ before' = bound
      /\ ready' = due
      /\ pending' = waiting \ due
      /\ pool' = IF due = {} THEN {} ELSE evaluated \cup due
      /\ pc' = IF due = {} THEN otherwise ELSE "flush"

\* One turn of the batch loop, up to the flush.
ReadFile ==
  /\ pc = "read"
  /\ next < Len(log)
  /\ next' = next + 1
  /\ LET new == {r \in FirstCopies(log[next + 1]) : \A s \in seen : ~SameReport(r, s)}
     IN  /\ seen' = seen \cup new
         /\ IF new = {}
            THEN UNCHANGED <<pending, ready, pool, before, pc>>
            ELSE StartFlush(Earliest(new), pending \cup new, "read")
  /\ UNCHANGED <<log, evaluated, state, decisions>>

\* Deviation: what is still pending after the last file is not walked.
EndWithoutFlush ==
  /\ pc = "read"
  /\ next = Len(log)
  /\ pc' = "done"
  /\ UNCHANGED <<log, next, held, ready, pool, before, state, decisions>>

\* flush(before=None), after the last file.
LastFlush ==
  /\ pc = "read"
  /\ next = Len(log)
  /\ StartFlush(NoBound, pending, "done")
  /\ UNCHANGED <<log, next, evaluated, seen, state, decisions>>

First(records) == CHOOSE r \in records : \A s \in records : ~SortsBefore(s, r)

\* _evaluate_point, for the records that are due in their order.
EvaluatePoint ==
  /\ pc = "flush"
  /\ ready # {}
  /\ LET r == First(ready)
         d == Decide(pool, r, state)
     IN  /\ ready' = ready \ {r}
         /\ state' = StateAfter(state, d)
         /\ decisions' = Extend(decisions, d)
  /\ UNCHANGED <<log, next, held, pool, before, pc>>

\* Deviation: everything evaluated is kept.
KeepAll(records, bound) == records

\* Future points lie at bound or later, so older records are in no window.
LookBack(records, bound) == {r \in records : r.ts > bound - MaxWindow}

\* Deviation: no dedup key outlives a flush.
KeysForgotten(keys, bound) == {}

KeysKept(keys, bound) == {r \in keys : r.ts > bound - (MaxWindow + Margin)}

\* The end of flush.
EndFlush ==
  /\ pc = "flush"
  /\ ready = {}
  /\ IF before = NoBound
     THEN /\ evaluated' = pool
          /\ seen' = seen
          /\ pc' = "done"
     ELSE /\ evaluated' = LookBack(pool, before)
          /\ seen' = KeysKept(seen, before)
          /\ pc' = "read"
  /\ pool' = {}
  /\ UNCHANGED <<log, next, pending, ready, before, state, decisions>>

Next == ReadFile \/ LastFlush \/ EvaluatePoint \/ EndFlush

Init == InitWith({l \in Logs : Watermark(l)})

Spec == Init /\ [][Next]_vars /\ WF_vars(Next)

\* The walk under the docstring's assumption alone.
StraddleSpec == InitWith({l \in Logs : OwnOrNext(l)}) /\ [][Next]_vars /\ WF_vars(Next)

-----------------------------------------------------------------------------
\* Properties.

Known  == Upto(log, next)
Walked == (Known \cap Unique(log)) \ (pending \cup ready)

\* The parts of the walk's memory fit together: nothing is both waiting and
\* evaluated, and a flush works on records it knows.
TypeOK ==
  /\ next \in 0..Len(log)
  /\ pending \subseteq Known /\ evaluated \subseteq Known /\ seen \subseteq Known
  /\ ready \subseteq pool /\ pool \subseteq Known
  /\ pending \cap (evaluated \cup pool) = {}
  /\ pc \in {"read", "flush", "done"}
  /\ pc # "flush" => ready = {} /\ pool = {}

\* "future points have T >= before (or none remain)" (decision_engine.py:352):
\* whenever a point is evaluated, every window it may ask for is complete,
\* that is, the pool has what the cluster's deduplicated record set has there:
\* no record of it has been pruned, none is still in an unread file, and no
\* report is counted twice.
WindowIsComplete ==
  \A r \in ready : \A i \in DOMAIN Rules :
    Window(pool, r.ts, Rules[i].window) = Window(Unique(log), r.ts, Rules[i].window)

\* "Memory therefore holds: the pending records, plus already evaluated
\* records younger than the largest window, plus dedup keys"
\* (decision_engine.py:325-327): between two files nothing older than the
\* look-back of the earliest pending record is held.
HeldIsBounded ==
  pc = "read" /\ pending # {} =>
    /\ \A r \in evaluated : r.ts > Earliest(pending) - MaxWindow
    /\ \A r \in seen : r.ts > Earliest(pending) - MaxWindow - Margin

\* Consecutive decisions of a cluster chain up: each starts from the worker
\* count the last one set, changes it, and keeps the cooldown of its own rule
\* (README 6.4), also across the files of the stream.
DecisionsChain ==
  \A n \in DOMAIN decisions :
    /\ decisions[n].from = IF n = 1 THEN InitialWorkers ELSE decisions[n - 1].to
    /\ decisions[n].from # decisions[n].to
    /\ n > 1 => decisions[n].ts >= decisions[n - 1].ts + Rules[decisions[n].rule].cooldown

\* The table's key is the cluster and the decision's timestamp
\* (models.py:17-18): no two decisions of a cluster have the same, although
\* records may, and a cooldown may be 0.  Points of one timestamp see one
\* window, so the same rule matches, and the second time its target is met.
DecisionKeysDiffer ==
  \A m, n \in DOMAIN decisions : m < n => decisions[m].ts < decisions[n].ts

\* The walk of the whole record set that the stream must be equal to.
Walk == INSTANCE ClusterWalk WITH
          records <- Unique(log),
          walked <- Walked,
          StartState <- InitialState(InitialWorkers)

\* "Equivalent to evaluate_stream with a single batch"
\* (decision_engine.py:304): the stream evaluates every record once, in the
\* order of section 6, and decides at each as the full-buffer walk does.
ImplementsClusterWalk == Walk!Spec

\* Every record is evaluated in the end.
WalkCompletes == <>(pc = "done" /\ Walked = Unique(log))
=============================================================================
