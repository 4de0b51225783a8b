-------------------------- MODULE MCDecisionStream --------------------------
(***************************************************************************)
(* Small instances of DecisionStream: every log of three batches of one    *)
(* query over three files, with every placement of the batches, the second *)
(* of them possibly logged again in the same file or the next one, and two *)
(* values of one metric.                                                   *)
(***************************************************************************)
EXTENDS DecisionStream, TLC

CONSTANTS Horizon   \* the latest timestamp

Batch == 1..3
File  == 1..3

\* A high value asks for more workers, at least two of them within a window;
\* a low last value asks for fewer.
MCRules == <<
  [metric |-> "rows", aggregation |-> "avg", operator |-> "gt", threshold |-> 2,
   window |-> 2, minBatches |-> 2, target |-> 4, cooldown |-> 2],
  [metric |-> "rows", aggregation |-> "last", operator |-> "lt", threshold |-> 2,
   window |-> 3, minBatches |-> 1, target |-> 1, cooldown |-> 1],
  [metric |-> "rows", aggregation |-> "max", operator |-> "gt", threshold |-> 2,
   window |-> 1, minBatches |-> 1, target |-> 2, cooldown |-> 0] >>

\* Batches of a query are triggered in the order of their ids, the first at 0.
Schedule == {t \in [Batch -> 0..Horizon] :
               t[1] = 0 /\ \A b \in Batch : b > 1 => t[b - 1] <= t[b]}

\* The place of batch b's first copy, or of its second, among the entries.
Place(file, b, second) == 10 * file + 2 * b + (IF second THEN 1 ELSE 0)

Entry(file, b, second, t, rows) ==
  [batch |-> b, ts |-> t[b], metrics |-> [m \in {"rows"} |-> rows[b]],
   nth |-> Place(file, b, second)]

\* Batch b is first reported in file first[b]; the batches of again are
\* reported a second time, lag files later.
LogOf(t, first, again, lag, rows) ==
  [f \in File |->
     {Entry(f, b, FALSE, t, rows) : b \in {c \in Batch : first[c] = f}} \cup
     {Entry(f, b, TRUE, t, rows) : b \in {c \in again : first[c] + lag = f}}]

MCLogs == {LogOf(t, first, again, lag, rows) :
             t \in Schedule, first \in [Batch -> File],
             again \in {{}, {2}}, lag \in {0, 1},
             rows \in [Batch -> {1, 3}]}
=============================================================================
