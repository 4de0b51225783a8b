------------------------------- MODULE Records -------------------------------
(***************************************************************************)
(* The records of a cluster as the engine gets them: a sequence with, for  *)
(* every file in reading order, the set of its records.  A record is one   *)
(* entry of a file: its field nth is its place among all entries read,     *)
(* which sets the copies of a report apart.                                *)
(***************************************************************************)
EXTENDS Integers

\* dedup_key.
Key(r) == r.batch

SameReport(r, s) == Key(r) = Key(s)

\* Everything in the first n files.
Upto(l, n) == UNION {l[f] : f \in {g \in DOMAIN l : g <= n}}

AllRecords(l) == UNION {l[f] : f \in DOMAIN l}

\* dedup_and_sort keeps the first copy of every report.
FirstCopies(records) ==
  {r \in records : \A s \in records : SameReport(r, s) => r.nth <= s.nth}

Unique(l) == FirstCopies(AllRecords(l))

FirstIn(l, f) == l[f] \cap Unique(l)

\* A copy is in the file of the first one or, across a rotation, the next
\* (README 4.4).
OneOverlap(l) ==
  \A f \in DOMAIN l : \A r \in l[f] : \A s \in Upto(l, f - 2) : ~SameReport(r, s)

\* No file holds a new record from before all new ones of an earlier file: once
\* a file has been read, every record below its earliest new one is known.
EarliestFirst(l) ==
  \A f \in DOMAIN l : \A g \in {h \in DOMAIN l : h < f} : \A s \in FirstIn(l, f) :
    FirstIn(l, g) # {} => \E r \in FirstIn(l, g) : r.ts <= s.ts

\* What the look-ahead relies on (decision_engine.py:320-322).
Watermark(l) == OneOverlap(l) /\ EarliestFirst(l)
=============================================================================
