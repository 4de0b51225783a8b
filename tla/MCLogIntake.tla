---------------------------- MODULE MCLogIntake ----------------------------
(***************************************************************************)
(* Small instances of LogIntake: logs of three batches, the second one     *)
(* possibly reported twice, with an entry that is no record at one place,  *)
(* cut into three files anywhere, one of them possibly corrupt; names      *)
(* whose order is not that of the hours, and names without an hour.        *)
(***************************************************************************)
EXTENDS LogIntake, SequencesExt

File == 1..3

Entry(kind, batch, ts, needed, span) ==
  [kind |-> kind, batch |-> batch, ts |-> ts, body |-> needed, span |-> span]

\* The second batch is pretty-printed, its second report is not; the third
\* has a trailing line.
Reports(ts, again) ==
  <<Entry("valid", 1, ts[1], 1, 1), Entry("valid", 2, ts[2], 2, 2)>> \o
  (IF again THEN <<Entry("valid", 2, ts[2], 1, 1)>> ELSE <<>>) \o
  <<Entry("valid", 3, ts[3], 1, 2)>>

Steady == <<0, 1, 2>>
Tied   == <<0, 0, 1>>

NoRecord == {"other", "malformed", "incomplete", "fatal"}

Logs == {Reports(ts, again) : ts \in {Steady, Tied}, again \in BOOLEAN} \cup
        {InsertAt(Reports(Steady, FALSE), place, Entry(kind, 0, 0, 1, 2)) :
           place \in {1, 3}, kind \in NoRecord}

LinesOf(log) ==
  FlattenSeq([e \in DOMAIN log |-> [i \in 1..log[e].span |-> <<e, i>>]])

\* The f-th part of the lines, cut after a and after b lines.
Part(lines, a, b, f) ==
  IF f = 1 THEN SubSeq(lines, 1, a)
  ELSE IF f = 2 THEN SubSeq(lines, a + 1, b)
  ELSE SubSeq(lines, b + 1, Len(lines))

\* Whose names tell the hour.
Named(log) == IF NoTies(log) THEN {File, {}, {2, 3}} ELSE {File}

\* name[f] is the key of the f-th part; the last line of the part bad is lost.
FilesOf(lines, a, b, name, named, bad) ==
  [k \in File |->
     LET f    == CHOOSE g \in File : name[g] = k
         part == Part(lines, a, b, f)
     IN  [lines    |-> part,
          readable |-> IF f = bad /\ part # <<>> THEN Len(part) - 1 ELSE Len(part),
          hour     |-> IF f \in named THEN f ELSE NoHour]]

Cuts(log) == {c \in (0..Len(LinesOf(log))) \X (0..Len(LinesOf(log))) : c[1] <= c[2]}

Names == {<<1, 2, 3>>, <<3, 1, 2>>}

\* SortedBy is what SetToSortSeq of the community modules computes.
ASSUME SortedByIsSetToSortSeq ==
  \A S \in SUBSET File : \A rank \in [S -> 0..2] :
    SortedBy(S, rank) = SetToSortSeq(S, LAMBDA j, k : Before(rank, j, k))

MCInputs ==
  UNION {{[entries |-> log,
           files   |-> FilesOf(LinesOf(log), cut[1], cut[2], name, named, bad)] :
             cut \in Cuts(log), name \in Names, named \in Named(log), bad \in {0, 1, 2}} :
           log \in Logs}
=============================================================================
