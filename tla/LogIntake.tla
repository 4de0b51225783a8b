------------------------------ MODULE LogIntake ------------------------------
(***************************************************************************)
(* From the log files of a cluster to the batches of records the engine    *)
(* walks: order_log_keys and _iter_file_records of engine/scaler.py,       *)
(* iter_log_lines of s3_client.py, iter_entries and parse_entry of         *)
(* spark_log_parser.py.  A walk that fails is started again.               *)
(*                                                                         *)
(* The driver has written a sequence of entries; line i of entry e is the  *)
(* pair <<e, i>>, and line 1 its header.  Rotation has cut the lines into  *)
(* files, in the middle of an entry too.  A file is known by its key, a    *)
(* number that stands for the place of its name in the order of names.     *)
(***************************************************************************)
EXTENDS Records, FiniteSets, Sequences

CONSTANTS
  Inputs,      \* what may lie in the bucket
  MaxMishaps   \* how many calls of a behaviour may fail

NoHour == -1
NoKey  == -1

\* An entry.  valid: a progress record with all it needs; malformed: its text
\* is no JSON object; incomplete: it lacks id, batchId or timestamp; fatal: a
\* value makes parse_entry raise what it does not catch; other: no marker.
Kind == {"valid", "malformed", "incomplete", "fatal", "other"}

IsEntry(e) == /\ e.kind \in Kind
              /\ e.batch \in Nat /\ e.ts \in Nat
              /\ e.span \in Nat \ {0}   \* its lines
              /\ e.body \in 1..e.span   \* the document ends on this one

Precedes(l, m) == l[1] < m[1] \/ (l[1] = m[1] /\ l[2] < m[2])

\* Lines in the order of the log, none of which is missing inside of an entry.
IsPart(lines, log) ==
  /\ lines \in Seq(Nat \X Nat)
  /\ \A n \in 1..Len(lines) : /\ lines[n][1] \in DOMAIN log
                              /\ lines[n][2] \in 1..log[lines[n][1]].span
  /\ \A m, n \in 1..Len(lines) : m < n => Precedes(lines[m], lines[n])
  /\ \A n \in 1..(Len(lines) - 1) :
       lines[n + 1][2] # 1 => lines[n + 1] = <<lines[n][1], lines[n][2] + 1>>

\* A file: its lines, how many of them can be read before the compressed data
\* is corrupt, and the hour in its name, or NoHour.
IsFile(f, log) == /\ IsPart(f.lines, log)
                  /\ f.readable \in 0..Len(f.lines)
                  /\ f.hour \in Nat \cup {NoHour}

\* The lines of f were written before those of g.
Earlier(f, g) == \A m \in 1..Len(f.lines), n \in 1..Len(g.lines) : Precedes(f.lines[m], g.lines[n])

\* The log goes on in the next file, and the hours tell in which one.
Rotated(files) ==
  \A j, k \in DOMAIN files : j # k =>
    /\ Earlier(files[j], files[k]) \/ Earlier(files[k], files[j])
    /\ files[j].hour # NoHour /\ files[j].hour < files[k].hour => Earlier(files[j], files[k])
    /\ files[j].hour # NoHour /\ files[k].hour = files[j].hour /\ j < k => Earlier(files[j], files[k])

\* A query logs its batches in the order they were triggered.
InOrder(log) ==
  \A d, e \in DOMAIN log :
    d < e /\ log[d].kind = "valid" /\ log[e].kind = "valid" => log[d].ts <= log[e].ts

\* No two batches were triggered at once.  The order by first records needs
\* this: of two files with the same stamp the later one may be put first.
NoTies(log) ==
  \A d, e \in DOMAIN log :
    log[d].kind = "valid" /\ log[e].kind = "valid" /\ log[d].ts = log[e].ts =>
      log[d].batch = log[e].batch

ASSUME IntakeAssumption ==
  /\ \A i \in Inputs :
       /\ Len(i.entries) \in Nat /\ DOMAIN i.entries = 1..Len(i.entries)
       /\ \A e \in DOMAIN i.entries : IsEntry(i.entries[e])
       /\ IsFiniteSet(DOMAIN i.files)
       /\ \A k \in DOMAIN i.files : k \in Nat /\ IsFile(i.files[k], i.entries)
       /\ Rotated(i.files)
       /\ InOrder(i.entries)
       /\ NoTies(i.entries) \/ \A k \in DOMAIN i.files : i.files[k].hour # NoHour
  /\ MaxMishaps \in Nat

VARIABLES
  input,     \* the log and its files, which do not change
  phase,     \* "order", "peek", "walk", "done" or "failed"
  unpeeked,  \* in "peek": the files whose first record is not known yet
  stamps,    \* its timestamp, or FarFuture for a file without a record
  order,     \* the files in the order of the walk
  body,      \* the file being read, or NoKey
  line,      \* how many lines of it have been read
  current,   \* the lines of the entry at hand
  found,     \* the records of the file so far
  handed,    \* what the engine was given, file by file
  mishaps    \* the failed calls so far

reading == <<body, line, current, found>>
vars    == <<input, phase, unpeeked, stamps, order, reading, handed, mishaps>>

entries   == input.entries
Files     == DOMAIN input.files
Lines     == input.files[body].lines
Readable  == input.files[body].readable

\* datetime.max: later than every record, and than every hour.
FarFuture == 1000

NothingRead == /\ body' = NoKey /\ line' = 0 /\ current' = <<>> /\ found' = <<>>

Init ==
  /\ input \in Inputs
  /\ phase = "order"
  /\ unpeeked = {}
  /\ stamps = [k \in Files |-> FarFuture]
  /\ order = <<>>
  /\ body = NoKey /\ line = 0 /\ current = <<>> /\ found = <<>>
  /\ handed = <<>>
  /\ mishaps = 0

-----------------------------------------------------------------------------
\* order_log_keys.

Before(rank, j, k) == rank[j] < rank[k] \/ (rank[j] = rank[k] /\ j < k)

\* The n-th member of a set is the one that n - 1 others come before.
SortedBy(S, rank) ==
  [n \in 1..Cardinality(S) |->
     CHOOSE k \in S : Cardinality({j \in S : Before(rank, j, k)}) = n - 1]

Hours == [k \in Files |-> IF input.files[k].hour = NoHour THEN FarFuture
                                                          ELSE input.files[k].hour]

\* Deviation: one name with an hour is enough.
SomeNameTells == \E k \in Files : input.files[k].hour # NoHour

NamesTell == \A k \in Files : input.files[k].hour # NoHour

OrderByName ==
  /\ phase = "order"
  /\ NamesTell
  /\ order' = SortedBy(Files, Hours)
  /\ phase' = "walk"
  /\ UNCHANGED <<input, unpeeked, stamps, reading, handed, mishaps>>

StartPeeking ==
  /\ phase = "order"
  /\ ~NamesTell
  /\ unpeeked' = Files
  /\ phase' = "peek"
  /\ UNCHANGED <<input, stamps, order, reading, handed, mishaps>>

OrderByStamp ==
  /\ phase = "peek"
  /\ body = NoKey
  /\ unpeeked = {}
  /\ order' = SortedBy(Files, stamps)
  /\ phase' = "walk"
  /\ UNCHANGED <<input, unpeeked, stamps, reading, handed, mishaps>>

-----------------------------------------------------------------------------
\* iter_log_lines and iter_entries.

\* The file to be read next: any, to learn its first record; in the walk, the
\* next in order.
Due(k) == \/ phase = "peek" /\ k \in unpeeked
          \/ phase = "walk" /\ Len(handed) < Len(order) /\ k = order[Len(handed) + 1]

OpenObject(k) ==
  /\ body = NoKey
  /\ Due(k)
  /\ body' = k
  /\ UNCHANGED <<input, phase, unpeeked, stamps, order, line, current, found, handed, mishaps>>

IsHeader(l) == l[2] = 1

AtEnd == line = Readable

\* Deviation: an entry goes on until the file ends.
EndsWithTheFile == current # <<>> /\ AtEnd

\* An entry is known to be whole at the next header, or at the end.
EntryEnds == current # <<>> /\ (~AtEnd => IsHeader(Lines[line + 1]))

ReadLine ==
  /\ body # NoKey
  /\ ~AtEnd /\ ~EntryEnds
  /\ line' = line + 1
  /\ current' = Append(current, Lines[line + 1])
  /\ UNCHANGED <<input, phase, unpeeked, stamps, order, body, found, handed, mishaps>>

-----------------------------------------------------------------------------
\* parse_entry.

\* What an entry turns out to be.  Without its header line it has no marker,
\* and without the last line of its document no JSON object.
Verdict(lines) ==
  LET e == entries[Head(lines)[1]]
  IN  IF ~IsHeader(Head(lines)) \/ e.kind = "other" THEN "other"
      ELSE IF Len(lines) < e.body THEN "malformed"
      ELSE e.kind

Report(e) == [batch |-> entries[e].batch, ts |-> entries[e].ts]

\* Deviation: an entry without a record ends the file.
StopsTheFile ==
  /\ body # NoKey
  /\ EntryEnds
  /\ Verdict(current) \in {"malformed", "incomplete", "other"}
  /\ current' = <<>>
  /\ line' = Readable
  /\ UNCHANGED <<input, phase, unpeeked, stamps, order, body, found, handed, mishaps>>

SkipEntry ==
  /\ body # NoKey
  /\ EntryEnds
  /\ Verdict(current) \in {"malformed", "incomplete", "other"}
  /\ current' = <<>>
  /\ UNCHANGED <<input, phase, unpeeked, stamps, order, body, line, found, handed, mishaps>>

KeepRecord ==
  /\ body # NoKey /\ phase = "walk"
  /\ EntryEnds
  /\ Verdict(current) = "valid"
  /\ found' = Append(found, Report(Head(current)[1]))
  /\ current' = <<>>
  /\ UNCHANGED <<input, phase, unpeeked, stamps, order, body, line, handed, mishaps>>

\* _first_record_timestamp returns: the rest of the file is not read.
StampFile ==
  /\ body # NoKey /\ phase = "peek"
  /\ EntryEnds
  /\ Verdict(current) = "valid"
  /\ stamps' = [stamps EXCEPT ![body] = entries[Head(current)[1]].ts]
  /\ unpeeked' = unpeeked \ {body}
  /\ NothingRead
  /\ UNCHANGED <<input, phase, order, handed, mishaps>>

-----------------------------------------------------------------------------
\* The end of a file, and of a walk.

\* Deviation: a corrupt tail is an error.
OnlyIntactEnds ==
  /\ body # NoKey
  /\ AtEnd /\ current = <<>>
  /\ Readable = Len(Lines)
  /\ IF phase = "walk" THEN handed' = Append(handed, found) /\ UNCHANGED unpeeked
                       ELSE unpeeked' = unpeeked \ {body} /\ UNCHANGED handed
  /\ NothingRead
  /\ UNCHANGED <<input, phase, stamps, order, mishaps>>

\* No more lines: the file ends, or its compressed data does.
EndOfBody ==
  /\ body # NoKey
  /\ AtEnd /\ current = <<>>
  /\ IF phase = "walk" THEN handed' = Append(handed, found) /\ UNCHANGED unpeeked
                       ELSE unpeeked' = unpeeked \ {body} /\ UNCHANGED handed
  /\ NothingRead
  /\ UNCHANGED <<input, phase, stamps, order, mishaps>>

WalkEnds ==
  /\ phase = "walk"
  /\ body = NoKey
  /\ Len(handed) = Len(order)
  /\ phase' = "done"
  /\ UNCHANGED <<input, unpeeked, stamps, order, reading, handed, mishaps>>

\* An exception leaves the walk: what it had read and ordered is lost.
Raise ==
  /\ phase' = "failed"
  /\ NothingRead
  /\ handed' = <<>> /\ order' = <<>> /\ unpeeked' = {}
  /\ stamps' = [k \in Files |-> FarFuture]
  /\ UNCHANGED input

ParseRaises ==
  /\ body # NoKey
  /\ EntryEnds
  /\ Verdict(current) = "fatal"
  /\ Raise
  /\ UNCHANGED mishaps

\* A GET that fails, or a connection lost in the middle of a body.
ReadFails ==
  /\ body # NoKey \/ \E k \in Files : Due(k)
  /\ mishaps < MaxMishaps
  /\ mishaps' = mishaps + 1
  /\ Raise

\* The message comes back, and the walk starts from its beginning.
Rerun ==
  /\ phase = "failed"
  /\ phase' = "order"
  /\ UNCHANGED <<input, unpeeked, stamps, order, reading, handed, mishaps>>

Next ==
  \/ OrderByName \/ StartPeeking \/ OrderByStamp
  \/ \E k \in Files : OpenObject(k)
  \/ ReadLine \/ SkipEntry \/ KeepRecord \/ StampFile \/ ParseRaises
  \/ EndOfBody \/ WalkEnds \/ ReadFails \/ Rerun

Spec == Init /\ [][Next]_vars /\ WF_vars(Next)

-----------------------------------------------------------------------------
\* Properties.

\* The parts of a walk fit together; the lines at hand are consecutive lines
\* of one entry.
TypeOK ==
  /\ phase \in {"order", "peek", "walk", "done", "failed"}
  /\ unpeeked \subseteq Files
  /\ body \in Files \cup {NoKey}
  /\ body = NoKey => line = 0 /\ current = <<>> /\ found = <<>>
  /\ body # NoKey => /\ line \in Len(current)..Readable
                     /\ current = SubSeq(Lines, line - Len(current) + 1, line)
  /\ \A n \in DOMAIN current : current[n][1] = current[1][1]
  /\ Len(handed) <= Len(order)
  /\ mishaps \in 0..MaxMishaps

InFile(k, l) == \E n \in 1..input.files[k].readable : input.files[k].lines[n] = l

\* The valid reports whose lines, up to the end of the document, are all among
\* the first d lines of the file, or can all be read from it.
WholeAmong(k, d) ==
  {e \in DOMAIN entries :
     /\ entries[e].kind = "valid"
     /\ \A i \in 1..entries[e].body : \E n \in 1..d : input.files[k].lines[n] = <<e, i>>}

WholeIn(k) == WholeAmong(k, input.files[k].readable)

\* The reports of some entries, in the order of the log.
ReportsOf(S) ==
  LET places == SortedBy(S, [e \in S |-> e])
  IN  [n \in 1..Len(places) |-> Report(places[n])]

WholeReports(k) == ReportsOf(WholeIn(k))

\* "Skip such records; never let them crash the run" (README:250-252), and
\* "using the lines read so far" of a corrupt file (s3_client.py:94): the
\* engine is given every file once, with exactly the reports that lie in it as
\* a whole, whatever is malformed, cut by a rotation or lost around them.
KeepsWhatIsWhole ==
  /\ \A f \in DOMAIN handed : handed[f] = WholeReports(order[f])
  /\ phase = "done" => \A k \in Files : \E f \in DOMAIN handed : order[f] = k

\* What the engine was given, as records.
AsRecords ==
  [f \in DOMAIN handed |->
     {[batch |-> handed[f][n].batch, ts |-> handed[f][n].ts, nth |-> f * (Len(entries) + 1) + n] :
        n \in DOMAIN handed[f]}]

\* "Chronological order of a cluster's files" (scaler.py:108): whether the
\* names tell the hours or the first records have to, and wherever files
\* without either are put, the order of the walk is one in which the engine's
\* look-ahead is exact.
OrderMeetsWatermark == phase = "done" => EarliestFirst(AsRecords)

\* A report that makes the parser raise lies in some file as a whole.
Fatal == \E e \in DOMAIN entries, k \in Files :
           /\ entries[e].kind = "fatal"
           /\ \A i \in 1..entries[e].body : InFile(k, <<e, i>>)

\* "Raising here would leave the message in the queue and retry the same
\* corrupt bytes forever" (s3_client.py:92-93): whatever is corrupt, cut or
\* malformed, and although calls fail, the walk gets to its end.  Only a value
\* that makes the parser raise keeps it from there, on every attempt.
ReadsToTheEnd == Fatal \/ <>(phase = "done")
=============================================================================
