----------------------------- MODULE MCStartup -----------------------------
(***************************************************************************)
(* Small instances of Startup: two workers, few log files, few mishaps.    *)
(***************************************************************************)
EXTENDS Startup, TLC

CONSTANTS w1, w2, f1, f2

MCWorker == {w1, w2}

OneFile  == {f1}
TwoFiles == {f1, f2}

\* Each way to go wrong once: in one file its shape, in the other an entry.
Drafts == [rules |-> {"good", "rejected"}, manifest |-> {"good", "misshapen"}]

Nothing     == [kind \in Mishap |-> 0]
EveryMishap == [kind \in Mishap |-> 1]

\* A connection lost while a body is read.
Dropped == "drop" :> 1 @@ Nothing
=============================================================================
