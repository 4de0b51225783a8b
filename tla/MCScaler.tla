------------------------------ MODULE MCScaler ------------------------------
(***************************************************************************)
(* Small instances of Scaler: two clusters, "big" of two files and "small" *)
(* of one, a notification of one file of big sent twice, and two messages  *)
(* that can never succeed.                                                 *)
(***************************************************************************)
EXTENDS Scaler, TLC

CONSTANTS w1, w2, m1, m2, m2again, m3, mBad, mGone

MCWorker == {w1, w2}
OneWorker == {w1}
MCCluster == {"big", "small"}
MCKey == {"b1", "b2", "s1", "nowhere"}
MCUploaded == {"b1", "b2", "s1"}

\* One notification per file.
PlainMessage == {m1, m2, m3}
\* Two files and a duplicate notification: the core of the protocol.
CoreMessage == {m1, m2, m2again, m3}
\* With the messages that can never succeed.
PoisonMessage == {m1, m2, m3, mBad, mGone}

EveryKeyOf == (m1 :> "b1") @@ (m2 :> "b2") @@ (m2again :> "b2") @@ (m3 :> "s1")
                @@ (mBad :> "b1") @@ (mGone :> "nowhere")
EveryClusterOf == (m1 :> "big") @@ (m2 :> "big") @@ (m2again :> "big") @@ (m3 :> "small")
                @@ (mBad :> "big") @@ (mGone :> "big")

MCKeyOf == [m \in Message |-> EveryKeyOf[m]]
MCClusterOf == [m \in Message |-> EveryClusterOf[m]]
MCMalformed == {mBad} \cap Message
MCNumLogFiles == [c \in MCCluster |-> IF c = "big" THEN 2 ELSE 1]
MCNumDecisions == [c \in MCCluster |-> IF c = "big" THEN 3 ELSE 1]

Mishaps(fault, early, restart, lost) ==
  [kind \in Mishap |-> CASE kind = "fault" -> fault [] kind = "early" -> early
                         [] kind = "restart" -> restart [] kind = "lost" -> lost]
\* A failed call with another one or an early redelivery, a restart, or a lost object.
SafetyLimits == {Mishaps(2, 0, 0, 0), Mishaps(1, 1, 0, 0), Mishaps(0, 0, 1, 0),
                 Mishaps(0, 0, 0, 1)}
LivenessLimits == {Mishaps(1, 0, 0, 0), Mishaps(0, 0, 1, 0), Mishaps(0, 0, 0, 1)}
FaultAndEarly   == {Mishaps(1, 1, 0, 0)}
CrashOnly       == {Mishaps(0, 0, 1, 0)}
LostOnly        == {Mishaps(0, 0, 0, 1)}

WorkersAlike == Permutations(MCWorker)
=============================================================================
