-------------------------- MODULE MCDecisionWriter --------------------------
(***************************************************************************)
(* Small instances of DecisionWriter: every sequence of up to five         *)
(* decisions over three keys.                                              *)
(***************************************************************************)
EXTENDS DecisionWriter, SequencesExt

CONSTANTS k1, k2, k3

MCKey == {k1, k2, k3}

MCWalks == BoundedSeq(MCKey, 5)
=============================================================================
