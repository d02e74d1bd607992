--------------------------- MODULE MCTransitionLog ---------------------------
(* An instance of TransitionLog for TLC: one job, watched for a few seconds. *)
EXTENDS TransitionLog

CONSTANT gauge

OneJob == {gauge}
ZeroOf == [j \in OneJob |-> 0]
KindOf == [j \in OneJob |-> "disk"]
NeverOf == [j \in OneJob |-> FALSE]
=============================================================================
