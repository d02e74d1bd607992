------------------------------ MODULE MCIssues ------------------------------
(* Instances of IssueMirror for TLC. *)
EXTENDS IssueMirror, TLC

CONSTANTS r1, n1

OneRepo == [i \in Issues |-> r1]
=============================================================================
