------------------------------ MODULE MCDrafts ------------------------------
(***************************************************************************)
(* Drafts for TLC: two notes; claude may fail on either and be too slow    *)
(* for one of them.                                                        *)
(***************************************************************************)
EXTENDS Drafts

CONSTANTS older, newer

TwoNotes == <<older, newer>>
OneSlow == [n \in {older, newer} |-> IF n = older THEN {"good", "bad"} ELSE {"good", "bad", "slow"}]
TwoBodies == [n \in {older, newer} |-> IF n = older THEN 2 ELSE 1]
=============================================================================
