------------------------------ MODULE Recording ------------------------------
(***************************************************************************)
(* What the Inbox promises about a recording of Graham's voice, without    *)
(* rows, files, requests or a prune: it is kept until there is a ground to *)
(* let it go, and once there is one it does go.                            *)
(***************************************************************************)
CONSTANT Notes

\* "unowned"  there is no note: it was deleted, or its upload never finished
\* "settled"  transcribed, ticked Reviewed, and older than the retention window
\* "expired"  older than the privacy ceiling, whatever else holds
\* "slipped"  lost in one of the two gaps the code leaves around the commit of its row: swept
\*            after its write and before the row, or removed by its own upload, which answers
\*            an error, after the row
Grounds == {"unowned", "settled", "expired", "slipped"}

VARIABLES
    rec,        \* rec[n]: "none", then "kept", then "gone"
    grounds     \* grounds[n]: what permits letting the recording go

vars == <<rec, grounds>>

Init == rec = [n \in Notes |-> "none"] /\ grounds = [n \in Notes |-> {}]

Keep(n) == rec[n] = "none" /\ rec' = [rec EXCEPT ![n] = "kept"]

LetGo(n) == rec[n] = "kept" /\ grounds'[n] # {} /\ rec' = [rec EXCEPT ![n] = "gone"]

\* Grounds only accumulate.
Gain == \A n \in Notes : grounds[n] \subseteq grounds'[n] /\ grounds'[n] \subseteq Grounds

Next == Gain /\ (UNCHANGED rec \/ \E n \in Notes : Keep(n) \/ LetGo(n))

Goes == \A n \in Notes : (rec[n] = "kept" /\ grounds[n] # {}) ~> (rec[n] = "gone")

Safety == Init /\ [][Next]_vars

Spec == Safety /\ Goes
=============================================================================
