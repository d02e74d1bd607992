----------------------------- MODULE MCBacklog -----------------------------
(* Instances of BacklogMirror for TLC: a line of the note, the same line marked done, and
   a line of nobody. *)
EXTENDS BacklogMirror, TLC

CONSTANTS n1, todo, done, other

Tags == (todo :> n1) @@ (done :> n1) @@ (other :> NULL)
Contents == {{}, {other}, {todo, other}, {done, other}}
Marks == (todo :> FALSE) @@ (done :> TRUE) @@ (other :> FALSE)
=============================================================================
