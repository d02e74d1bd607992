------------------------------- MODULE MCVoice -------------------------------
(***************************************************************************)
(* VoiceNotes for TLC: one note, which already meets every request, the    *)
(* worker, a prune and the clock in every order.                           *)
(***************************************************************************)
EXTENDS VoiceNotes
=============================================================================
