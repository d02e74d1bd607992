----------------------------- MODULE InboxNotes -----------------------------
(***************************************************************************)
(* The notes of the Inbox (rows of inbox_items with source voice or typed) *)
(* as far as closing and reopening them goes.  A note is closed by hand or *)
(* by a rule; closed_by names the rule, and only that rule may reopen it.  *)
(* hand[n] is a history variable: what Graham last decided about the note. *)
(***************************************************************************)
CONSTANTS
    Notes,          \* ids of notes, each used once
    NULL            \* SQL's NULL

ASSUME NullAssumption == NULL \notin {"backlog", "issues"}

VARIABLES
    note,           \* note[n]: the row, or why there is none
    hand            \* hand[n]: see Hands

notevars == <<note, hand>>

CLOSED_BY == {"backlog", "issues"}

Row == [reviewed : BOOLEAN, state : {"open", "closed"}, closed_by : CLOSED_BY \cup {NULL}]

Unborn == [reviewed |-> FALSE, state |-> "unborn", closed_by |-> NULL]
Deleted == [reviewed |-> FALSE, state |-> "deleted", closed_by |-> NULL]

\* "none"   no hand close or reopen since the note was filed last
\* "closed" closed by hand
\* "calm"   reopened by hand, and nothing it depends on has changed since
\* "other"  reopened by hand, and something has
Hands == {"none", "closed", "calm", "other"}

NotesTypeOK == note \in [Notes -> Row \cup {Unborn, Deleted}] /\ hand \in [Notes -> Hands]

NotesInit == note = [n \in Notes |-> Unborn] /\ hand = [n \in Notes |-> "none"]

Exists(n) == note[n].state \in {"open", "closed"}

\* inbox_db.create_item for a note: typed ones are born reviewed, voice notes are not.
create_item(n) ==
    /\ note[n] = Unborn
    /\ \E typed \in BOOLEAN :
          note' = [note EXCEPT ![n] = [reviewed |-> typed, state |-> "open", closed_by |-> NULL]]
    /\ UNCHANGED hand

\* patch_item and update_item with "reviewed" in the request.  Whether there is a draft to
\* review is not modelled, so a tick may be accepted whenever the box is not ticked.
patch_reviewed(n) ==
    /\ Exists(n)
    /\ note' = [note EXCEPT ![n].reviewed = ~@]
    /\ UNCHANGED hand

\* Mutant: closed_by outlives a hand change.
patch_keeps_rule(n, state, calm) ==
    /\ Exists(n)
    /\ note' = [note EXCEPT ![n].state = state]
    /\ hand' = [hand EXCEPT ![n] = CASE state = "closed" -> "closed"
                                     [] state = "open" /\ calm -> "calm"
                                     [] OTHER -> "other"]

\* patch_item and update_item with "state" in the request: the decision is Graham's, no rule
\* owns it any more.  calm says whether the world agrees with itself at this moment.
patch_state(n, state, calm) ==
    /\ Exists(n)
    /\ note' = [note EXCEPT ![n].state = state, ![n].closed_by = NULL]
    /\ hand' = [hand EXCEPT ![n] = CASE state = "closed" -> "closed"
                                     [] state = "open" /\ calm -> "calm"
                                     [] OTHER -> "other"]

\* What post_issues and post_filed_backlog require of the note.
Fileable(n) == Exists(n) /\ note[n].reviewed /\ note[n].state = "open"

\* What a rule writes.
closed_by_rule(row, rule) == [row EXCEPT !.state = "closed", !.closed_by = rule]
reopened_by_rule(row) == [row EXCEPT !.state = "open", !.closed_by = NULL]
=============================================================================
