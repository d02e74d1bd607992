---------------------------- MODULE BacklogMirror ----------------------------
(***************************************************************************)
(* The backlog.txt side of the Inbox.  The Mac reads the file, sends all   *)
(* of it in one request, and the server mirrors it and closes or reopens   *)
(* the notes that were filed as one of its lines.  The file is edited      *)
(* while it is read and while the request is on its way; a request may be  *)
(* lost, answered in vain and sent again, or land after a later one.  A    *)
(* note may be linked to a GitHub issue as well, so two rules work on it.  *)
(***************************************************************************)
EXTENDS InboxNotes, Integers

CONSTANTS
    Lines,                  \* What: lines
    Files,                  \* the contents backlog.txt may have: sets of lines
    TagOf,                  \* TagOf[l]: the note whose (voice <id8>) tag the line carries, or NULL
    IsDone,                 \* IsDone[l]: the line is marked done
    BACKLOG_ABSENT_PUSHES,  \* pushes in a row that must miss a note's line
    HTTP_RETRIES,           \* how often api_request repeats a request
    MAX_EDITS               \* bound: edits of the file

ASSUME BacklogAssumption ==
    /\ Files \subseteq SUBSET Lines /\ Files # {}
    /\ TagOf \in [Lines -> Notes \cup {NULL}] /\ NULL \notin Notes
    /\ IsDone \in [Lines -> BOOLEAN]
    /\ BACKLOG_ABSENT_PUSHES \in Nat \ {0} /\ HTTP_RETRIES \in Nat /\ MAX_EDITS \in Nat

VARIABLES
    file,           \* backlog.txt on the Mac
    edits,          \* edits of it so far
    mirror,         \* mirror[l]: the row keyed on the line; its state is what the line says
    filed,          \* filed[n]: filed_backlog_at is set
    absent,         \* absent[n]: backlog_absent_pushes
    filing,         \* filing[n]: post_filed_backlog has checked the note and not written yet
    issue,          \* issue[n]: the state of the note's one issue link, or "none"
    push,           \* the request the Mac is busy with
    late,           \* entries of a request the Mac gave up on and the server may still get
    bound           \* history: bound[n], see NoteFollowsLine

sidevars == <<file, edits, push, late>>
rulevars == <<mirror, filed, absent, filing, issue, bound>>
vars == <<file, edits, mirror, filed, absent, filing, issue, push, late, bound, note, hand>>

NoPush == [entries |-> {}, tries |-> 0]

\* The tables and the Mac's request hold what they may hold; the count of missed pushes is
\* capped, and only a filed note has one.
TypeOK ==
    /\ NotesTypeOK
    /\ file \in Files /\ edits \in 0..MAX_EDITS
    /\ mirror \in [Lines -> {"none", "live", "archived"}]
    /\ filed \in [Notes -> BOOLEAN] /\ filing \in [Notes -> BOOLEAN] /\ bound \in [Notes -> BOOLEAN]
    /\ absent \in [Notes -> 0..BACKLOG_ABSENT_PUSHES]
    /\ \A n \in Notes : absent[n] > 0 => filed[n]
    /\ issue \in [Notes -> {"none", "open", "closed"}]
    /\ push \in [entries : SUBSET Lines, tries : 0..HTTP_RETRIES]
    /\ push.entries = {} => push = NoPush
    /\ late \subseteq Lines

\* The notes are there and reviewed; how they get there is the business of Drafts.
Init ==
    /\ note = [n \in Notes |-> [reviewed |-> TRUE, state |-> "open", closed_by |-> NULL]]
    /\ hand = [n \in Notes |-> "none"]
    /\ file \in Files /\ edits = 0
    /\ mirror = [l \in Lines |-> "none"]
    /\ filed = [n \in Notes |-> FALSE] /\ absent = [n \in Notes |-> 0]
    /\ filing = [n \in Notes |-> FALSE]
    /\ issue = [n \in Notes |-> "none"]
    /\ push = NoPush /\ late = {}
    /\ bound = [n \in Notes |-> FALSE]

LiveLines == {l \in Lines : mirror[l] = "live"}

\* filed_line_status, for the tag of one note: NULL when no row ever carried it.
filed_line_status(rows, n) ==
    LET tagged == {l \in Lines : TagOf[l] = n /\ rows[l] # "none"}
        live == {l \in tagged : rows[l] = "live"}
    IN  CASE tagged = {} -> NULL
          [] tagged # {} /\ live = {} -> "gone"
          [] \E l \in live : ~IsDone[l] -> "open"
          [] OTHER -> "done"

-----------------------------------------------------------------------------
(* The file on the Mac.                                                    *)

\* History: the world of these notes changed, so a hand reopen is no longer protected.
Stir(notes) == hand' = [n \in Notes |-> IF n \in notes /\ hand[n] = "calm" THEN "other" ELSE hand[n]]

\* Lines are added, removed, reworded or marked done.  A line is its own key: one that is
\* reworded or marked done is another line.
Edit(f) ==
    /\ edits < MAX_EDITS /\ f # file
    /\ file' = f
    /\ edits' = edits + 1
    /\ Stir({TagOf[l] : l \in (f \ file) \cup (file \ f)})
    /\ UNCHANGED <<rulevars, push, late, note>>

-----------------------------------------------------------------------------
(* Requests about a note.                                                  *)

\* The mirror shows the file as it is and nothing is on its way.
Quiet == LiveLines = file /\ push = NoPush /\ late = {}

\* The next push has nothing left to do about the note.
Spent(n) == filed[n] => filed_line_status(mirror, n) \in {"open", "done"} \/ absent[n] = BACKLOG_ABSENT_PUSHES

PatchState(n) ==
    /\ \E state \in {"open", "closed"} : patch_state(n, state, Quiet /\ Spent(n) /\ ~filing[n])
    /\ bound' = [bound EXCEPT ![n] = FALSE]
    /\ UNCHANGED <<sidevars, mirror, filed, absent, filing, issue>>

Delete(n) ==
    /\ Exists(n)
    /\ note' = [note EXCEPT ![n] = Deleted]
    /\ hand' = [hand EXCEPT ![n] = "none"]
    /\ issue' = [issue EXCEPT ![n] = "none"]
    /\ filed' = [filed EXCEPT ![n] = FALSE] /\ absent' = [absent EXCEPT ![n] = 0]
    /\ bound' = [bound EXCEPT ![n] = FALSE]
    /\ UNCHANGED <<sidevars, mirror, filing>>

\* post_filed_backlog is not a transaction: it checks the note ...
FileCheck(n) ==
    /\ Fileable(n) /\ ~filing[n]
    /\ filing' = [filing EXCEPT ![n] = TRUE]
    /\ Stir({n})
    /\ UNCHANGED <<sidevars, mirror, filed, absent, issue, bound, note>>

\* ... and mark_filed_backlog writes by id, whatever became of the note.
mark_filed_backlog(n) ==
    /\ filing[n]
    /\ filing' = [filing EXCEPT ![n] = FALSE]
    /\ filed' = [filed EXCEPT ![n] = @ \/ Exists(n)]
    /\ bound' = [bound EXCEPT ![n] = @ \/ (~filed[n] /\ note[n].state = "open"
                                             /\ filed_line_status(mirror, n) # "done")]
    /\ UNCHANGED <<sidevars, mirror, absent, issue, note, hand>>

\* post_issues, as far as the note goes: a new link starts open.
link_issue(n) ==
    /\ Fileable(n) /\ issue[n] = "none"
    /\ issue' = [issue EXCEPT ![n] = "open"]
    /\ UNCHANGED <<sidevars, mirror, filed, absent, filing, bound, note, hand>>

\* A scan finds the issue closed or open again: apply_issue_transitions for a note with one link.
IssueTransition(n) ==
    /\ issue[n] # "none"
    /\ issue' = [issue EXCEPT ![n] = IF @ = "open" THEN "closed" ELSE "open"]
    /\ note' = [note EXCEPT ![n] =
          CASE issue[n] = "open" /\ @.state = "open" -> closed_by_rule(@, "issues")
            [] issue[n] = "closed" /\ @.state = "closed" /\ @.closed_by = "issues" -> reopened_by_rule(@)
            [] OTHER -> @]
    /\ bound' = [bound EXCEPT ![n] = @ /\ note'[n] = note[n]]
    /\ Stir({n})
    /\ UNCHANGED <<sidevars, mirror, filed, absent, filing>>

-----------------------------------------------------------------------------
(* The push.                                                               *)

\* read_backlog and build_payload: what the file held, or the part of it that a truncated
\* read still parses; reading nothing is an error.  The payload always says "complete".
Read(entries) ==
    /\ push = NoPush
    /\ entries # {} /\ entries \subseteq file
    /\ push' = [entries |-> entries, tries |-> 0]
    /\ Stir(IF entries = file THEN {} ELSE Notes)
    /\ UNCHANGED <<file, edits, late, rulevars, note>>

ReadWhole == Read(file)
ReadTruncated == \E entries \in SUBSET file \ {file} : Read(entries)

\* Mutant: a row that was archived is not brought back by its line.
mirror_after_no_return(entries) ==
    [l \in Lines |-> CASE l \in entries /\ mirror[l] = "none" -> "live"
                      [] l \notin entries /\ mirror[l] = "live" -> "archived"
                      [] OTHER -> mirror[l]]

\* upsert_mirror_item for every entry, then archive_missing.
mirror_after(entries) ==
    [l \in Lines |-> IF l \in entries THEN "live" ELSE IF mirror[l] = "live" THEN "archived" ELSE mirror[l]]

\* Mutant: the count goes on, so that nothing tells the second miss from the later ones.
absent_uncapped(n, status) == IF status \in {"open", "done"} THEN 0 ELSE absent[n] + 1

\* backlog_absent_pushes of a filed note after a push.
absent_after(n, status) ==
    IF status \in {"open", "done"} THEN 0
    ELSE IF absent[n] < BACKLOG_ABSENT_PUSHES THEN absent[n] + 1 ELSE absent[n]

\* Mutant: done closes whenever it is seen, not only when it is new.
rule_closes_level(n, before, after) ==
    /\ note[n].state = "open"
    /\ \/ after = "done"
       \/ after \notin {"open", "done"} /\ absent[n] + 1 = BACKLOG_ABSENT_PUSHES

\* Mutant: the line must have been seen open to be seen done.
rule_closes_open_to_done(n, before, after) ==
    /\ note[n].state = "open"
    /\ \/ after = "done" /\ before = "open"
       \/ after \notin {"open", "done"} /\ absent[n] + 1 = BACKLOG_ABSENT_PUSHES

\* When the rule closes a filed note: on the transition into done, or on the push that
\* completes the count.
rule_closes(n, before, after) ==
    /\ note[n].state = "open"
    /\ \/ after = "done" /\ before # "done"
       \/ after \notin {"open", "done"} /\ absent[n] + 1 = BACKLOG_ABSENT_PUSHES

\* When it reopens one: only what it closed itself.
rule_reopens(n, after) == note[n].state = "closed" /\ note[n].closed_by = "backlog" /\ after = "open"

\* apply_filed_backlog_rule.
apply_filed_backlog_rule(before, after) ==
    /\ absent' = [n \in Notes |-> IF filed[n] THEN absent_after(n, after[n]) ELSE absent[n]]
    /\ note' = [n \in Notes |->
          CASE filed[n] /\ rule_closes(n, before[n], after[n]) -> closed_by_rule(note[n], "backlog")
            [] filed[n] /\ rule_reopens(n, after[n]) -> reopened_by_rule(note[n])
            [] OTHER -> note[n]]

\* mirror_backlog and apply_backlog_push: one transaction.
apply_backlog_push(entries) ==
    LET before == [n \in Notes |-> filed_line_status(mirror, n)]
        after == [n \in Notes |-> filed_line_status(mirror_after(entries), n)]
    IN  /\ mirror' = mirror_after(entries)
        /\ apply_filed_backlog_rule(before, after)
        /\ bound' = [n \in Notes |-> bound[n] \/ (filed[n] /\ after[n] = "open" /\ note'[n].state = "open")]
        /\ UNCHANGED <<filed, filing, issue>>

\* api_request tries again, or raises after the last attempt.
Again == push' = IF push.tries < HTTP_RETRIES THEN [push EXCEPT !.tries = @ + 1] ELSE NoPush

\* The push lands and its answer arrives, ...
Answered ==
    /\ push # NoPush
    /\ apply_backlog_push(push.entries)
    /\ push' = NoPush
    /\ UNCHANGED <<file, edits, late, hand>>

\* ... or the answer is lost on the way, ...
Unanswered ==
    /\ push # NoPush
    /\ apply_backlog_push(push.entries)
    /\ Again
    /\ UNCHANGED <<file, edits, late, hand>>

\* ... or the push never lands (and a 4xx is not tried again), ...
Lost ==
    /\ push # NoPush
    /\ Again \/ push' = NoPush
    /\ UNCHANGED <<file, edits, late, rulevars, note, hand>>

\* ... or the Mac gives up waiting and the server works on it later.
TimesOut ==
    /\ push # NoPush /\ late = {}
    /\ late' = push.entries
    /\ Again
    /\ UNCHANGED <<file, edits, rulevars, note, hand>>

LateLands ==
    /\ late # {}
    /\ apply_backlog_push(late)
    /\ late' = {}
    /\ UNCHANGED <<file, edits, push, hand>>

Next ==
    \/ \E f \in Files : Edit(f)
    \/ \E n \in Notes : \/ PatchState(n) \/ Delete(n)
                        \/ FileCheck(n) \/ mark_filed_backlog(n)
                        \/ link_issue(n) \/ IssueTransition(n)
    \/ ReadWhole \/ ReadTruncated
    \/ Answered \/ Unanswered \/ Lost \/ TimesOut \/ LateLands

Spec == Init /\ [][Next]_vars

\* launchd starts the probe again and again, the network lets a push through now and then,
\* a request in the server's hands ends, and reads are not truncated for ever.
Fairness ==
    /\ WF_vars(ReadWhole) /\ SF_vars(Answered) /\ WF_vars(LateLands)
    /\ <>[][~ReadTruncated]_vars

FairSpec == Spec /\ Fairness

-----------------------------------------------------------------------------
\* What Graham decided by hand stands: a note he closed stays closed, and a note he reopened
\* stays open until its line or its issue changes or a read of the file is truncated, however
\* many pushes pass (done closes on the transition only, and the count of misses is capped).
HandDecisionsStick ==
    \A n \in Notes :
        /\ hand[n] = "closed" => note[n].state = "closed"
        /\ hand[n] = "calm" => note[n].state = "open"

\* No edge of the line is lost.  Once a filed note and its line have been open together (or
\* the note was filed before its line was seen), and for as long as neither Graham nor the
\* issues rule moves the note, it is open when the mirror shows an open line, closed when
\* every line is done and closed when two pushes in a row missed it, whatever was truncated,
\* repeated or late in between.
NoteFollowsLine ==
    \A n \in Notes :
        LET status == filed_line_status(mirror, n) IN
        bound[n] =>
            /\ status = "open" => note[n].state = "open"
            /\ status = "done" => note[n].state = "closed"
            /\ absent[n] = BACKLOG_ABSENT_PUSHES => note[n].state = "closed"

\* When the edits end, the mirror comes to show the file, and a note still bound to its line
\* comes to be closed if the file holds no open line of it, even if stale copies of earlier
\* pushes landed after newer ones.
BoardCatchesUp ==
    <>[](file # {} =>
            /\ LiveLines = file
            /\ \A n \in Notes :
                  bound[n] => (note[n].state = "open" <=> \E l \in file : TagOf[l] = n /\ ~IsDone[l]))
=============================================================================
