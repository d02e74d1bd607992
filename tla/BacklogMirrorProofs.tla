------------------------- MODULE BacklogMirrorProofs -------------------------
(***************************************************************************)
(* Proofs about BacklogMirror, for any file, any lines and any number of   *)
(* notes, repeats and missed pushes: types, decisions made by hand that    *)
(* stand, and notes that lose no edge of their line.                       *)
(***************************************************************************)
EXTENDS BacklogMirror, TLAPS

-----------------------------------------------------------------------------
(* What the operators of a push return.                                    *)

\* A rule writes a row over a row.
LEMMA RuleWritesRow ==
    ASSUME NEW row \in Row, NEW rule \in CLOSED_BY
    PROVE  /\ closed_by_rule(row, rule) \in Row /\ reopened_by_rule(row) \in Row
           /\ closed_by_rule(row, rule).state = "closed" /\ closed_by_rule(row, rule).closed_by = rule
           /\ reopened_by_rule(row).state = "open"
  BY DEF closed_by_rule, reopened_by_rule, Row

\* A note with a state to change is a row.
LEMMA StateOfRow ==
    ASSUME NotesTypeOK, NEW n \in Notes, note[n].state \in {"open", "closed"}
    PROVE  note[n] \in Row
  BY DEF NotesTypeOK, Unborn, Deleted

\* The mirror holds rows after a push.
LEMMA MirrorAfterType ==
    ASSUME mirror \in [Lines -> {"none", "live", "archived"}], NEW entries
    PROVE  mirror_after(entries) \in [Lines -> {"none", "live", "archived"}]
  BY DEF mirror_after

\* The status of a note depends on the rows of its own lines only.
LEMMA StatusOfOwnLines ==
    ASSUME NEW rows, NEW other, NEW n,
           \A l \in Lines : TagOf[l] = n => rows[l] = other[l]
    PROVE  filed_line_status(rows, n) = filed_line_status(other, n)
  <1>1. {l \in Lines : TagOf[l] = n /\ rows[l] # "none"} = {l \in Lines : TagOf[l] = n /\ other[l] # "none"}
    OBVIOUS
  <1>2. {l \in {k \in Lines : TagOf[k] = n /\ rows[k] # "none"} : rows[l] = "live"}
          = {l \in {k \in Lines : TagOf[k] = n /\ other[k] # "none"} : other[l] = "live"}
    OBVIOUS
  <1> QED
    BY <1>1, <1>2 DEF filed_line_status

\* A push that says of a note's lines what the mirror shows changes none of their rows.
LEMMA AgreeingPush ==
    ASSUME TypeOK, NEW n, NEW entries,
           \A l \in Lines : TagOf[l] = n => (l \in entries <=> mirror[l] = "live")
    PROVE  \A l \in Lines : TagOf[l] = n => mirror_after(entries)[l] = mirror[l]
  BY DEF mirror_after, TypeOK

\* Missed pushes are counted up to the cap.
LEMMA AbsentAfterType ==
    ASSUME TypeOK, NEW n \in Notes, NEW status
    PROVE  absent_after(n, status) \in 0..BACKLOG_ABSENT_PUSHES
  BY BacklogAssumption DEF absent_after, TypeOK

\* What one push does to one note.
LEMMA PushOnNote ==
    ASSUME TypeOK, NEW entries, apply_backlog_push(entries), NEW n \in Notes
    PROVE  LET before == filed_line_status(mirror, n)
               after == filed_line_status(mirror', n)
           IN  /\ absent'[n] = IF filed[n] THEN absent_after(n, after) ELSE absent[n]
               /\ note'[n] = IF filed[n] /\ rule_closes(n, before, after) THEN closed_by_rule(note[n], "backlog")
                             ELSE IF filed[n] /\ rule_reopens(n, after) THEN reopened_by_rule(note[n])
                             ELSE note[n]
               /\ bound'[n] = (bound[n] \/ (filed[n] /\ after = "open" /\ note'[n].state = "open"))
               /\ UNCHANGED <<filed, filing, issue>>
  <1> DEFINE before == [m \in Notes |-> filed_line_status(mirror, m)]
             after == [m \in Notes |-> filed_line_status(mirror_after(entries), m)]
  <1>1. /\ mirror' = mirror_after(entries)
        /\ apply_filed_backlog_rule(before, after)
        /\ bound' = [m \in Notes |-> bound[m] \/ (filed[m] /\ after[m] = "open" /\ note'[m].state = "open")]
        /\ UNCHANGED <<filed, filing, issue>>
    BY DEF apply_backlog_push
  <1>2. before[n] = filed_line_status(mirror, n) /\ after[n] = filed_line_status(mirror', n)
    BY <1>1
  <1> HIDE DEF before, after
  <1>3. ~(rule_closes(n, before[n], after[n]) /\ rule_reopens(n, after[n]))
    BY DEF rule_closes, rule_reopens
  <1> QED
    BY <1>1, <1>2, <1>3 DEF apply_filed_backlog_rule

-----------------------------------------------------------------------------
(* Types.                                                                  *)

\* The store as it is before the first push.
LEMMA InitTypeOK == Init => TypeOK
  <1> SUFFICES ASSUME Init PROVE TypeOK
    OBVIOUS
  <1>1. NotesTypeOK
    BY DEF Init, NotesTypeOK, Hands, Row
  <1>2. push \in [entries : SUBSET Lines, tries : 0..HTTP_RETRIES] /\ push = NoPush
    BY BacklogAssumption DEF Init, NoPush
  <1> QED
    BY <1>1, <1>2, BacklogAssumption DEF Init, TypeOK

\* Only a hand reopen that is still protected becomes anything else.
LEMMA StirType ==
    ASSUME NotesTypeOK, NEW notes, Stir(notes)
    PROVE  hand' \in [Notes -> Hands]
  BY DEF NotesTypeOK, Stir, Hands

\* Counting tries never passes the limit, and an attempt given up is no attempt.
LEMMA AgainType ==
    ASSUME TypeOK, push # NoPush, Again
    PROVE  /\ push' \in [entries : SUBSET Lines, tries : 0..HTTP_RETRIES]
           /\ push'.entries = {} => push' = NoPush
           /\ push' # NoPush => push'.entries = push.entries
  <1>1. NoPush \in [entries : SUBSET Lines, tries : 0..HTTP_RETRIES]
    BY BacklogAssumption DEF NoPush
  <1>2. push.entries # {}
    BY DEF TypeOK
  <1> QED
    BY <1>1, <1>2, BacklogAssumption DEF Again, TypeOK

\* A push leaves the tables in their types.
LEMMA PushType ==
    ASSUME TypeOK, NEW entries, apply_backlog_push(entries)
    PROVE  /\ note' \in [Notes -> Row \cup {Unborn, Deleted}]
           /\ mirror' \in [Lines -> {"none", "live", "archived"}]
           /\ absent' \in [Notes -> 0..BACKLOG_ABSENT_PUSHES]
           /\ bound' \in [Notes -> BOOLEAN]
           /\ \A n \in Notes : absent'[n] > 0 => filed'[n]
           /\ UNCHANGED <<filed, filing, issue>>
  <1>1. mirror' \in [Lines -> {"none", "live", "archived"}]
    BY MirrorAfterType DEF apply_backlog_push, TypeOK
  <1>2. /\ DOMAIN note' = Notes /\ note' = [n \in Notes |-> note'[n]]
        /\ absent' = [n \in Notes |-> absent'[n]]
        /\ bound' = [n \in Notes |-> bound'[n]]
    BY DEF apply_backlog_push, apply_filed_backlog_rule
  <1>3. ASSUME NEW n \in Notes
        PROVE  /\ absent'[n] \in 0..BACKLOG_ABSENT_PUSHES /\ bound'[n] \in BOOLEAN
               /\ absent'[n] > 0 => filed'[n]
               /\ note'[n] \in Row \cup {Unborn, Deleted}
    <2> DEFINE before == filed_line_status(mirror, n)
               after == filed_line_status(mirror', n)
    <2>1. /\ absent'[n] = IF filed[n] THEN absent_after(n, after) ELSE absent[n]
          /\ note'[n] = IF filed[n] /\ rule_closes(n, before, after) THEN closed_by_rule(note[n], "backlog")
                        ELSE IF filed[n] /\ rule_reopens(n, after) THEN reopened_by_rule(note[n])
                        ELSE note[n]
          /\ bound'[n] = (bound[n] \/ (filed[n] /\ after = "open" /\ note'[n].state = "open"))
          /\ UNCHANGED <<filed, filing, issue>>
      BY PushOnNote
    <2> HIDE DEF before, after
    <2>2. absent'[n] \in 0..BACKLOG_ABSENT_PUSHES /\ (absent'[n] > 0 => filed'[n])
      BY <2>1, AbsentAfterType DEF TypeOK
    <2>3. bound'[n] \in BOOLEAN
      BY <2>1 DEF TypeOK
    <2>4. rule_closes(n, before, after) \/ rule_reopens(n, after) => note[n] \in Row
      BY StateOfRow DEF rule_closes, rule_reopens, TypeOK
    <2>5. note'[n] \in Row \cup {Unborn, Deleted}
      BY <2>1, <2>4, RuleWritesRow DEF CLOSED_BY, TypeOK, NotesTypeOK
    <2> QED
      BY <2>2, <2>3, <2>5
  <1>4. UNCHANGED <<filed, filing, issue>>
    BY DEF apply_backlog_push
  <1> QED
    BY <1>1, <1>2, <1>3, <1>4

\* Every edit, read, push, filing and hand decision keeps the types.
LEMMA NextTypeOK == TypeOK /\ [Next]_vars => TypeOK'
  <1> SUFFICES ASSUME TypeOK, [Next]_vars PROVE TypeOK'
    OBVIOUS
  <1> USE BacklogAssumption, NullAssumption
  <1>1. ASSUME NEW f \in Files, Edit(f) PROVE TypeOK'
    BY <1>1, StirType DEF Edit, TypeOK, NotesTypeOK, rulevars
  <1>2. ASSUME NEW n \in Notes, PatchState(n) PROVE TypeOK'
    <2> PICK state \in {"open", "closed"} : patch_state(n, state, Quiet /\ Spent(n) /\ ~filing[n])
      BY <1>2 DEF PatchState
    <2>1. note[n] \in Row
      BY StateOfRow DEF patch_state, Exists, TypeOK
    <2>2. [note[n] EXCEPT !.state = state, !.closed_by = NULL] \in Row
      BY <2>1 DEF Row
    <2>3. NotesTypeOK'
      BY <2>2 DEF patch_state, TypeOK, NotesTypeOK, Hands
    <2> QED
      BY <1>2, <2>3 DEF PatchState, TypeOK, sidevars
  <1>3. ASSUME NEW n \in Notes, Delete(n) PROVE TypeOK'
    BY <1>3 DEF Delete, TypeOK, NotesTypeOK, Hands, sidevars
  <1>4. ASSUME NEW n \in Notes, FileCheck(n) PROVE TypeOK'
    BY <1>4, StirType DEF FileCheck, TypeOK, NotesTypeOK, sidevars
  <1>5. ASSUME NEW n \in Notes, mark_filed_backlog(n) PROVE TypeOK'
    <2>1. filed' \in [Notes -> BOOLEAN] /\ \A m \in Notes : filed[m] => filed'[m]
      BY <1>5 DEF mark_filed_backlog, TypeOK, Exists
    <2>2. bound' \in [Notes -> BOOLEAN]
      BY <1>5 DEF mark_filed_backlog, TypeOK
    <2> QED
      BY <1>5, <2>1, <2>2 DEF mark_filed_backlog, TypeOK, NotesTypeOK, sidevars
  <1>6. ASSUME NEW n \in Notes, link_issue(n) PROVE TypeOK'
    BY <1>6 DEF link_issue, TypeOK, NotesTypeOK, sidevars
  <1>7. ASSUME NEW n \in Notes, IssueTransition(n) PROVE TypeOK'
    <2> DEFINE row == CASE issue[n] = "open" /\ note[n].state = "open" -> closed_by_rule(note[n], "issues")
                        [] issue[n] = "closed" /\ note[n].state = "closed" /\ note[n].closed_by = "issues"
                             -> reopened_by_rule(note[n])
                        [] OTHER -> note[n]
    <2>1. row \in Row \cup {Unborn, Deleted}
      BY StateOfRow, RuleWritesRow DEF CLOSED_BY, TypeOK, NotesTypeOK
    <2>2. note' = [note EXCEPT ![n] = row]
      BY <1>7 DEF IssueTransition
    <2>3. NotesTypeOK'
      <3> HIDE DEF row
      <3> QED
        BY <1>7, <2>1, <2>2, StirType DEF IssueTransition, TypeOK, NotesTypeOK
    <2>4. bound' \in [Notes -> BOOLEAN] /\ issue' \in [Notes -> {"none", "open", "closed"}]
      BY <1>7 DEF IssueTransition, TypeOK
    <2> QED
      BY <1>7, <2>3, <2>4 DEF IssueTransition, TypeOK, sidevars
  <1>8. ASSUME NEW entries, Read(entries) PROVE TypeOK'
    <2>1. entries \in SUBSET Lines
      BY <1>8 DEF Read, TypeOK
    <2>2. push' \in [entries : SUBSET Lines, tries : 0..HTTP_RETRIES] /\ push'.entries # {}
      BY <1>8, <2>1 DEF Read
    <2> QED
      BY <1>8, <2>2, StirType DEF Read, TypeOK, NotesTypeOK, rulevars
  <1>9. NoPush \in [entries : SUBSET Lines, tries : 0..HTTP_RETRIES]
    BY DEF NoPush
  <1>10. CASE Answered
    BY <1>9, <1>10, PushType DEF Answered, TypeOK, NotesTypeOK
  <1>11. CASE Unanswered
    BY <1>11, PushType, AgainType DEF Unanswered, TypeOK, NotesTypeOK
  <1>12. CASE Lost
    BY <1>9, <1>12, AgainType DEF Lost, TypeOK, NotesTypeOK, rulevars
  <1>13. CASE TimesOut
    BY <1>13, AgainType DEF TimesOut, TypeOK, NotesTypeOK, rulevars
  <1>14. CASE LateLands
    BY <1>14, PushType DEF LateLands, TypeOK, NotesTypeOK
  <1>15. CASE UNCHANGED vars
    BY <1>15 DEF vars, TypeOK, NotesTypeOK
  <1> QED
    BY <1>1, <1>2, <1>3, <1>4, <1>5, <1>6, <1>7, <1>8, <1>10, <1>11, <1>12, <1>13, <1>14, <1>15
       DEF Next, ReadWhole, ReadTruncated

\* The tables of the backlog mirror and the Mac's request hold what they may hold; no push,
\* however late or often repeated, counts a missed line past BACKLOG_ABSENT_PUSHES.
THEOREM TypeCorrect == Spec => []TypeOK
  BY InitTypeOK, NextTypeOK, PTL DEF Spec

-----------------------------------------------------------------------------
(* Notes.  NoteInv is the inductive strengthening of HandDecisionsStick    *)
(* and NoteFollowsLine, for one note.                                      *)

\* What is said about a note's lines here agrees with the file.
Agrees(n, lines) == \A l \in Lines : TagOf[l] = n => (l \in lines <=> l \in file)

\* A note closed by hand belongs to no rule.
ClosedInv(n) == hand[n] = "closed" => note[n].state = "closed" /\ note[n].closed_by = NULL

\* After a hand reopen the mirror and every push on its way say the same of the note's lines,
\* and the rule has nothing left to do about it.
CalmInv(n) ==
    hand[n] = "calm" =>
        /\ note[n].state = "open" /\ ~filing[n] /\ Spent(n)
        /\ Agrees(n, LiveLines)
        /\ push # NoPush => Agrees(n, push.entries)
        /\ late # {} => Agrees(n, late)

\* A note bound to its line is filed, belongs to the backlog rule while it is closed, and
\* follows the line.
BoundInv(n) ==
    bound[n] =>
        /\ filed[n]
        /\ note[n].state = "closed" => note[n].closed_by = "backlog"
        /\ note[n].state \in {"open", "closed"}
        /\ filed_line_status(mirror, n) = "open" => note[n].state = "open"
        /\ filed_line_status(mirror, n) = "done" => note[n].state = "closed"
        /\ absent[n] = BACKLOG_ABSENT_PUSHES => note[n].state = "closed"

NoteInv(n) == ClosedInv(n) /\ CalmInv(n) /\ BoundInv(n)

\* At the start nothing is filed and nothing was decided by hand.
LEMMA InitNoteInv == Init => \A n \in Notes : NoteInv(n)
  BY DEF Init, NoteInv, ClosedInv, CalmInv, BoundInv

\* Stir leaves hand closes alone and protects only what it protected before.
LEMMA StirKeeps ==
    ASSUME NEW notes, NEW n \in Notes, Stir(notes)
    PROVE  /\ hand'[n] = "closed" => hand[n] = "closed"
           /\ hand'[n] = "calm" => hand[n] = "calm" /\ n \notin notes
  BY DEF Stir

\* A push keeps the three invariants of a note, if what it says of a protected note's lines
\* agrees with the file.
LEMMA PushKeepsNote ==
    ASSUME TypeOK, NEW n \in Notes, NoteInv(n), NEW entries, apply_backlog_push(entries),
           UNCHANGED <<hand, file>>,
           hand[n] = "calm" => Agrees(n, entries)
    PROVE  /\ ClosedInv(n)' /\ BoundInv(n)'
           /\ hand'[n] = "calm" => /\ note'[n].state = "open" /\ ~filing'[n] /\ Spent(n)'
                                   /\ Agrees(n, LiveLines)'
  <1> DEFINE before == filed_line_status(mirror, n)
             after == filed_line_status(mirror', n)
  <1>1. /\ absent'[n] = IF filed[n] THEN absent_after(n, after) ELSE absent[n]
        /\ note'[n] = IF filed[n] /\ rule_closes(n, before, after) THEN closed_by_rule(note[n], "backlog")
                      ELSE IF filed[n] /\ rule_reopens(n, after) THEN reopened_by_rule(note[n])
                      ELSE note[n]
        /\ bound'[n] = (bound[n] \/ (filed[n] /\ after = "open" /\ note'[n].state = "open"))
        /\ UNCHANGED <<filed, filing, issue>>
    BY PushOnNote
  <1>2. /\ BACKLOG_ABSENT_PUSHES \in Nat \ {0} /\ absent[n] \in 0..BACKLOG_ABSENT_PUSHES
        /\ absent[n] > 0 => filed[n]
        /\ NULL # "backlog"
    BY BacklogAssumption, NullAssumption DEF TypeOK
  <1>3. rule_closes(n, before, after) \/ rule_reopens(n, after) => note[n] \in Row
    BY StateOfRow DEF rule_closes, rule_reopens, TypeOK
  <1>4. ClosedInv(n)'
    <2> HIDE DEF before, after
    <2> QED
      BY <1>1, <1>2 DEF NoteInv, ClosedInv, rule_closes, rule_reopens
  <1>5. BoundInv(n)'
    <2> HIDE DEF before, after
    <2>1. /\ rule_closes(n, before, after) =>
                /\ closed_by_rule(note[n], "backlog").state = "closed"
                /\ closed_by_rule(note[n], "backlog").closed_by = "backlog"
          /\ rule_reopens(n, after) => reopened_by_rule(note[n]).state = "open"
      BY <1>3, RuleWritesRow DEF CLOSED_BY
    <2>2. CASE ~bound[n]
      BY <1>1, <1>2, <2>1, <2>2 DEF BoundInv, absent_after, after
    <2>3. CASE bound[n]
      <3>1. /\ filed[n] /\ filed'[n]
            /\ note[n].state \in {"open", "closed"}
            /\ note[n].state = "closed" => note[n].closed_by = "backlog"
            /\ before = "open" => note[n].state = "open"
            /\ before = "done" => note[n].state = "closed"
            /\ absent[n] = BACKLOG_ABSENT_PUSHES => note[n].state = "closed"
        BY <1>1, <2>3 DEF NoteInv, BoundInv, before
      <3>2. CASE after = "open"
        BY <1>1, <1>2, <2>1, <3>1, <3>2 DEF BoundInv, absent_after, rule_closes, rule_reopens, after
      <3>3. CASE after = "done" /\ after # "open"
        BY <1>1, <1>2, <2>1, <3>1, <3>3 DEF BoundInv, absent_after, rule_closes, rule_reopens, after
      <3>4. CASE after \notin {"open", "done"}
        BY <1>1, <1>2, <2>1, <3>1, <3>4 DEF BoundInv, absent_after, rule_closes, rule_reopens, after
      <3> QED
        BY <3>2, <3>3, <3>4
    <2> QED
      BY <2>2, <2>3
  <1>6. ASSUME hand'[n] = "calm"
        PROVE  /\ note'[n].state = "open" /\ ~filing'[n] /\ Spent(n)'
               /\ Agrees(n, LiveLines)'
    <2>1. /\ note[n].state = "open" /\ ~filing[n] /\ Spent(n)
          /\ Agrees(n, LiveLines) /\ Agrees(n, entries)
      BY <1>6 DEF NoteInv, CalmInv
    <2>2. \A l \in Lines : TagOf[l] = n => (l \in entries <=> mirror[l] = "live")
      BY <2>1 DEF Agrees, LiveLines
    <2>3. \A l \in Lines : TagOf[l] = n => mirror'[l] = mirror[l]
      BY <2>2, AgreeingPush, ZenonT(40) DEF apply_backlog_push
    <2>4. after = before
      BY <2>3, StatusOfOwnLines
    <2>5. Agrees(n, LiveLines)'
      BY <2>1, <2>3 DEF Agrees, LiveLines
    <2> HIDE DEF before, after
    <2>6. filed[n] => before \in {"open", "done"} \/ absent[n] = BACKLOG_ABSENT_PUSHES
      BY <2>1 DEF Spent, before
    <2>7. ~(filed[n] /\ rule_closes(n, before, after))
      BY <1>2, <2>4, <2>6 DEF rule_closes
    <2>8. note'[n].state = "open" /\ ~filing'[n]
      BY <1>1, <2>1, <2>7 DEF rule_reopens
    <2>9. filed'[n] => after \in {"open", "done"} \/ absent'[n] = BACKLOG_ABSENT_PUSHES
      BY <1>1, <1>2, <2>4, <2>6 DEF absent_after
    <2> QED
      BY <2>5, <2>8, <2>9 DEF Spent, after
  <1> QED
    BY <1>4, <1>5, <1>6

\* Every step keeps what is known of each note: a hand decision changes it on the spot,
\* a push only where a line of the note changed.
LEMMA NextNoteInv ==
    TypeOK /\ (\A n \in Notes : NoteInv(n)) /\ [Next]_vars => (\A n \in Notes : NoteInv(n))'
  <1> SUFFICES ASSUME TypeOK, \A m \in Notes : NoteInv(m), [Next]_vars, NEW n \in Notes
               PROVE  NoteInv(n)'
    OBVIOUS
  <1> USE BacklogAssumption, NullAssumption
  <1>0. ClosedInv(n) /\ CalmInv(n) /\ BoundInv(n)
    BY DEF NoteInv
  <1>1. ASSUME NEW f \in Files, Edit(f) PROVE NoteInv(n)'
    <2>1. hand'[n] = "calm" => hand[n] = "calm" /\ \A l \in Lines : TagOf[l] = n => (l \in f <=> l \in file)
      <3>1. f \subseteq Lines /\ file \subseteq Lines
        BY DEF TypeOK
      <3> QED
        BY <1>1, <3>1, StirKeeps DEF Edit
    <2>2. \A lines : hand'[n] = "calm" /\ Agrees(n, lines) => \A l \in Lines : TagOf[l] = n => (l \in lines <=> l \in file')
      BY <1>1, <2>1 DEF Edit, Agrees
    <2>3. CalmInv(n)'
      BY <1>0, <1>1, <2>1, <2>2 DEF CalmInv, Edit, rulevars, Spent, LiveLines, Agrees
    <2>4. ClosedInv(n)' /\ BoundInv(n)'
      BY <1>0, <1>1, StirKeeps DEF ClosedInv, BoundInv, Edit, rulevars
    <2> QED
      BY <2>3, <2>4 DEF NoteInv
  <1>2. ASSUME NEW m \in Notes, PatchState(m) PROVE NoteInv(n)'
    <2> PICK state \in {"open", "closed"} : patch_state(m, state, Quiet /\ Spent(m) /\ ~filing[m])
      BY <1>2 DEF PatchState
    <2>0. UNCHANGED <<file, push, late, mirror, filed, absent, filing>>
      BY <1>2 DEF PatchState, sidevars
    <2>1. CASE m # n
      <3>1. note'[n] = note[n] /\ hand'[n] = hand[n] /\ bound'[n] = bound[n]
        BY <1>2, <2>1 DEF patch_state, PatchState, TypeOK, NotesTypeOK
      <3> QED
        BY <1>0, <2>0, <3>1 DEF NoteInv, ClosedInv, CalmInv, BoundInv, Spent, LiveLines, Agrees
    <2>2. CASE m = n
      <3>1. note[n] \in Row
        BY <2>2, StateOfRow DEF patch_state, Exists, TypeOK
      <3>2. note'[n].state = state /\ note'[n].closed_by = NULL
        BY <2>2, <3>1 DEF patch_state, TypeOK, NotesTypeOK, Row
      <3>3. /\ hand'[n] = "closed" => state = "closed"
            /\ hand'[n] = "calm" => state = "open" /\ Quiet /\ Spent(n) /\ ~filing[n]
        BY <2>2 DEF patch_state, TypeOK, NotesTypeOK
      <3>4. ~bound'[n]
        BY <1>2, <2>2 DEF PatchState, TypeOK
      <3>5. Quiet => Agrees(n, LiveLines) /\ push = NoPush /\ late = {}
        BY DEF Quiet, Agrees
      <3> QED
        BY <2>0, <3>2, <3>3, <3>4, <3>5 DEF NoteInv, ClosedInv, CalmInv, BoundInv, Spent, LiveLines, Agrees
    <2> QED
      BY <2>1, <2>2
  <1>3. ASSUME NEW m \in Notes, Delete(m) PROVE NoteInv(n)'
    <2>1. CASE m # n
      <3>1. /\ note'[n] = note[n] /\ hand'[n] = hand[n] /\ bound'[n] = bound[n]
            /\ filed'[n] = filed[n] /\ absent'[n] = absent[n]
            /\ UNCHANGED <<file, push, late, mirror, filing>>
        BY <1>3, <2>1 DEF Delete, TypeOK, NotesTypeOK, sidevars
      <3> QED
        BY <1>0, <3>1 DEF NoteInv, ClosedInv, CalmInv, BoundInv, Spent, LiveLines, Agrees
    <2>2. CASE m = n
      <3>1. hand'[n] = "none" /\ ~bound'[n]
        BY <1>3, <2>2 DEF Delete, TypeOK, NotesTypeOK
      <3> QED
        BY <3>1 DEF NoteInv, ClosedInv, CalmInv, BoundInv
    <2> QED
      BY <2>1, <2>2
  <1>4. ASSUME NEW m \in Notes, FileCheck(m) PROVE NoteInv(n)'
    <2>1. /\ hand'[n] = "closed" => hand[n] = "closed"
          /\ hand'[n] = "calm" => hand[n] = "calm" /\ n # m
      BY <1>4, StirKeeps DEF FileCheck
    <2>2. n # m => filing'[n] = filing[n]
      BY <1>4 DEF FileCheck, TypeOK
    <2>3. UNCHANGED <<file, push, late, mirror, filed, absent, bound, note>>
      BY <1>4 DEF FileCheck, sidevars
    <2> QED
      BY <1>0, <2>1, <2>2, <2>3 DEF NoteInv, ClosedInv, CalmInv, BoundInv, Spent, LiveLines, Agrees
  <1>5. ASSUME NEW m \in Notes, mark_filed_backlog(m) PROVE NoteInv(n)'
    <2>0. UNCHANGED <<file, push, late, mirror, absent, note, hand>>
      BY <1>5 DEF mark_filed_backlog, sidevars
    <2>1. CASE m # n
      <3>1. filing'[n] = filing[n] /\ filed'[n] = filed[n] /\ bound'[n] = bound[n]
        BY <1>5, <2>1 DEF mark_filed_backlog, TypeOK
      <3> QED
        BY <1>0, <2>0, <3>1 DEF NoteInv, ClosedInv, CalmInv, BoundInv, Spent, LiveLines, Agrees
    <2>2. CASE m = n
      <3>1. hand[n] # "calm"
        BY <1>0, <1>5, <2>2 DEF mark_filed_backlog, CalmInv
      <3>2. filed'[n] = (filed[n] \/ Exists(n))
        BY <1>5, <2>2 DEF mark_filed_backlog, TypeOK
      <3>3. bound'[n] => bound[n] \/ (/\ ~filed[n] /\ note[n].state = "open"
                                      /\ filed_line_status(mirror, n) # "done")
        BY <1>5, <2>2 DEF mark_filed_backlog, TypeOK
      <3>4. ~filed[n] => absent[n] # BACKLOG_ABSENT_PUSHES
        BY DEF TypeOK
      <3>5. BoundInv(n)'
        BY <1>0, <2>0, <3>2, <3>3, <3>4 DEF BoundInv, Exists
      <3> QED
        BY <1>0, <2>0, <3>1, <3>5 DEF NoteInv, ClosedInv, CalmInv
    <2> QED
      BY <2>1, <2>2
  <1>6. ASSUME NEW m \in Notes, link_issue(m) PROVE NoteInv(n)'
    BY <1>0, <1>6 DEF link_issue, sidevars, NoteInv, ClosedInv, CalmInv, BoundInv, Spent, LiveLines, Agrees
  <1>7. ASSUME NEW m \in Notes, IssueTransition(m) PROVE NoteInv(n)'
    <2>0. UNCHANGED <<file, push, late, mirror, filed, absent, filing>>
      BY <1>7 DEF IssueTransition, sidevars
    <2>1. /\ hand'[n] = "closed" => hand[n] = "closed"
          /\ hand'[n] = "calm" => hand[n] = "calm" /\ n # m
      BY <1>7, StirKeeps DEF IssueTransition
    <2>2. CASE m # n
      <3>1. note'[n] = note[n] /\ bound'[n] = bound[n]
        BY <1>7, <2>2 DEF IssueTransition, TypeOK, NotesTypeOK
      <3> QED
        BY <1>0, <2>0, <2>1, <3>1 DEF NoteInv, ClosedInv, CalmInv, BoundInv, Spent, LiveLines, Agrees
    <2>3. CASE m = n
      <3>1. bound'[n] => bound[n] /\ note'[n] = note[n]
        BY <1>7, <2>3 DEF IssueTransition, TypeOK
      <3>2. BoundInv(n)'
        BY <1>0, <2>0, <3>1 DEF BoundInv
      <3>3. hand[n] = "closed" => note'[n] = note[n]
        BY <1>0, <1>7, <2>3 DEF ClosedInv, IssueTransition, TypeOK, NotesTypeOK
      <3> QED
        BY <1>0, <2>1, <2>3, <3>2, <3>3 DEF NoteInv, ClosedInv, CalmInv
    <2> QED
      BY <2>2, <2>3
  <1>8. ASSUME NEW entries, Read(entries) PROVE NoteInv(n)'
    <2>0. UNCHANGED <<file, late, mirror, filed, absent, filing, bound, note>> /\ push'.entries = entries
      BY <1>8 DEF Read, rulevars
    <2>1. /\ hand'[n] = "closed" => hand[n] = "closed"
          /\ hand'[n] = "calm" => hand[n] = "calm" /\ entries = file
      BY <1>8, StirKeeps DEF Read
    <2> QED
      BY <1>0, <2>0, <2>1 DEF NoteInv, ClosedInv, CalmInv, BoundInv, Spent, LiveLines, Agrees
  <1>9. ASSUME push # NoPush, apply_backlog_push(push.entries), UNCHANGED <<file, late, hand>>,
               push' = NoPush \/ push'.entries = push.entries
        PROVE  NoteInv(n)'
    <2>1. hand[n] = "calm" => Agrees(n, push.entries)
      BY <1>0, <1>9 DEF CalmInv
    <2>2. /\ ClosedInv(n)' /\ BoundInv(n)'
          /\ hand'[n] = "calm" => /\ note'[n].state = "open" /\ ~filing'[n] /\ Spent(n)'
                                  /\ Agrees(n, LiveLines)'
      BY <1>9, <2>1, PushKeepsNote
    <2> QED
      BY <1>0, <1>9, <2>2 DEF NoteInv, CalmInv, Agrees
  <1>10. CASE Answered
    BY <1>9, <1>10 DEF Answered
  <1>11. CASE Unanswered
    BY <1>9, <1>11, AgainType DEF Unanswered
  <1>12. CASE Lost
    <2>1. push' = NoPush \/ push'.entries = push.entries
      BY <1>12, AgainType DEF Lost
    <2> QED
      BY <1>0, <1>12, <2>1 DEF Lost, rulevars, NoteInv, ClosedInv, CalmInv, BoundInv, Spent, LiveLines, Agrees
  <1>13. CASE TimesOut
    <2>1. push' = NoPush \/ push'.entries = push.entries
      BY <1>13, AgainType DEF TimesOut
    <2> QED
      BY <1>0, <1>13, <2>1 DEF TimesOut, rulevars, NoteInv, ClosedInv, CalmInv, BoundInv, Spent, LiveLines, Agrees
  <1>14. CASE LateLands
    <2>1. hand[n] = "calm" => Agrees(n, late)
      BY <1>0, <1>14 DEF CalmInv, LateLands
    <2>2. /\ ClosedInv(n)' /\ BoundInv(n)'
          /\ hand'[n] = "calm" => /\ note'[n].state = "open" /\ ~filing'[n] /\ Spent(n)'
                                  /\ Agrees(n, LiveLines)'
      BY <1>14, <2>1, PushKeepsNote DEF LateLands
    <2> QED
      BY <1>0, <1>14, <2>2 DEF LateLands, NoteInv, CalmInv, Agrees
  <1>15. CASE UNCHANGED vars
    BY <1>0, <1>15 DEF vars, NoteInv, ClosedInv, CalmInv, BoundInv, Spent, LiveLines, Agrees
  <1> QED
    BY <1>1, <1>2, <1>3, <1>4, <1>5, <1>6, <1>7, <1>8, <1>10, <1>11, <1>12, <1>13, <1>14, <1>15
       DEF Next, ReadWhole, ReadTruncated

\* The invariant of the notes, for every behaviour.
LEMMA NoteInvAlways == Spec => [](\A n \in Notes : NoteInv(n))
  BY InitNoteInv, NextNoteInv, TypeCorrect, PTL DEF Spec

\* A note closed by hand stays closed and a note reopened by hand stays open, whatever pushes
\* are repeated or land late, until its line or its issue changes or a read is truncated.
THEOREM HandDecisionsStand == Spec => []HandDecisionsStick
  <1>1. (\A n \in Notes : NoteInv(n)) => HandDecisionsStick
    BY DEF NoteInv, ClosedInv, CalmInv, HandDecisionsStick
  <1> QED
    BY <1>1, NoteInvAlways, PTL

\* No edge of a line is lost: a bound note is open with an open line, closed when its lines are
\* done and closed when BACKLOG_ABSENT_PUSHES pushes in a row missed it.
THEOREM NotesFollowTheirLine == Spec => []NoteFollowsLine
  <1>1. (\A n \in Notes : NoteInv(n)) => NoteFollowsLine
    BY DEF NoteInv, BoundInv, NoteFollowsLine
  <1> QED
    BY <1>1, NoteInvAlways, PTL
=============================================================================
