-------------------------- MODULE IssueMirrorProofs --------------------------
(***************************************************************************)
(* Proofs about IssueMirror, for any number of notes, repositories and     *)
(* issues: types, one card per issue, notes that follow their issues, and  *)
(* decisions made by hand that stand.                                      *)
(***************************************************************************)
EXTENDS IssueMirror, OrderFacts, TLAPS

-----------------------------------------------------------------------------
(* What the operators of a scan return.                                    *)

\* archived keeps the shape of a row, never leaves it live and never invents one.
LEMMA ArchivedRow ==
    ASSUME NEW row \in MirrorRow \cup {NoItem}
    PROVE  archived(row) \in MirrorRow \cup {NoItem} /\ ~Live(archived(row))
  BY DEF archived, Live, MirrorRow, NoItem

\* A page of the listing holds open issues only.
LEMMA PageIsOpen ==
    ASSUME NEW open, NEW k
    PROVE  page_of(open, k) \subseteq open
  BY DEF page_of

\* forget_etag returns ETags or NULL.
LEMMA ForgetEtagType ==
    ASSUME NEW tags \in [Repos -> (SUBSET Issues) \cup {NULL}], NEW repos
    PROVE  forget_etag(tags, repos) \in [Repos -> (SUBSET Issues) \cup {NULL}]
  BY DEF forget_etag

\* A rule writes a row over a row.
LEMMA RuleWritesRow ==
    ASSUME NEW row \in Row, NEW rule \in CLOSED_BY
    PROVE  /\ closed_by_rule(row, rule) \in Row /\ reopened_by_rule(row) \in Row
           /\ closed_by_rule(row, rule).state = "closed" /\ closed_by_rule(row, rule).closed_by = rule
           /\ reopened_by_rule(row).state = "open"
  BY DEF closed_by_rule, reopened_by_rule, Row

\* A note that exists is a row.
LEMMA ExistsRow ==
    ASSUME NotesTypeOK, NEW n \in Notes
    PROVE  Exists(n) <=> note[n] \in Row
  BY DEF NotesTypeOK, Exists, Row, Unborn, Deleted

\* A scan writes rows over rows and leaves what does not exist alone.
LEMMA TransitionsKeepRows ==
    ASSUME NotesTypeOK, NEW after, NEW n \in Notes
    PROVE  /\ note[n] \in Row => apply_issue_transitions(after)[n] \in Row
           /\ note[n] \notin Row => apply_issue_transitions(after)[n] = note[n]
  <1> DEFINE went(from, to) == \E i \in Issues : link[n][i] = from /\ after[n][i] = to
             reopened == IF went("closed", "open") /\ note[n].state = "closed" /\ note[n].closed_by = "issues"
                         THEN reopened_by_rule(note[n]) ELSE note[n]
  <1>1. apply_issue_transitions(after)[n] =
           IF went("open", "closed") /\ reopened.state = "open" /\ \A i \in Issues : after[n][i] # "open"
           THEN closed_by_rule(reopened, "issues") ELSE reopened
    BY DEF apply_issue_transitions
  <1>2. CASE note[n] \in Row
    <2>1. reopened \in Row
      BY <1>2, RuleWritesRow DEF CLOSED_BY
    <2> HIDE DEF reopened
    <2> QED
      BY <1>1, <1>2, <2>1, RuleWritesRow DEF CLOSED_BY
  <1>3. CASE note[n] \notin Row
    <2>1. note[n].state \notin {"open", "closed"}
      BY <1>3 DEF NotesTypeOK, Unborn, Deleted
    <2> QED
      BY <1>1, <1>3, <2>1
  <1> QED
    BY <1>2, <1>3

\* Rows after a scan are rows.
LEMMA MirrorAfterType ==
    ASSUME mirror \in [Issues -> MirrorRow \cup {NoItem}], NEW r, NEW open
    PROVE  mirror_after(r, open) \in [Issues -> MirrorRow \cup {NoItem}]
  <1> SUFFICES ASSUME NEW i \in Issues
               PROVE  mirror_after(r, open)[i] \in MirrorRow \cup {NoItem}
    BY DEF mirror_after
  <1> DEFINE base == IF i \in open THEN listed(i) ELSE mirror[i]
             row == unarchived(i, base)
  <1>1. base \in MirrorRow \cup {NoItem}
    BY ArchivedRow DEF listed, MirrorRow
  <1>2. row \in MirrorRow \cup {NoItem}
    BY <1>1 DEF unarchived, MirrorRow, NoItem
  <1>3. closed_missing(row) \in MirrorRow \cup {NoItem}
    BY <1>2 DEF closed_missing, Live, MirrorRow, NoItem
  <1> QED
    BY <1>2, <1>3 DEF mirror_after

-----------------------------------------------------------------------------
(* Types.                                                                  *)

\* Disturb keeps the scan and the history in their types.
LEMMA DisturbType ==
    ASSUME ScanTypeOK, HistoryTypeOK, NEW repos, Disturb(repos)
    PROVE  /\ scan' \in Scan \cup {NoScan}
           /\ scan' # NoScan => scan # NoScan
           /\ scan'.repo = scan.repo
           /\ agreed' \in [Repos -> BOOLEAN]
  <1>1. CASE scan = NoScan
    BY <1>1 DEF Disturb, NoScan, HistoryTypeOK
  <1>2. CASE scan # NoScan
    BY <1>2 DEF Disturb, Scan, ScanTypeOK, HistoryTypeOK
  <1> QED
    BY <1>1, <1>2

\* The store at the first boot.
LEMMA InitTypeOK == Init => TypeOK
  <1> SUFFICES ASSUME Init PROVE TypeOK
    OBVIOUS
  <1> USE IssuesAssumption, NullAssumption
  <1>1. NotesTypeOK
    BY DEF Init, NotesInit, NotesTypeOK, Hands
  <1>2. StoreTypeOK
    <2>1. NotDeleting \in [at : {"idle", "read", "gone"}, repos : SUBSET Repos]
      BY DEF NotDeleting
    <2> QED
      BY <2>1 DEF Init, StoreTypeOK
  <1>3. ScanTypeOK
    BY DEF Init, ScanTypeOK
  <1>4. HistoryTypeOK
    BY DEF Init, HistoryTypeOK
  <1> QED
    BY <1>1, <1>2, <1>3, <1>4 DEF TypeOK

\* Every request, scan, boot and change on GitHub keeps the types.
LEMMA NextTypeOK == TypeOK /\ [Next]_vars => TypeOK'
  <1> SUFFICES ASSUME TypeOK, [Next]_vars PROVE TypeOK'
    OBVIOUS
  <1> USE IssuesAssumption, NullAssumption
  <1>a. CASE UNCHANGED vars
    BY <1>a DEF vars, TypeOK, NotesTypeOK, StoreTypeOK, ScanTypeOK, HistoryTypeOK
  <1>1. ASSUME NEW i \in Issues, Upstream(i) PROVE TypeOK'
    <2>d. scan' \in Scan \cup {NoScan} /\ (scan' # NoScan => scan # NoScan) /\ scan'.repo = scan.repo /\ agreed' \in [Repos -> BOOLEAN]
      BY <1>1, DisturbType DEF Upstream, TypeOK
    <2>1. NotesTypeOK'
      BY <1>1 DEF Upstream, TypeOK, NotesTypeOK, Hands
    <2>2. StoreTypeOK'
      BY <1>1 DEF Upstream, TypeOK, StoreTypeOK
    <2>3. ScanTypeOK'
      BY <1>1, <2>d DEF Upstream, TypeOK, ScanTypeOK
    <2>4. HistoryTypeOK'
      BY <1>1, <2>d DEF Upstream, TypeOK, HistoryTypeOK
    <2> QED
      BY <2>1, <2>2, <2>3, <2>4 DEF TypeOK
  <1>2. ASSUME NEW n \in Notes, Create(n) PROVE TypeOK'
    <2>1. NotesTypeOK'
      BY <1>2 DEF Create, TypeOK, NotesTypeOK, create_item, Row
    <2>2. StoreTypeOK'
      BY <1>2 DEF Create, TypeOK, StoreTypeOK
    <2>3. ScanTypeOK'
      BY <1>2 DEF Create, TypeOK, ScanTypeOK, scanvars, histvars
    <2>4. HistoryTypeOK'
      BY <1>2 DEF Create, TypeOK, HistoryTypeOK, scanvars, histvars
    <2> QED
      BY <2>1, <2>2, <2>3, <2>4 DEF TypeOK
  <1>3. ASSUME NEW n \in Notes, PatchReviewed(n) PROVE TypeOK'
    <2>1. NotesTypeOK'
      <3>1. note[n] \in Row
        BY <1>3, ExistsRow DEF PatchReviewed, patch_reviewed, TypeOK
      <3>2. [note[n] EXCEPT !.reviewed = ~@] \in Row
        BY <3>1 DEF Row
      <3> QED
        BY <1>3, <3>2 DEF PatchReviewed, patch_reviewed, TypeOK, NotesTypeOK
    <2>2. StoreTypeOK'
      BY <1>3 DEF PatchReviewed, TypeOK, StoreTypeOK
    <2>3. ScanTypeOK'
      BY <1>3 DEF PatchReviewed, TypeOK, ScanTypeOK, scanvars, histvars
    <2>4. HistoryTypeOK'
      BY <1>3 DEF PatchReviewed, TypeOK, HistoryTypeOK, scanvars, histvars
    <2> QED
      BY <2>1, <2>2, <2>3, <2>4 DEF TypeOK
  <1>4. ASSUME NEW n \in Notes, PatchState(n) PROVE TypeOK'
    <2>1. NotesTypeOK'
      <3>1. note[n] \in Row
        BY <1>4, ExistsRow DEF PatchState, patch_state, TypeOK
      <3>2. PICK state \in {"open", "closed"}, calm \in BOOLEAN : patch_state(n, state, calm)
        BY <1>4 DEF PatchState
      <3>3. [note[n] EXCEPT !.state = state, !.closed_by = NULL] \in Row
        BY <3>1 DEF Row
      <3>4. note' \in [Notes -> Row \cup {Unborn, Deleted}]
        BY <3>2, <3>3 DEF patch_state, TypeOK, NotesTypeOK
      <3>5. hand' \in [Notes -> Hands]
        BY <3>2 DEF patch_state, TypeOK, NotesTypeOK, Hands
      <3> QED
        BY <3>4, <3>5 DEF NotesTypeOK
    <2>2. StoreTypeOK'
      BY <1>4 DEF PatchState, TypeOK, StoreTypeOK
    <2>3. ScanTypeOK'
      BY <1>4 DEF PatchState, TypeOK, ScanTypeOK, scanvars, histvars
    <2>4. HistoryTypeOK'
      BY <1>4 DEF PatchState, TypeOK, HistoryTypeOK, scanvars, histvars
    <2> QED
      BY <2>1, <2>2, <2>3, <2>4 DEF TypeOK
  <1>5. ASSUME NEW n \in Notes, DeleteRead(n) PROVE TypeOK'
    <2>1. NotesTypeOK'
      BY <1>5 DEF DeleteRead, TypeOK, NotesTypeOK
    <2>2. StoreTypeOK'
      <3>1. [at |-> "read", repos |-> {RepoOf[i] : i \in Links(n)}] \in
                [at : {"idle", "read", "gone"}, repos : SUBSET Repos]
        BY DEF Links
      <3> QED
        BY <1>5, <3>1 DEF DeleteRead, TypeOK, StoreTypeOK
    <2>3. ScanTypeOK'
      BY <1>5 DEF DeleteRead, TypeOK, ScanTypeOK, scanvars, histvars
    <2>4. HistoryTypeOK'
      BY <1>5 DEF DeleteRead, TypeOK, HistoryTypeOK, scanvars, histvars
    <2> QED
      BY <2>1, <2>2, <2>3, <2>4 DEF TypeOK
  <1>6. ASSUME NEW n \in Notes, DeleteRow(n) PROVE TypeOK'
    <2>d. scan' \in Scan \cup {NoScan} /\ (scan' # NoScan => scan # NoScan) /\ scan'.repo = scan.repo /\ agreed' \in [Repos -> BOOLEAN]
      BY <1>6, DisturbType DEF DeleteRow, TypeOK
    <2>1. NotesTypeOK'
      BY <1>6 DEF DeleteRow, TypeOK, NotesTypeOK, Hands
    <2>2. StoreTypeOK'
      BY <1>6, SMTT(40) DEF DeleteRow, TypeOK, StoreTypeOK
    <2>3. ScanTypeOK'
      BY <1>6, <2>d DEF DeleteRow, TypeOK, ScanTypeOK
    <2>4. HistoryTypeOK'
      BY <1>6, <2>d DEF DeleteRow, TypeOK, HistoryTypeOK, Links
    <2> QED
      BY <2>1, <2>2, <2>3, <2>4 DEF TypeOK
  <1>7. ASSUME NEW n \in Notes, DeleteForget(n) PROVE TypeOK'
    <2>d. scan' \in Scan \cup {NoScan} /\ (scan' # NoScan => scan # NoScan) /\ scan'.repo = scan.repo /\ agreed' \in [Repos -> BOOLEAN]
      BY <1>7, DisturbType DEF DeleteForget, TypeOK
    <2>1. NotesTypeOK'
      BY <1>7 DEF DeleteForget, TypeOK, NotesTypeOK
    <2>2. StoreTypeOK'
      <3>1. NotDeleting \in [at : {"idle", "read", "gone"}, repos : SUBSET Repos]
        BY DEF NotDeleting
      <3> QED
        BY <1>7, <3>1, ForgetEtagType DEF DeleteForget, TypeOK, StoreTypeOK
    <2>3. ScanTypeOK'
      BY <1>7, <2>d DEF DeleteForget, TypeOK, ScanTypeOK
    <2>4. HistoryTypeOK'
      BY <1>7, <2>d DEF DeleteForget, TypeOK, HistoryTypeOK
    <2> QED
      BY <2>1, <2>2, <2>3, <2>4 DEF TypeOK
  <1>8. ASSUME NEW n \in Notes, NEW i \in Issues, link_issue(n, i) PROVE TypeOK'
    <2>d. scan' \in Scan \cup {NoScan} /\ (scan' # NoScan => scan # NoScan) /\ scan'.repo = scan.repo /\ agreed' \in [Repos -> BOOLEAN]
      BY <1>8, DisturbType DEF link_issue, TypeOK
    <2>1. NotesTypeOK'
      BY <1>8 DEF link_issue, TypeOK, NotesTypeOK, Hands
    <2>2. StoreTypeOK'
      <3>1. archived(mirror[i]) \in MirrorRow \cup {NoItem}
        BY ArchivedRow DEF TypeOK, StoreTypeOK
      <3>2. etag' \in [Repos -> (SUBSET Issues) \cup {NULL}]
        BY <1>8, ForgetEtagType DEF link_issue, TypeOK, StoreTypeOK
      <3> QED
        BY <1>8, <3>1, <3>2 DEF link_issue, TypeOK, StoreTypeOK
    <2>3. ScanTypeOK'
      BY <1>8, <2>d DEF link_issue, TypeOK, ScanTypeOK
    <2>4. HistoryTypeOK'
      BY <1>8, <2>d DEF link_issue, TypeOK, HistoryTypeOK
    <2> QED
      BY <2>1, <2>2, <2>3, <2>4 DEF TypeOK
  <1>9. CASE SyncStart
    <2>1. NotesTypeOK'
      BY <1>9 DEF SyncStart, TypeOK, NotesTypeOK
    <2>2. StoreTypeOK'
      <3>1. \A i \in Issues : archived(mirror[i]) \in MirrorRow \cup {NoItem}
        BY ArchivedRow DEF TypeOK, StoreTypeOK
      <3>2. etag' \in [Repos -> (SUBSET Issues) \cup {NULL}]
        BY <1>9, ForgetEtagType DEF SyncStart, archive_unwatched, TypeOK, StoreTypeOK
      <3> QED
        BY <1>9, <3>1, <3>2 DEF SyncStart, archive_unwatched, TypeOK, StoreTypeOK
    <2>3. ScanTypeOK'
      BY <1>9 DEF SyncStart, TypeOK, ScanTypeOK
    <2>4. HistoryTypeOK'
      BY <1>9 DEF SyncStart, TypeOK, HistoryTypeOK, histvars
    <2> QED
      BY <2>1, <2>2, <2>3, <2>4 DEF TypeOK
  <1>10. ASSUME NEW r \in Repos, ScanBackoff(r) PROVE TypeOK'
    <2>1. NotesTypeOK'
      BY <1>10 DEF ScanBackoff, localvars, TypeOK, NotesTypeOK
    <2>2. StoreTypeOK'
      BY <1>10 DEF ScanBackoff, localvars, TypeOK, StoreTypeOK
    <2>3. ScanTypeOK'
      BY <1>10 DEF ScanBackoff, localvars, TypeOK, ScanTypeOK
    <2>4. HistoryTypeOK'
      BY <1>10 DEF ScanBackoff, localvars, TypeOK, HistoryTypeOK, histvars
    <2> QED
      BY <2>1, <2>2, <2>3, <2>4 DEF TypeOK
  <1>11. ASSUME NEW r \in Repos, ScanBegin(r) PROVE TypeOK'
    <2>1. NotesTypeOK'
      BY <1>11 DEF ScanBegin, localvars, TypeOK, NotesTypeOK
    <2>2. StoreTypeOK'
      BY <1>11 DEF ScanBegin, localvars, TypeOK, StoreTypeOK
    <2>3. ScanTypeOK'
      <3>1. 1 \in 1..DONE
        BY DEF DONE
      <3>2. scan' \in Scan /\ scan'.repo = r
        BY <1>11, <3>1 DEF ScanBegin, Scan, TypeOK, StoreTypeOK
      <3> QED
        BY <1>11, <3>2 DEF ScanBegin, localvars, TypeOK, ScanTypeOK
    <2>4. HistoryTypeOK'
      BY <1>11 DEF ScanBegin, localvars, TypeOK, HistoryTypeOK, histvars
    <2> QED
      BY <2>1, <2>2, <2>3, <2>4 DEF TypeOK
  <1>12. CASE ScanUnchanged
    <2>1. NotesTypeOK'
      BY <1>12 DEF ScanUnchanged, localvars, TypeOK, NotesTypeOK
    <2>2. StoreTypeOK'
      BY <1>12 DEF ScanUnchanged, localvars, TypeOK, StoreTypeOK
    <2>3. ScanTypeOK'
      BY <1>12 DEF ScanUnchanged, localvars, TypeOK, ScanTypeOK, EndScan
    <2>4. HistoryTypeOK'
      BY <1>12 DEF ScanUnchanged, localvars, TypeOK, HistoryTypeOK
    <2> QED
      BY <2>1, <2>2, <2>3, <2>4 DEF TypeOK
  <1>13. CASE ScanPage
    <2>1. NotesTypeOK'
      BY <1>13 DEF ScanPage, localvars, TypeOK, NotesTypeOK
    <2>2. StoreTypeOK'
      BY <1>13 DEF ScanPage, localvars, TypeOK, StoreTypeOK
    <2>3. ScanTypeOK'
      <3> DEFINE body == page_of(Open(scan.repo), scan.page)
                 next == IF Cardinality(body) < PER_PAGE THEN DONE ELSE scan.page + 1
      <3>1. body \subseteq Issues
        BY PageIsOpen DEF Open, IssuesOf
      <3>2. scan # NoScan /\ scan \in Scan
        BY <1>13 DEF ScanPage, NoScan, TypeOK, ScanTypeOK
      <3>3. next \in 1..DONE
        BY <1>13 DEF ScanPage, DONE
      <3>4. scan' = [scan EXCEPT !.issues = @ \cup body, !.page = next,
                                 !.new_etag = IF scan.page = 1 THEN body ELSE @]
        BY <1>13, <3>2 DEF ScanPage, Scan
      <3> HIDE DEF body, next
      <3>5. scan' \in Scan /\ scan'.repo = scan.repo
        BY <3>1, <3>2, <3>3, <3>4 DEF Scan
      <3> QED
        BY <1>13, <3>2, <3>5 DEF ScanPage, localvars, TypeOK, ScanTypeOK
    <2>4. HistoryTypeOK'
      BY <1>13 DEF ScanPage, localvars, TypeOK, HistoryTypeOK, histvars
    <2> QED
      BY <2>1, <2>2, <2>3, <2>4 DEF TypeOK
  <1>14. CASE ScanTruncated
    <2>1. NotesTypeOK'
      BY <1>14 DEF ScanTruncated, localvars, TypeOK, NotesTypeOK
    <2>2. StoreTypeOK'
      BY <1>14 DEF ScanTruncated, localvars, TypeOK, StoreTypeOK
    <2>3. ScanTypeOK'
      BY <1>14 DEF ScanTruncated, localvars, TypeOK, ScanTypeOK, EndScan
    <2>4. HistoryTypeOK'
      BY <1>14 DEF ScanTruncated, localvars, TypeOK, HistoryTypeOK, histvars
    <2> QED
      BY <2>1, <2>2, <2>3, <2>4 DEF TypeOK
  <1>15. CASE ScanFails
    <2>1. NotesTypeOK'
      BY <1>15 DEF ScanFails, localvars, TypeOK, NotesTypeOK
    <2>2. StoreTypeOK'
      BY <1>15 DEF ScanFails, localvars, TypeOK, StoreTypeOK
    <2>3. ScanTypeOK'
      BY <1>15 DEF ScanFails, localvars, TypeOK, ScanTypeOK, EndScan
    <2>4. HistoryTypeOK'
      BY <1>15 DEF ScanFails, localvars, TypeOK, HistoryTypeOK, histvars
    <2> QED
      BY <2>1, <2>2, <2>3, <2>4 DEF TypeOK
  <1>16. CASE ScanCommit
    <2>1. NotesTypeOK'
      <3>1. note' = apply_issue_transitions(link') /\ hand' = hand
        BY <1>16 DEF ScanCommit
      <3>2. DOMAIN note' = Notes /\ note' = [n \in Notes |-> note'[n]]
        BY <3>1 DEF apply_issue_transitions
      <3>3. ASSUME NEW n \in Notes PROVE note'[n] \in Row \cup {Unborn, Deleted}
        <4>1. note[n] \in Row \cup {Unborn, Deleted}
          BY DEF TypeOK, NotesTypeOK
        <4>2. note[n] \in Row => note'[n] \in Row
          BY <3>1, TransitionsKeepRows DEF TypeOK
        <4>3. note[n] \notin Row => note'[n] = note[n]
          BY <3>1, TransitionsKeepRows DEF TypeOK
        <4> QED
          BY <4>1, <4>2, <4>3
      <3> QED
        BY <3>1, <3>2, <3>3 DEF TypeOK, NotesTypeOK
    <2>2. StoreTypeOK'
      BY <1>16, MirrorAfterType DEF ScanCommit, TypeOK, StoreTypeOK, links_after, mark_issues_closed, refresh_issue, ScanTypeOK, Scan, NoScan, DONE
    <2>3. ScanTypeOK'
      BY <1>16 DEF ScanCommit, TypeOK, ScanTypeOK, EndScan
    <2>4. HistoryTypeOK'
      <3>1. scan # NoScan /\ scan \in Scan
        BY <1>16 DEF ScanCommit, NoScan, DONE, TypeOK, ScanTypeOK
      <3>2. scan.repo \in Repos /\ scan.quiet \in BOOLEAN
        BY <3>1 DEF Scan
      <3>3. agreed' \in [Repos -> BOOLEAN]
        BY <1>16, <3>2 DEF ScanCommit, TypeOK, HistoryTypeOK
      <3>4. (Cardinality(Open(scan.repo)) > PER_PAGE) \in BOOLEAN
        OBVIOUS
      <3>5. paged' \in [Repos -> BOOLEAN]
        BY <1>16, <3>2, <3>4 DEF ScanCommit, TypeOK, HistoryTypeOK
      <3> QED
        BY <1>16, <3>3, <3>5 DEF ScanCommit, TypeOK, HistoryTypeOK
    <2> QED
      BY <2>1, <2>2, <2>3, <2>4 DEF TypeOK
  <1>17. CASE Boot
    <2>1. NotesTypeOK'
      BY <1>17 DEF Boot, TypeOK, NotesTypeOK
    <2>2. StoreTypeOK'
      <3>1. NotDeleting \in [at : {"idle", "read", "gone"}, repos : SUBSET Repos]
        BY DEF NotDeleting
      <3>2. \A i \in Issues : archived(mirror[i]) \in MirrorRow \cup {NoItem}
        BY ArchivedRow DEF TypeOK, StoreTypeOK
      <3>3. etag' \in [Repos -> (SUBSET Issues) \cup {NULL}]
        BY <1>17, ForgetEtagType DEF Boot, TypeOK, StoreTypeOK
      <3> QED
        BY <1>17, <3>1, <3>2, <3>3 DEF Boot, TypeOK, StoreTypeOK
    <2>3. ScanTypeOK'
      BY <1>17 DEF Boot, TypeOK, ScanTypeOK
    <2>4. HistoryTypeOK'
      BY <1>17 DEF Boot, TypeOK, HistoryTypeOK
    <2> QED
      BY <2>1, <2>2, <2>3, <2>4 DEF TypeOK
  <1> QED
    BY <1>a, <1>1, <1>2, <1>3, <1>4, <1>5, <1>6, <1>7, <1>8, <1>9, <1>10, <1>11, <1>12, <1>13,
       <1>14, <1>15, <1>16, <1>17 DEF Next

\* Every reachable state of the notes, the links, the mirrored rows and the scan has its type.
THEOREM TypeCorrect == Spec => []TypeOK
  BY InitTypeOK, NextTypeOK, PTL DEF Spec

-----------------------------------------------------------------------------
(* One card per issue.                                                     *)

\* No step makes a link without archiving the issue's row, or revives the row of a linked one.
LEMMA NextOneCard == TypeOK /\ OneCard /\ [Next]_vars => OneCard'
  <1> SUFFICES ASSUME TypeOK, OneCard, [Next]_vars, NEW j \in Issues, linked_issue(j)'
               PROVE  ~Live(mirror[j])'
    BY DEF OneCard
  <1> USE IssuesAssumption DEF TypeOK, StoreTypeOK
  <1>1. CASE UNCHANGED <<link, mirror>>
    BY <1>1 DEF OneCard, linked_issue, Live
  <1>2. ASSUME NEW n \in Notes, DeleteRow(n) PROVE ~Live(mirror[j])'
    <2>1. linked_issue(j)
      BY <1>2 DEF DeleteRow, linked_issue
    <2> QED
      BY <1>2, <2>1 DEF DeleteRow, OneCard, Live
  <1>3. ASSUME NEW n \in Notes, NEW i \in Issues, link_issue(n, i) PROVE ~Live(mirror[j])'
    <2>1. CASE i = j
      <3>1. mirror'[j] = archived(mirror[j])
        BY <1>3, <2>1 DEF link_issue
      <3> QED
        BY <3>1, ArchivedRow DEF Live
    <2>2. CASE i # j
      <3>1. linked_issue(j) /\ mirror'[j] = mirror[j]
        BY <1>3, <2>2 DEF link_issue, linked_issue
      <3> QED
        BY <3>1 DEF OneCard, Live
    <2> QED
      BY <2>1, <2>2
  <1>4. CASE SyncStart
    <2>1. linked_issue(j)
      BY <1>4 DEF SyncStart, linked_issue
    <2>2. mirror'[j] \in {mirror[j], archived(mirror[j])}
      BY <1>4 DEF SyncStart, archive_unwatched
    <2> QED
      BY <2>1, <2>2, ArchivedRow DEF OneCard, Live
  <1>5. CASE ScanCommit
    <2>1. linked_issue(j)
      BY <1>5 DEF ScanCommit, links_after, mark_issues_closed, refresh_issue, linked_issue
    <2>2. ~Live(mirror[j])
      BY <2>1 DEF OneCard
    <2>3. listed(j) = archived(mirror[j])
      BY <2>1 DEF listed
    <2>4. ~Live(listed(j))
      BY <2>3, ArchivedRow
    <2>5. \A row : ~Live(row) => unarchived(j, row) = row /\ closed_missing(row) = row
      BY <2>1 DEF unarchived, closed_missing
    <2>6. mirror'[j] \in {mirror[j], listed(j)}
      BY <1>5, <2>1, <2>2, <2>4, <2>5 DEF ScanCommit, mirror_after
    <2> QED
      BY <2>2, <2>4, <2>6 DEF Live
  <1>6. CASE Boot
    <2>1. linked_issue(j)
      BY <1>6 DEF Boot, linked_issue
    <2>2. mirror'[j] = archived(mirror[j])
      BY <1>6, <2>1 DEF Boot
    <2> QED
      BY <2>2, ArchivedRow DEF Live
  <1> QED
    <2>1. CASE UNCHANGED vars
      BY <1>1, <2>1 DEF vars
    <2>2. ASSUME NEW i \in Issues, Upstream(i) PROVE ~Live(mirror[j])'
      BY <1>1, <2>2 DEF Upstream
    <2>3. ASSUME NEW n \in Notes, Create(n) \/ PatchReviewed(n) \/ PatchState(n) \/ DeleteRead(n) \/ DeleteForget(n)
          PROVE  ~Live(mirror[j])'
      BY <1>1, <2>3 DEF Create, PatchReviewed, PatchState, DeleteRead, DeleteForget
    <2>4. ASSUME NEW r \in Repos, ScanBackoff(r) \/ ScanBegin(r) PROVE ~Live(mirror[j])'
      BY <1>1, <2>4 DEF ScanBackoff, ScanBegin, localvars
    <2>5. CASE ScanUnchanged \/ ScanPage \/ ScanTruncated \/ ScanFails
      BY <1>1, <2>5 DEF ScanUnchanged, ScanPage, ScanTruncated, ScanFails, localvars
    <2> QED
      BY <1>2, <1>3, <1>4, <1>5, <1>6, <2>1, <2>2, <2>3, <2>4, <2>5 DEF Next

\* G-19 for any number of notes and issues: a live mirrored row never stands next to a note
\* that links its issue, however the link, the scans, the deletes and the boots interleave.
THEOREM OneCardAlways == Spec => []OneCard
  <1>1. Init => OneCard
    BY DEF Init, OneCard, linked_issue
  <1> QED
    BY <1>1, InitTypeOK, NextTypeOK, NextOneCard, PTL DEF Spec

-----------------------------------------------------------------------------
(* Notes and the issues they link.                                         *)

\* The inductive invariant of one note.  A note without a row has no links and no history;
\* one that follows its issues was closed, if at all, by the issues rule, or that rule could
\* not reopen it; one closed by hand belongs to no rule; and one reopened by hand links only
\* issues that are closed in the store, on GitHub and in the listing being read.
NoteInv(n) ==
    /\ ~Exists(n) => Links(n) = {} /\ hand[n] = "none"
    /\ Exists(n) /\ hand[n] = "none" =>
          /\ note[n].state = "closed" => note[n].closed_by = "issues"
          /\ Links(n) # {} => (note[n].state = "open" <=> \E i \in Issues : link[n][i] = "open")
    /\ hand[n] = "closed" => note[n].state = "closed" /\ note[n].closed_by = NULL
    /\ hand[n] = "calm" =>
          /\ note[n].state = "open"
          /\ \A i \in Links(n) : link[n][i] = "closed" /\ i \notin upstream /\ i \notin scan.issues

\* A step that touches neither the note nor its links, and no issue, keeps its invariant.
LEMMA NoteUntouched ==
    ASSUME NEW n \in Notes, NoteInv(n),
           note'[n] = note[n], hand'[n] = hand[n], link'[n] = link[n],
           upstream' \subseteq upstream, scan'.issues \subseteq scan.issues \cup upstream
    PROVE  NoteInv(n)'
  BY DEF NoteInv, Exists, Links

\* Disturb reads nothing into the scan.
LEMMA DisturbKeepsListing ==
    ASSUME ScanTypeOK, NEW repos, Disturb(repos)
    PROVE  scan'.issues = scan.issues
  BY DEF Disturb, ScanTypeOK, Scan, NoScan

\* What a scan does to a note that exists.
LEMMA TransitionsOf ==
    ASSUME NotesTypeOK, NEW after, NEW n \in Notes, note[n] \in Row
    PROVE  LET up == \E i \in Issues : link[n][i] = "closed" /\ after[n][i] = "open"
               down == \E i \in Issues : link[n][i] = "open" /\ after[n][i] = "closed"
               none == \A i \in Issues : after[n][i] # "open"
               new == apply_issue_transitions(after)[n]
               back == up /\ note[n].state = "closed" /\ note[n].closed_by = "issues"
           IN  /\ new \in Row
               /\ down /\ none /\ (back \/ note[n].state = "open") =>
                      new.state = "closed" /\ new.closed_by = "issues"
               /\ ~(down /\ none) /\ back => new.state = "open"
               /\ ~(down /\ none) /\ ~back => new = note[n]
               /\ ~back /\ note[n].state = "closed" => new = note[n]
  <1> DEFINE up == \E i \in Issues : link[n][i] = "closed" /\ after[n][i] = "open"
             down == \E i \in Issues : link[n][i] = "open" /\ after[n][i] = "closed"
             none == \A i \in Issues : after[n][i] # "open"
             back == up /\ note[n].state = "closed" /\ note[n].closed_by = "issues"
             reopened == IF back THEN reopened_by_rule(note[n]) ELSE note[n]
  <1>1. apply_issue_transitions(after)[n] =
           IF down /\ reopened.state = "open" /\ none THEN closed_by_rule(reopened, "issues") ELSE reopened
    BY DEF apply_issue_transitions
  <1>2. reopened \in Row /\ (back => reopened.state = "open")
    BY RuleWritesRow DEF CLOSED_BY
  <1>3. /\ closed_by_rule(reopened, "issues") \in Row
        /\ closed_by_rule(reopened, "issues").state = "closed"
        /\ closed_by_rule(reopened, "issues").closed_by = "issues"
    BY <1>2, RuleWritesRow DEF CLOSED_BY
  <1> QED
    BY <1>1, <1>2, <1>3

\* The transaction of a scan keeps the invariant of every note.
LEMMA CommitKeepsNote ==
    ASSUME TypeOK, NEW n \in Notes, NoteInv(n), ScanCommit
    PROVE  NoteInv(n)'
  <1> DEFINE up == \E i \in Issues : link[n][i] = "closed" /\ link'[n][i] = "open"
             down == \E i \in Issues : link[n][i] = "open" /\ link'[n][i] = "closed"
             none == \A i \in Issues : link'[n][i] # "open"
  <1>0. note' = apply_issue_transitions(link') /\ hand' = hand /\ upstream' = upstream
    BY DEF ScanCommit
  <1>1. Links(n)' = Links(n)
    BY DEF ScanCommit, links_after, mark_issues_closed, refresh_issue, Links
  <1>2. \A i \in Links(n) : link[n][i] \in {"open", "closed"} /\ link'[n][i] \in {"open", "closed"}
    BY <1>1, NextTypeOK DEF TypeOK, StoreTypeOK, Links, ScanCommit, links_after, mark_issues_closed, refresh_issue
  <1>3. scan'.issues = {}
    BY DEF ScanCommit, EndScan, NoScan
  <1>4. \A i \in Issues : i \notin Links(n) => link[n][i] = "none" /\ link'[n][i] = "none"
    BY <1>1 DEF Links
  <1>5. CASE note[n] \notin Row
    <2>1. note'[n] = note[n]
      BY <1>0, <1>5, TransitionsKeepRows DEF TypeOK
    <2>2. ~Exists(n) /\ ~Exists(n)'
      BY <1>5, <2>1, ExistsRow DEF TypeOK, Exists
    <2> QED
      BY <1>0, <1>1, <2>2 DEF NoteInv
  <1>6. CASE note[n] \in Row
    <2> DEFINE back == up /\ note[n].state = "closed" /\ note[n].closed_by = "issues"
    <2>1. /\ note'[n] \in Row
          /\ down /\ none /\ (back \/ note[n].state = "open") =>
                 note'[n].state = "closed" /\ note'[n].closed_by = "issues"
          /\ ~(down /\ none) /\ back => note'[n].state = "open"
          /\ ~(down /\ none) /\ ~back => note'[n] = note[n]
          /\ ~back /\ note[n].state = "closed" => note'[n] = note[n]
      BY <1>0, <1>6, TransitionsOf DEF TypeOK
    <2>2. Exists(n) /\ Exists(n)' /\ note[n].state \in {"open", "closed"} /\ note'[n].state \in {"open", "closed"}
      BY <1>6, <2>1 DEF Exists, Row
    <2>3. ASSUME hand[n] = "none"
          PROVE  /\ note'[n].state = "closed" => note'[n].closed_by = "issues"
                 /\ Links(n)' # {} => (note'[n].state = "open" <=> \E i \in Issues : link'[n][i] = "open")
      <3>1. note[n].state = "closed" => note[n].closed_by = "issues"
        BY <2>2, <2>3 DEF NoteInv
      <3>2. note'[n].state = "closed" => note'[n].closed_by = "issues"
        BY <2>1, <2>2, <3>1
      <3>3. ASSUME Links(n) # {} PROVE note'[n].state = "open" <=> ~none
        <4>1. note[n].state = "open" <=> \E i \in Issues : link[n][i] = "open"
          BY <2>2, <2>3, <3>3 DEF NoteInv
        <4>2. CASE note[n].state = "open" /\ none
          <5>1. down
            BY <1>2, <1>4, <4>1, <4>2
          <5> QED
            BY <2>1, <4>2, <5>1
        <4>3. CASE note[n].state = "open" /\ ~none
          BY <2>1, <4>3
        <4>4. CASE note[n].state = "closed" /\ none
          <5>1. ~up
            BY <4>4
          <5> QED
            BY <2>1, <2>2, <4>4, <5>1
        <4>5. CASE note[n].state = "closed" /\ ~none
          <5>1. up
            BY <1>2, <1>4, <4>1, <4>5
          <5> QED
            BY <2>1, <3>1, <4>5, <5>1
        <4> QED
          BY <2>2, <4>2, <4>3, <4>4, <4>5
      <3> QED
        BY <1>1, <3>2, <3>3
    <2>4. ASSUME hand[n] = "closed"
          PROVE  note'[n].state = "closed" /\ note'[n].closed_by = NULL
      BY <2>1, <2>4, NullAssumption DEF NoteInv
    <2>5. ASSUME hand[n] = "calm"
          PROVE  /\ note'[n].state = "open"
                 /\ \A i \in Links(n)' : link'[n][i] = "closed" /\ i \notin upstream' /\ i \notin scan'.issues
      <3>1. note[n].state = "open" /\ \A i \in Links(n) : link[n][i] = "closed" /\ i \notin upstream /\ i \notin scan.issues
        BY <2>5 DEF NoteInv
      <3>2. ~down
        BY <1>4, <3>1
      <3>3. \A i \in Links(n) : link'[n][i] = "closed"
        BY <3>1 DEF ScanCommit, links_after, mark_issues_closed, refresh_issue, Links
      <3> QED
        BY <1>0, <1>1, <1>3, <2>1, <3>1, <3>2, <3>3
    <2> QED
      BY <1>0, <2>2, <2>3, <2>4, <2>5 DEF NoteInv
  <1> QED
    BY <1>5, <1>6

\* Every step keeps what is known of each note, its links and the listing in flight.
LEMMA NextNoteInv == TypeOK /\ (\A n \in Notes : NoteInv(n)) /\ [Next]_vars => (\A n \in Notes : NoteInv(n))'
  <1> SUFFICES ASSUME TypeOK, \A n \in Notes : NoteInv(n), [Next]_vars, NEW m \in Notes
               PROVE  NoteInv(m)'
    OBVIOUS
  <1> USE IssuesAssumption, NullAssumption
  <1>1. CASE UNCHANGED vars
    BY <1>1, NoteUntouched DEF vars
  <1>2. ASSUME NEW i \in Issues, Upstream(i) PROVE NoteInv(m)'
    <2>1. scan'.issues = scan.issues
      BY <1>2, DisturbKeepsListing DEF Upstream, TypeOK
    <2>2. hand'[m] = IF hand[m] = "calm" /\ i \in Links(m) THEN "other" ELSE hand[m]
      BY <1>2 DEF Upstream
    <2>3. \A j \in Issues : j \in upstream' => j \in upstream \/ j = i
      BY <1>2 DEF Upstream
    <2>4. link' = link /\ note' = note
      BY <1>2 DEF Upstream
    <2> QED
      BY <2>1, <2>2, <2>3, <2>4 DEF NoteInv, Exists, Links
  <1>3. ASSUME NEW n \in Notes, Create(n) PROVE NoteInv(m)'
    <2>1. CASE m = n
      <3>1. Links(m) = {} /\ hand[m] = "none"
        BY <1>3, <2>1 DEF Create, create_item, NoteInv, Exists, Unborn
      <3>2. note'[m].state = "open" /\ Links(m)' = {} /\ hand'[m] = "none"
        BY <1>3, <2>1, <3>1 DEF Create, create_item, Links, TypeOK, NotesTypeOK
      <3> QED
        BY <3>2 DEF NoteInv, Exists
    <2>2. CASE m # n
      BY <1>3, <2>2, NoteUntouched DEF Create, create_item, scanvars, TypeOK, NotesTypeOK
    <2> QED
      BY <2>1, <2>2
  <1>4. ASSUME NEW n \in Notes, PatchReviewed(n) PROVE NoteInv(m)'
    <2>1. note'[m].state = note[m].state /\ note'[m].closed_by = note[m].closed_by
      BY <1>4, ExistsRow DEF PatchReviewed, patch_reviewed, TypeOK, NotesTypeOK, Row
    <2>2. UNCHANGED <<link, upstream, scan, hand>>
      BY <1>4 DEF PatchReviewed, patch_reviewed, scanvars
    <2> QED
      BY <2>1, <2>2 DEF NoteInv, Exists, Links
  <1>5. ASSUME NEW n \in Notes, PatchState(n) PROVE NoteInv(m)'
    <2>1. UNCHANGED <<link, upstream, scan>>
      BY <1>5 DEF PatchState, scanvars
    <2>2. CASE m = n
      <3> DEFINE quiet == scan = NoScan /\ \A i \in Links(n) : link[n][i] = "closed" /\ i \notin upstream
      <3>1. PICK state \in {"open", "closed"} : patch_state(n, state, quiet)
        BY <1>5 DEF PatchState
      <3>2. note[m] \in Row
        BY <1>5, <2>2, ExistsRow DEF PatchState, patch_state, TypeOK
      <3>3. note'[m].state = state /\ note'[m].closed_by = NULL
        BY <2>2, <3>1, <3>2 DEF patch_state, TypeOK, NotesTypeOK, Row
      <3>4. hand'[m] = CASE state = "closed" -> "closed"
                         [] state = "open" /\ quiet -> "calm"
                         [] OTHER -> "other"
        BY <2>2, <3>1 DEF patch_state, TypeOK, NotesTypeOK
      <3>5. CASE state = "closed"
        BY <3>3, <3>4, <3>5 DEF NoteInv, Exists
      <3>6. CASE state = "open" /\ quiet
        <4>1. hand'[m] = "calm"
          BY <3>4, <3>6
        <4>2. \A i \in Links(m)' : link'[m][i] = "closed" /\ i \notin upstream' /\ i \notin scan'.issues
          BY <2>1, <2>2, <3>6 DEF Links, NoScan
        <4> QED
          BY <3>3, <3>6, <4>1, <4>2 DEF NoteInv, Exists
      <3>7. CASE state = "open" /\ ~quiet
        <4>1. hand'[m] = "other"
          BY <3>4, <3>7
        <4> QED
          BY <3>3, <3>7, <4>1 DEF NoteInv, Exists
      <3> QED
        BY <3>5, <3>6, <3>7
    <2>3. CASE m # n
      BY <1>5, <2>1, <2>3, NoteUntouched DEF PatchState, patch_state, TypeOK, NotesTypeOK
    <2> QED
      BY <2>2, <2>3
  <1>6. ASSUME NEW n \in Notes, DeleteRead(n) PROVE NoteInv(m)'
    BY <1>6, NoteUntouched DEF DeleteRead, scanvars
  <1>7. ASSUME NEW n \in Notes, DeleteRow(n) PROVE NoteInv(m)'
    <2>1. scan'.issues = scan.issues /\ upstream' = upstream
      BY <1>7, DisturbKeepsListing DEF DeleteRow, TypeOK
    <2>2. CASE m = n
      <3>1. note'[m] = Deleted /\ hand'[m] = "none" /\ Links(m)' = {}
        BY <1>7, <2>2 DEF DeleteRow, Links, TypeOK, NotesTypeOK, StoreTypeOK
      <3> QED
        BY <3>1 DEF NoteInv, Exists, Deleted
    <2>3. CASE m # n
      BY <1>7, <2>1, <2>3, NoteUntouched DEF DeleteRow, TypeOK, NotesTypeOK, StoreTypeOK
    <2> QED
      BY <2>2, <2>3
  <1>8. ASSUME NEW n \in Notes, DeleteForget(n) PROVE NoteInv(m)'
    <2>1. scan'.issues = scan.issues
      BY <1>8, DisturbKeepsListing DEF DeleteForget, TypeOK
    <2> QED
      BY <1>8, <2>1, NoteUntouched DEF DeleteForget
  <1>9. ASSUME NEW n \in Notes, NEW i \in Issues, link_issue(n, i) PROVE NoteInv(m)'
    <2>1. scan'.issues = scan.issues /\ upstream' = upstream /\ note' = note
      BY <1>9, DisturbKeepsListing DEF link_issue, TypeOK
    <2>2. CASE m = n /\ link[n][i] = "none"
      <3>1. hand'[m] = "none" /\ link'[m][i] = "open"
        BY <1>9, <2>2 DEF link_issue, TypeOK, NotesTypeOK, StoreTypeOK
      <3>2. note'[m].state = "open"
        BY <1>9, <2>1, <2>2 DEF link_issue, Fileable
      <3> QED
        BY <3>1, <3>2 DEF NoteInv, Exists, Links
    <2>3. CASE ~(m = n /\ link[n][i] = "none")
      <3>1. hand'[m] = hand[m] /\ link'[m] = link[m]
        BY <1>9, <2>3 DEF link_issue, TypeOK, NotesTypeOK, StoreTypeOK
      <3> QED
        BY <2>1, <3>1, NoteUntouched
    <2> QED
      BY <2>2, <2>3
  <1>10. CASE SyncStart
    BY <1>10, NoteUntouched DEF SyncStart
  <1>11. ASSUME NEW r \in Repos, ScanBackoff(r) \/ ScanBegin(r) PROVE NoteInv(m)'
    <2>1. scan'.issues \subseteq scan.issues
      BY <1>11 DEF ScanBackoff, ScanBegin
    <2> QED
      BY <1>11, <2>1, NoteUntouched DEF ScanBackoff, ScanBegin, localvars
  <1>12. CASE ScanUnchanged \/ ScanTruncated \/ ScanFails
    <2>1. scan'.issues = {}
      BY <1>12 DEF ScanUnchanged, ScanTruncated, ScanFails, EndScan, NoScan
    <2> QED
      BY <1>12, <2>1, NoteUntouched DEF ScanUnchanged, ScanTruncated, ScanFails, localvars
  <1>13. CASE ScanPage
    <2>1. scan # NoScan /\ scan \in Scan
      BY <1>13 DEF ScanPage, NoScan, TypeOK, ScanTypeOK
    <2>2. scan'.issues = scan.issues \cup page_of(Open(scan.repo), scan.page)
      BY <1>13, <2>1 DEF ScanPage, Scan
    <2>3. scan'.issues \subseteq scan.issues \cup upstream
      BY <2>2, PageIsOpen DEF Open
    <2> QED
      BY <1>13, <2>3, NoteUntouched DEF ScanPage, localvars
  <1>14. CASE ScanCommit
    BY <1>14, CommitKeepsNote
  <1>15. CASE Boot
    <2>1. scan'.issues = {}
      BY <1>15 DEF Boot, NoScan
    <2> QED
      BY <1>15, <2>1, NoteUntouched DEF Boot
  <1> QED
    BY <1>1, <1>2, <1>3, <1>4, <1>5, <1>6, <1>7, <1>8, <1>9, <1>10, <1>11, <1>12, <1>13, <1>14,
       <1>15 DEF Next

\* At the start no note has a link.
LEMMA InitNoteInv == Init => \A n \in Notes : NoteInv(n)
  <1> SUFFICES ASSUME Init, NEW n \in Notes PROVE NoteInv(n)
    OBVIOUS
  <1>1. note[n].state = "unborn" /\ hand[n] = "none" /\ Links(n) = {}
    BY DEF Init, NotesInit, Links, Unborn
  <1> QED
    BY <1>1 DEF NoteInv, Exists

\* The issues rule for any number of notes, issues and repositories: a note nobody touched by
\* hand since it was linked is open as long as one of its links is, and closed after that.
THEOREM NotesFollowTheirIssues == Spec => []NoteFollowsIssues
  <1>1. (\A n \in Notes : NoteInv(n)) => NoteFollowsIssues
    BY DEF NoteInv, NoteFollowsIssues
  <1> QED
    BY <1>1, InitTypeOK, NextTypeOK, InitNoteInv, NextNoteInv, PTL DEF Spec

\* Hand decisions for any number of notes, issues and repositories: no scan and no boot undoes
\* a hand close, and none undoes a hand reopen before something changes upstream.
THEOREM HandDecisionsStand == Spec => []HandDecisionsStick
  <1>1. (\A n \in Notes : NoteInv(n)) => HandDecisionsStick
    BY DEF NoteInv, HandDecisionsStick
  <1> QED
    BY <1>1, InitTypeOK, NextTypeOK, InitNoteInv, NextNoteInv, PTL DEF Spec
-----------------------------------------------------------------------------
(* The board after a scan.                                                 *)

\* The issues on the pages before page k.
PagesBefore(open, k) == {i \in open : Cardinality({j \in open : j > i}) < (k - 1) * PER_PAGE}

\* Issues have finitely many newer ones, fewer than there are.
LEMMA NewerFinite ==
    ASSUME NEW open, open \subseteq Issues
    PROVE  /\ IsFiniteSet(open) /\ Cardinality(open) \in Nat
           /\ \A i \in open : /\ Cardinality({j \in open : j > i}) \in Nat
                              /\ Cardinality({j \in open : j > i}) < Cardinality(open)
  <1>1. IsFiniteSet(open) /\ Cardinality(open) \in Nat
    BY IssuesAssumption, FS_Subset, FS_CardinalityType
  <1>2. ASSUME NEW i \in open
        PROVE  /\ Cardinality({j \in open : j > i}) \in Nat
               /\ Cardinality({j \in open : j > i}) < Cardinality(open)
    <2> DEFINE T == {j \in open : j > i}
    <2>1. T \subseteq open /\ i \notin T
      <3>1. i \in Nat
        BY IssuesAssumption
      <3> QED
        BY <3>1
    <2> HIDE DEF T
    <2>2. Cardinality(T) < Cardinality(open) /\ Cardinality(T) \in Nat
      BY <1>1, <2>1, SmallerPart
    <2> QED
      BY <2>2 DEF T
  <1> QED
    BY <1>1, <1>2

\* Finitely many issues have a greatest number.
LEMMA IssuesBounded ==
    ASSUME NEW open, open \subseteq Issues
    PROVE  \E b \in Nat : \A x \in open : x <= b
  <1>1. IsFiniteSet(open) /\ open \subseteq Nat
    BY NewerFinite, IssuesAssumption
  <1> QED
    BY <1>1, FiniteBound

\* The first page of the next ones begins where this one ends.
LEMMA PageEnd ==
    ASSUME NEW k \in Nat \ {0}
    PROVE  /\ (k - 1) * PER_PAGE \in Nat /\ k * PER_PAGE \in Nat
           /\ (k - 1) * PER_PAGE + PER_PAGE = k * PER_PAGE
  <1>1. PER_PAGE \in Nat /\ k - 1 \in Nat
    BY IssuesAssumption
  <1> QED
    BY <1>1

\* A page that is not full is the last one: no open issue comes after it.
LEMMA ShortPageIsLast ==
    ASSUME NEW open, open \subseteq Issues, NEW k \in Nat \ {0},
           Cardinality(page_of(open, k)) < PER_PAGE, NEW i \in open
    PROVE  Cardinality({j \in open : j > i}) < k * PER_PAGE
  <1> DEFINE newer == [x \in open |-> Cardinality({j \in open : j > x})]
             page == page_of(open, k)
             a == (k - 1) * PER_PAGE
             z == k * PER_PAGE
  <1>1. a \in Nat /\ z \in Nat /\ PER_PAGE \in Nat \ {0} /\ a + PER_PAGE = z
    BY PageEnd, IssuesAssumption
  <1>2. page = {x \in open : newer[x] >= a /\ newer[x] < z}
    BY DEF page_of
  <1>3. \A x \in open : newer[x] \in Nat /\ newer[x] < Cardinality(open)
    BY NewerFinite
  <1>4. Cardinality(open) \in Nat /\ IsFiniteSet(page) /\ Cardinality(page) \in Nat
    <2>1. page \subseteq open
      BY PageIsOpen
    <2> HIDE DEF page
    <2> QED
      BY <2>1, NewerFinite, FS_Subset, FS_CardinalityType
  <1>5. ASSUME NEW m \in Nat, m < Cardinality(open)
        PROVE  \E x \in open : newer[x] = m
    <2>1. PICK b \in Nat : \A x \in open : x <= b
      BY IssuesBounded
    <2>2. open \subseteq Nat
      BY IssuesAssumption
    <2>3. PICK x \in open : Cardinality({j \in open : j > x}) = m
      BY <1>5, <2>1, <2>2, NthFromTop
    <2> QED
      BY <2>3
  <1> HIDE DEF newer, page, a, z
  <1>6. SUFFICES ASSUME newer[i] >= z PROVE FALSE
    <2>1. newer[i] \in Nat /\ newer[i] = Cardinality({j \in open : j > i})
      BY <1>3 DEF newer
    <2> QED
      BY <2>1, <1>1 DEF z
  <1> DEFINE f == [x \in page |-> newer[x]]
  <1>7. f \in Surjection(page, a..(z - 1))
    <2>1. \A x \in page : f[x] \in a..(z - 1)
      BY <1>1, <1>2, <1>3
    <2>2. ASSUME NEW m \in a..(z - 1) PROVE \E x \in page : f[x] = m
      <3>1. m \in Nat /\ m < Cardinality(open) /\ m >= a /\ m < z
        BY <1>1, <1>3, <1>4, <1>6
      <3>2. PICK x \in open : newer[x] = m
        BY <3>1, <1>5
      <3>3. x \in page
        BY <3>1, <3>2, <1>2
      <3> QED
        BY <3>2, <3>3
    <2> QED
      BY <2>1, <2>2 DEF Surjection
  <1>8. Cardinality(a..(z - 1)) <= Cardinality(page)
    <2> HIDE DEF f
    <2> QED
      BY <1>4, <1>7, FS_Surjection
  <1>9. Cardinality(a..(z - 1)) = PER_PAGE
    BY <1>1, FS_Interval
  <1> QED
    BY <1>1, <1>4, <1>8, <1>9 DEF page

\* Reading one more page.
LEMMA PagesGrow ==
    ASSUME NEW open, open \subseteq Issues, NEW k \in Nat \ {0}
    PROVE  /\ PagesBefore(open, 1) = {}
           /\ PagesBefore(open, k) \cup page_of(open, k) = PagesBefore(open, k + 1)
           /\ Cardinality(page_of(open, k)) < PER_PAGE =>
                 PagesBefore(open, k) \cup page_of(open, k) = open
  <1> DEFINE newer(x) == Cardinality({j \in open : j > x})
  <1>1. /\ (k - 1) * PER_PAGE \in Nat /\ k * PER_PAGE \in Nat
        /\ (k - 1) * PER_PAGE <= k * PER_PAGE /\ (k + 1) - 1 = k
    BY PageEnd, IssuesAssumption
  <1>2. \A x \in open : newer(x) \in Nat
    BY NewerFinite
  <1>3. PagesBefore(open, 1) = {}
    <2>1. (1 - 1) * PER_PAGE = 0
      BY IssuesAssumption
    <2> QED
      BY <1>2, <2>1 DEF PagesBefore
  <1>4. PagesBefore(open, k) = {x \in open : newer(x) < (k - 1) * PER_PAGE}
    BY DEF PagesBefore
  <1>5. page_of(open, k) = {x \in open : newer(x) >= (k - 1) * PER_PAGE /\ newer(x) < k * PER_PAGE}
    BY DEF page_of
  <1>6. PagesBefore(open, k + 1) = {x \in open : newer(x) < k * PER_PAGE}
    BY <1>1 DEF PagesBefore
  <1>7. ASSUME Cardinality(page_of(open, k)) < PER_PAGE
        PROVE  PagesBefore(open, k + 1) = open
    BY <1>6, <1>7, ShortPageIsLast
  <1> HIDE DEF newer
  <1>8. PagesBefore(open, k) \cup page_of(open, k) = PagesBefore(open, k + 1)
    <2>1. \A x \in open : newer(x) < k * PER_PAGE <=>
             \/ newer(x) < (k - 1) * PER_PAGE
             \/ newer(x) >= (k - 1) * PER_PAGE /\ newer(x) < k * PER_PAGE
      BY <1>1, <1>2
    <2> QED
      BY <2>1, <1>4, <1>5, <1>6
  <1> QED
    BY <1>3, <1>7, <1>8

\* A repository that fits one page has nothing on the others.
LEMMA OnePageIsAll ==
    ASSUME NEW open, open \subseteq Issues, Cardinality(open) <= PER_PAGE
    PROVE  /\ page_of(open, 1) = open
           /\ \A k \in Nat : k > 1 => page_of(open, k) = {}
  <1> DEFINE newer(x) == Cardinality({j \in open : j > x})
  <1>1. \A x \in open : newer(x) \in Nat /\ newer(x) < PER_PAGE
    <2>1. Cardinality(open) \in Nat /\ PER_PAGE \in Nat
      BY NewerFinite, IssuesAssumption
    <2>2. \A x \in open : newer(x) \in Nat /\ newer(x) < Cardinality(open)
      BY NewerFinite
    <2> HIDE DEF newer
    <2> QED
      BY <2>1, <2>2
  <1>2. ASSUME NEW k \in Nat
        PROVE  page_of(open, k) = {x \in open : newer(x) >= (k - 1) * PER_PAGE /\ newer(x) < k * PER_PAGE}
    BY DEF page_of
  <1> HIDE DEF newer
  <1>3. page_of(open, 1) = open
    <2>1. (1 - 1) * PER_PAGE = 0 /\ 1 * PER_PAGE = PER_PAGE
      BY IssuesAssumption
    <2> QED
      BY <1>1, <1>2, <2>1
  <1>4. ASSUME NEW k \in Nat, k > 1 PROVE page_of(open, k) = {}
    <2>1. PICK d \in Nat : k = d + 2
      <3>1. k - 2 \in Nat
        BY <1>4
      <3> QED
        BY <3>1
    <2>2. (k - 1) * PER_PAGE = d * PER_PAGE + PER_PAGE /\ d * PER_PAGE \in Nat
      BY <2>1, IssuesAssumption
    <2>3. \A x \in open : ~(newer(x) >= (k - 1) * PER_PAGE)
      BY <1>1, <2>2, IssuesAssumption
    <2> QED
      BY <1>2, <2>3
  <1> QED
    BY <1>3, <1>4

\* The board shows, about the repository, what a listing says.
Shows(r, listing, links, rows) ==
    \A i \in IssuesOf(r) :
        LET linked == \E n \in Notes : links[n][i] # "none"
        IN  /\ \A n \in Notes : links[n][i] # "none" => (links[n][i] = "open" <=> i \in listing)
            /\ i \in listing /\ ~linked => rows[i] = [state |-> "open", archived |-> FALSE]
            /\ i \notin listing => ~Live(rows[i]) \/ rows[i].state = "closed"

\* No delete has dropped a link of the repository whose ETag it has yet to forget, or never will.
Whole(r) == r \notin slipped /\ \A n \in Notes : deleting[n].at = "gone" => r \notin deleting[n].repos

\* What a scan vouched for stays true until it is disturbed; an ETag stands for a listing that
\* the board shows, as long as the repository fits one page.
VouchInv(r) ==
    /\ agreed[r] => r \in watched
    /\ agreed[r] /\ Whole(r) => Shows(r, upstream, link, mirror)
    /\ ~paged[r] => Cardinality(Open(r)) <= PER_PAGE
    /\ ~paged[r] /\ Whole(r) /\ etag[r] # NULL => Shows(r, etag[r], link, mirror)

\* What an undisturbed scan has read is what GitHub would list now; of a repository that fits
\* one page any scan has read that page and nothing else.
ListingInv ==
    scan # NoScan =>
        /\ scan.page = 1 => scan.issues = {}
        /\ scan.page > 1 => scan.new_etag # NULL
        /\ scan.page > 1 /\ ~paged[scan.repo] => scan.issues = scan.new_etag
        /\ scan.quiet =>
              /\ scan.etag = etag[scan.repo]
              /\ scan.page <= MAX_PAGES => scan.issues = PagesBefore(Open(scan.repo), scan.page)
              /\ scan.page = DONE => scan.issues = Open(scan.repo)
              /\ scan.page > 1 => scan.new_etag = page_of(Open(scan.repo), 1)

BoardInv == TypeOK /\ OneCard /\ ListingInv /\ \A r \in Repos : VouchInv(r)

\* What the board shows of a repository depends on its own issues only.
LEMMA ShowsSame ==
    ASSUME NEW r, NEW S, NEW T, NEW l1, NEW l2, NEW m1, NEW m2,
           \A i \in IssuesOf(r) : /\ m1[i] = m2[i] /\ (i \in S <=> i \in T)
                                  /\ \A n \in Notes : l1[n][i] = l2[n][i],
           Shows(r, S, l1, m1)
    PROVE  Shows(r, T, l2, m2)
  BY DEF Shows

\* A step that leaves the issues of a repository alone, or takes back what was said of them,
\* keeps what is said of it.
LEMMA VouchKept ==
    ASSUME NEW r \in Repos, VouchInv(r),
           upstream' = upstream, paged'[r] = paged[r],
           \/ ~agreed'[r] /\ (etag'[r] = NULL \/ ~Whole(r)')
           \/ /\ agreed'[r] => agreed[r] /\ r \in watched'
              /\ Whole(r)' => Whole(r)
              /\ etag'[r] \in {NULL, etag[r]}
              /\ \A i \in IssuesOf(r) : mirror'[i] = mirror[i] /\ \A n \in Notes : link'[n][i] = link[n][i]
    PROVE  VouchInv(r)'
  <1>1. Open(r)' = Open(r)
    BY DEF Open, IssuesOf
  <1>2. ~paged'[r] => Cardinality(Open(r)') <= PER_PAGE
    BY <1>1 DEF VouchInv
  <1>3. CASE ~agreed'[r] /\ (etag'[r] = NULL \/ ~Whole(r)')
    BY <1>2, <1>3 DEF VouchInv
  <1>4. CASE /\ agreed'[r] => agreed[r] /\ r \in watched'
             /\ Whole(r)' => Whole(r)
             /\ etag'[r] \in {NULL, etag[r]}
             /\ \A i \in IssuesOf(r) : mirror'[i] = mirror[i] /\ \A n \in Notes : link'[n][i] = link[n][i]
    <2>1. ASSUME agreed'[r], Whole(r)' PROVE Shows(r, upstream', link', mirror')
      <3>1. Shows(r, upstream, link, mirror)
        BY <1>4, <2>1 DEF VouchInv
      <3> QED
        BY <1>4, <3>1, ShowsSame
    <2>2. ASSUME ~paged'[r], Whole(r)', etag'[r] # NULL PROVE Shows(r, etag'[r], link', mirror')
      <3>1. Shows(r, etag[r], link, mirror) /\ etag'[r] = etag[r]
        BY <1>4, <2>2 DEF VouchInv
      <3> QED
        BY <1>4, <3>1, ShowsSame
    <2> QED
      BY <1>2, <1>4, <2>1, <2>2 DEF VouchInv
  <1> QED
    BY <1>3, <1>4

\* A step that reads nothing keeps what was read, and what disturbs the repository ends the quiet.
LEMMA ListingKept ==
    ASSUME TypeOK, ListingInv,
           scan' # NoScan =>
              /\ scan # NoScan
              /\ scan'.repo = scan.repo /\ scan'.page = scan.page /\ scan'.etag = scan.etag
              /\ scan'.new_etag = scan.new_etag /\ scan'.issues = scan.issues
              /\ paged[scan.repo] => paged'[scan.repo]
              /\ scan'.quiet => /\ scan.quiet /\ etag'[scan.repo] = etag[scan.repo]
                                /\ Open(scan.repo)' = Open(scan.repo)
    PROVE  ListingInv'
  <1> SUFFICES ASSUME scan' # NoScan PROVE ListingInv'
    BY DEF ListingInv
  <1> QED
    BY DEF ListingInv

\* Disturb keeps everything of the scan but its quiet, and that unless the repository is hit.
LEMMA DisturbScan ==
    ASSUME TypeOK, NEW repos, Disturb(repos), scan' # NoScan
    PROVE  /\ scan # NoScan
           /\ scan'.repo = scan.repo /\ scan'.page = scan.page /\ scan'.etag = scan.etag
           /\ scan'.new_etag = scan.new_etag /\ scan'.issues = scan.issues
           /\ scan'.quiet => scan.quiet /\ scan.repo \notin repos
           /\ scan.repo \in Repos
  <1>1. scan # NoScan
    BY DisturbType DEF TypeOK
  <1>2. scan \in Scan
    BY <1>1 DEF TypeOK, ScanTypeOK
  <1> QED
    BY <1>1, <1>2 DEF Disturb, Scan

\* After a commit the board shows the listing, whatever happened while it was read.
LEMMA CommitShows ==
    ASSUME TypeOK, NEW r \in Repos, NEW S \in SUBSET Issues
    PROVE  Shows(r, S, links_after(r, S), mirror_after(r, S))
  <1> DEFINE l == links_after(r, S)
             m == mirror_after(r, S)
  <1>1. ASSUME NEW i \in IssuesOf(r), NEW n \in Notes
        PROVE  /\ l[n][i] \in {"none", "open", "closed"}
               /\ l[n][i] = "none" <=> link[n][i] = "none"
               /\ l[n][i] # "none" => (l[n][i] = "open" <=> i \in S)
    BY DEF links_after, mark_issues_closed, refresh_issue, IssuesOf, TypeOK, StoreTypeOK
  <1>2. ASSUME NEW i \in IssuesOf(r)
        PROVE  (\E n \in Notes : l[n][i] # "none") <=> linked_issue(i)
    BY <1>1 DEF linked_issue
  <1>3. ASSUME NEW i \in IssuesOf(r), i \in S, ~linked_issue(i)
        PROVE  m[i] = [state |-> "open", archived |-> FALSE]
    <2> DEFINE open == [state |-> "open", archived |-> FALSE]
    <2>1. listed(i) = open /\ open.archived = FALSE /\ open # NoItem
      BY <1>3 DEF listed, NoItem
    <2>2. unarchived(i, open) = open
      BY <1>3, <2>1 DEF unarchived
    <2> QED
      BY <1>3, <2>1, <2>2 DEF mirror_after, IssuesOf
  <1>4. ASSUME NEW i \in IssuesOf(r), i \notin S
        PROVE  ~Live(m[i]) \/ m[i].state = "closed"
    <2>1. m[i] = closed_missing(unarchived(i, mirror[i])) /\ mirror[i] \in MirrorRow \cup {NoItem}
      BY <1>4 DEF mirror_after, IssuesOf, TypeOK, StoreTypeOK
    <2>2. unarchived(i, mirror[i]) \in MirrorRow \cup {NoItem}
      BY <2>1 DEF unarchived, MirrorRow
    <2>3. \A row \in MirrorRow \cup {NoItem} : ~Live(closed_missing(row)) \/ closed_missing(row).state = "closed"
      BY DEF closed_missing, MirrorRow
    <2> QED
      BY <2>1, <2>2, <2>3
  <1> HIDE DEF l, m
  <1> QED
    BY <1>1, <1>2, <1>3, <1>4 DEF Shows, l, m

\* One more page of the listing.
LEMMA PageKeepsListing ==
    ASSUME TypeOK, ListingInv, \A r \in Repos : VouchInv(r), ScanPage
    PROVE  ListingInv'
  <1> DEFINE open == Open(scan.repo)
             k == scan.page
             body == page_of(open, k)
  <1>1. /\ scan \in Scan /\ k \in 1..MAX_PAGES /\ scan # NoScan
        /\ scan.repo \in Repos /\ open \subseteq Issues /\ MAX_PAGES \in Nat
    <2>1. scan.page # 0
      BY IssuesAssumption DEF ScanPage
    <2>2. scan # NoScan
      BY <2>1 DEF NoScan
    <2> QED
      BY <2>2, IssuesAssumption DEF TypeOK, ScanTypeOK, Scan, ScanPage, Open, IssuesOf
  <1>2. /\ scan'.repo = scan.repo /\ scan'.etag = scan.etag /\ scan'.quiet = scan.quiet
        /\ scan'.issues = scan.issues \cup body
        /\ scan'.new_etag = IF k = 1 THEN body ELSE scan.new_etag
        /\ scan'.page = IF Cardinality(body) < PER_PAGE THEN DONE ELSE k + 1
        /\ k < MAX_PAGES \/ Cardinality(body) < PER_PAGE
        /\ paged' = paged /\ etag' = etag /\ Open(scan.repo)' = open
    BY <1>1 DEF ScanPage, Scan, histvars, localvars, Open, IssuesOf
  <1>3. body \subseteq Issues /\ body # NULL
    BY <1>1, PageIsOpen, IssuesAssumption
  <1>4. /\ PagesBefore(open, 1) = {}
        /\ PagesBefore(open, k) \cup body = PagesBefore(open, k + 1)
        /\ Cardinality(body) < PER_PAGE => PagesBefore(open, k) \cup body = open
    <2>1. k \in Nat \ {0}
      BY <1>1
    <2> HIDE DEF k, open
    <2> QED
      BY <1>1, <2>1, PagesGrow
  <1>5. ~paged[scan.repo] => page_of(open, 1) = open /\ (k > 1 => body = {})
    <2>1. ~paged[scan.repo] => Cardinality(open) <= PER_PAGE
      BY <1>1 DEF VouchInv
    <2>2. k \in Nat
      BY <1>1
    <2> HIDE DEF k, open
    <2> QED
      BY <1>1, <2>1, <2>2, OnePageIsAll
  <1>6. /\ scan'.page > 1 /\ scan'.page # 1 /\ k \in Nat /\ k >= 1
        /\ scan'.page = DONE <=> Cardinality(body) < PER_PAGE
        /\ scan'.page <= MAX_PAGES => scan'.page = k + 1
    BY <1>1, <1>2 DEF DONE
  <1>7. /\ k = 1 => scan.issues = {}
        /\ k > 1 => scan.new_etag # NULL
        /\ k > 1 /\ ~paged[scan.repo] => scan.issues = scan.new_etag
        /\ scan.quiet => /\ scan.etag = etag[scan.repo]
                         /\ scan.issues = PagesBefore(open, k)
                         /\ k > 1 => scan.new_etag = page_of(open, 1)
    BY <1>1 DEF ListingInv
  <1>8. k = 1 \/ k > 1
    BY <1>6
  <1> HIDE DEF k, open, body
  <1>9. scan'.new_etag # NULL
    BY <1>2, <1>3, <1>7, <1>8
  <1>10. ~paged[scan.repo] => scan'.issues = scan'.new_etag
    BY <1>2, <1>5, <1>7, <1>8
  <1>11. ASSUME scan.quiet
         PROVE  /\ scan'.page <= MAX_PAGES => scan'.issues = PagesBefore(open, scan'.page)
                /\ scan'.page = DONE => scan'.issues = open
                /\ scan'.new_etag = page_of(open, 1)
    <2>1. scan'.new_etag = page_of(open, 1)
      BY <1>2, <1>7, <1>8, <1>11 DEF body
    <2>2. scan'.issues = PagesBefore(open, k) \cup body
      BY <1>2, <1>7, <1>11
    <2>3. scan'.page <= MAX_PAGES => scan'.issues = PagesBefore(open, scan'.page)
      BY <1>4, <1>6, <2>2
    <2> QED
      BY <1>4, <1>6, <2>1, <2>2, <2>3
  <1>12. scan'.page # 1
    BY <1>6
  <1> QED
    BY <1>2, <1>7, <1>9, <1>10, <1>11, <1>12 DEF ListingInv, open

\* The listing lands: the board shows it, and so it shows GitHub if the scan was quiet.
LEMMA CommitBoard ==
    ASSUME BoardInv, ScanCommit
    PROVE  ListingInv' /\ \A r \in Repos : VouchInv(r)'
  <1> DEFINE S == scan.issues
  <1>0. PICK q \in Repos : q = scan.repo
    <2>1. scan.page > 1
      BY IssuesAssumption DEF ScanCommit, DONE
    <2>2. scan # NoScan
      BY <2>1 DEF NoScan
    <2> QED
      BY <2>1, <2>2 DEF BoardInv, TypeOK, ScanTypeOK, Scan
  <1>1. scan # NoScan /\ scan \in Scan /\ q \in Repos /\ q \in watched /\ S \in SUBSET Issues /\ scan.page > 1
    <2>1. scan.page > 1
      BY IssuesAssumption DEF ScanCommit, DONE
    <2>2. scan # NoScan
      BY <2>1 DEF NoScan
    <2> QED
      BY <1>0, <2>1, <2>2 DEF BoardInv, TypeOK, ScanTypeOK, Scan
  <1>2. /\ upstream' = upstream /\ watched' = watched /\ deleting' = deleting
        /\ link' = links_after(q, S) /\ mirror' = mirror_after(q, S)
        /\ etag' = [etag EXCEPT ![q] = scan.new_etag] /\ agreed' = [agreed EXCEPT ![q] = scan.quiet]
        /\ paged' = [paged EXCEPT ![q] = IF scan.quiet THEN Cardinality(Open(q)) > PER_PAGE ELSE @]
        /\ slipped' = slipped \ {q}
    BY <1>0 DEF ScanCommit
  <1>3. /\ etag \in [Repos -> (SUBSET Issues) \cup {NULL}] /\ agreed \in [Repos -> BOOLEAN]
        /\ paged \in [Repos -> BOOLEAN] /\ scan.quiet \in BOOLEAN
    BY <1>1 DEF BoardInv, TypeOK, StoreTypeOK, HistoryTypeOK, Scan
  <1>4. ListingInv'
    <2>1. scan' = NoScan
      BY DEF ScanCommit, EndScan
    <2> QED
      BY <2>1 DEF ListingInv
  <1>5. Shows(q, S, link', mirror')
    BY <1>1, <1>2, CommitShows DEF BoardInv
  <1>6. VouchInv(q)'
    <2>1. agreed'[q] = scan.quiet /\ etag'[q] = scan.new_etag
      BY <1>1, <1>2, <1>3
    <2>2. scan.quiet => S = Open(q)
      BY <1>0, <1>1 DEF BoardInv, ListingInv, ScanCommit
    <2>3. scan.quiet => Shows(q, upstream', link', mirror')
      <3>1. \A i \in IssuesOf(q) : i \in Open(q) <=> i \in upstream'
        BY <1>2 DEF Open
      <3> QED
        BY <1>5, <2>2, <3>1, ShowsSame
    <2>4. ~paged'[q] => Cardinality(Open(q)) <= PER_PAGE
      <3>1. Cardinality(Open(q)) \in Nat /\ PER_PAGE \in Nat
        <4>1. Open(q) \subseteq Issues
          BY DEF Open, IssuesOf
        <4> QED
          BY <4>1, NewerFinite, IssuesAssumption
      <3>2. CASE scan.quiet
        <4>1. paged'[q] = (Cardinality(Open(q)) > PER_PAGE)
          BY <1>1, <1>2, <1>3, <3>2
        <4> DEFINE c == Cardinality(Open(q))
        <4>2. paged'[q] = (c > PER_PAGE) /\ c \in Nat
          BY <3>1, <4>1
        <4> HIDE DEF c
        <4>3. ~(c > PER_PAGE) => c <= PER_PAGE
          BY <3>1, <4>2
        <4> QED
          BY <4>2, <4>3 DEF c
      <3>3. CASE ~scan.quiet
        BY <1>1, <1>2, <1>3, <3>3 DEF BoardInv, VouchInv
      <3> QED
        BY <3>2, <3>3
    <2>5. ~paged'[q] => scan.new_etag = S
      <3>1. CASE scan.quiet
        <4>1. scan.new_etag = page_of(Open(q), 1) /\ S = Open(q)
          BY <1>0, <1>1, <2>2, <3>1 DEF BoardInv, ListingInv
        <4>2. Open(q) \subseteq Issues
          BY DEF Open, IssuesOf
        <4> QED
          BY <2>4, <4>1, <4>2, OnePageIsAll
      <3>2. CASE ~scan.quiet
        <4>1. paged'[q] = paged[q]
          BY <1>1, <1>2, <1>3, <3>2
        <4> QED
          BY <1>0, <1>1, <4>1 DEF BoardInv, ListingInv
      <3> QED
        BY <3>1, <3>2
    <2>6. Open(q)' = Open(q)
      BY <1>2 DEF Open, IssuesOf
    <2>7. q \in watched'
      BY <1>1, <1>2
    <2> QED
      BY <1>5, <2>1, <2>3, <2>4, <2>5, <2>6, <2>7 DEF VouchInv
  <1>7. ASSUME NEW r \in Repos, r # q PROVE VouchInv(r)'
    <2>1. /\ agreed'[r] = agreed[r] /\ etag'[r] = etag[r] /\ paged'[r] = paged[r]
      BY <1>1, <1>2, <1>3, <1>7
    <2>2. Whole(r)' => Whole(r)
      BY <1>2, <1>7 DEF Whole
    <2>3. ASSUME NEW i \in IssuesOf(r)
          PROVE  mirror'[i] = mirror[i] /\ \A n \in Notes : link'[n][i] = link[n][i]
      BY <1>2, <1>7 DEF links_after, mark_issues_closed, refresh_issue, mirror_after, IssuesOf
    <2>4. VouchInv(r)
      BY DEF BoardInv
    <2> QED
      BY <1>2, <2>1, <2>2, <2>3, <2>4, VouchKept DEF VouchInv
  <1> QED
    BY <1>4, <1>6, <1>7

\* Page 1 of a quiet scan answers 304: what its ETag stands for is what GitHub lists.
LEMMA UnchangedBoard ==
    ASSUME BoardInv, ScanUnchanged
    PROVE  ListingInv' /\ \A r \in Repos : VouchInv(r)'
  <1>1. scan # NoScan /\ scan \in Scan /\ scan.repo \in watched /\ scan.repo \in Repos
    BY DEF ScanUnchanged, NoScan, BoardInv, TypeOK, ScanTypeOK
  <1>2. /\ upstream' = upstream /\ watched' = watched /\ deleting' = deleting /\ link' = link
        /\ mirror' = mirror /\ etag' = etag /\ paged' = paged /\ slipped' = slipped /\ scan' = NoScan
        /\ agreed' = [agreed EXCEPT ![scan.repo] = @ \/ (scan.quiet /\ ~paged[scan.repo])]
    BY DEF ScanUnchanged, localvars, EndScan
  <1>3. agreed \in [Repos -> BOOLEAN]
    BY DEF BoardInv, TypeOK, HistoryTypeOK
  <1>4. ListingInv'
    BY <1>2 DEF ListingInv
  <1>5. ASSUME NEW r \in Repos PROVE VouchInv(r)'
    <2>1. VouchInv(r)
      BY DEF BoardInv
    <2>2. Whole(r)' <=> Whole(r)
      BY <1>2 DEF Whole
    <2>3. CASE agreed'[r] => agreed[r]
      <3>1. agreed'[r] => agreed[r] /\ r \in watched'
        BY <1>2, <2>1, <2>3 DEF VouchInv
      <3> QED
        BY <1>2, <2>1, <2>2, <3>1, VouchKept
    <2>4. CASE ~(agreed'[r] => agreed[r])
      <3>1. r = scan.repo /\ scan.quiet /\ ~paged[r]
        BY <1>1, <1>2, <1>3, <2>4
      <3>2. etag[r] = page_of(Open(r), 1)
        BY <1>1, <3>1 DEF BoardInv, ListingInv, ScanUnchanged
      <3>3. Open(r) \subseteq Issues
        BY DEF Open, IssuesOf
      <3>4. etag[r] = Open(r) /\ etag[r] # NULL
        BY <2>1, <3>1, <3>2, <3>3, OnePageIsAll, IssuesAssumption DEF VouchInv
      <3>5. Whole(r) => Shows(r, upstream, link, mirror)
        <4> SUFFICES ASSUME Whole(r) PROVE Shows(r, upstream, link, mirror)
          OBVIOUS
        <4>1. Shows(r, Open(r), link, mirror)
          BY <2>1, <3>1, <3>4 DEF VouchInv
        <4>2. \A i \in IssuesOf(r) : i \in Open(r) <=> i \in upstream
          BY DEF Open
        <4> QED
          BY <4>1, <4>2, ShowsSame
      <3>6. r \in watched
        BY <1>1, <3>1
      <3>7. Open(r)' = Open(r)
        BY <1>2 DEF Open, IssuesOf
      <3> QED
        BY <1>2, <2>1, <2>2, <3>5, <3>6, <3>7 DEF VouchInv
    <2> QED
      BY <2>3, <2>4
  <1> QED
    BY <1>4, <1>5

\* An issue changes on GitHub: its repository is disturbed, and one that no longer fits a page
\* is remembered.
LEMMA UpstreamBoard ==
    ASSUME BoardInv, NEW x \in Issues, Upstream(x)
    PROVE  ListingInv' /\ \A r \in Repos : VouchInv(r)'
  <1> DEFINE q == RepoOf[x]
  <1>1. /\ watched' = watched /\ deleting' = deleting /\ link' = link
        /\ mirror' = mirror /\ etag' = etag /\ slipped' = slipped
        /\ upstream' = IF x \in upstream THEN upstream \ {x} ELSE upstream \cup {x}
        /\ Disturb({q})
        /\ paged' = [r \in Repos |-> paged[r] \/ Cardinality(upstream' \cap IssuesOf(r)) > PER_PAGE]
    BY DEF Upstream
  <1>2. q \in Repos /\ upstream \subseteq Issues /\ PER_PAGE \in Nat /\ paged \in [Repos -> BOOLEAN]
    BY IssuesAssumption DEF BoardInv, TypeOK, HistoryTypeOK
  <1>3. ASSUME NEW r \in Repos, r # q PROVE Open(r)' = Open(r)
    BY <1>1, <1>3 DEF Open, IssuesOf
  <1>4. ASSUME NEW r \in Repos
        PROVE  /\ paged'[r] <=> (paged[r] \/ Cardinality(Open(r)') > PER_PAGE)
               /\ Open(r)' \subseteq Issues /\ Cardinality(Open(r)') \in Nat
    <2>1. Open(r)' \subseteq Issues
      BY DEF Open, IssuesOf
    <2>2. Cardinality(Open(r)') \in Nat
      BY <2>1, NewerFinite
    <2>3. Open(r)' = upstream' \cap IssuesOf(r)
      BY DEF Open, IssuesOf
    <2>4. paged'[r] = (paged[r] \/ Cardinality(upstream' \cap IssuesOf(r)) > PER_PAGE)
      BY <1>1
    <2> QED
      BY <2>1, <2>2, <2>3, <2>4
  <1>5. ListingInv'
    <2> SUFFICES ASSUME scan' # NoScan PROVE ListingInv'
      BY DEF ListingInv
    <2>1. /\ scan # NoScan
          /\ scan'.repo = scan.repo /\ scan'.page = scan.page /\ scan'.etag = scan.etag
          /\ scan'.new_etag = scan.new_etag /\ scan'.issues = scan.issues
          /\ scan'.quiet => scan.quiet /\ scan.repo \notin {q}
          /\ scan.repo \in Repos
      BY <1>1, DisturbScan DEF BoardInv
    <2>2. paged[scan.repo] => paged'[scan.repo]
      BY <1>4, <2>1
    <2>3. PICK s \in Repos : s = scan.repo
      BY <2>1
    <2>4. scan'.quiet => Open(s)' = Open(s)
      BY <1>3, <2>1, <2>3
    <2>5. scan'.repo = s /\ scan.repo = s
      BY <2>1, <2>3
    <2> QED
      BY <1>1, <2>1, <2>2, <2>4, <2>5 DEF ListingInv, BoardInv, Open
  <1>6. ASSUME NEW r \in Repos PROVE VouchInv(r)'
    <2>1. VouchInv(r) /\ (agreed'[r] <=> agreed[r] /\ r # q)
      BY <1>1 DEF BoardInv, Disturb
    <2>2. Whole(r)' <=> Whole(r)
      BY <1>1 DEF Whole
    <2>3. ASSUME agreed'[r], Whole(r)' PROVE Shows(r, upstream', link', mirror')
      <3>1. Shows(r, upstream, link, mirror)
        BY <2>1, <2>2, <2>3 DEF VouchInv
      <3>2. \A i \in IssuesOf(r) : i \in upstream <=> i \in upstream'
        BY <1>1, <2>1, <2>3 DEF IssuesOf
      <3> QED
        BY <1>1, <3>1, <3>2, ShowsSame
    <2>4. ~paged'[r] => Cardinality(Open(r)') <= PER_PAGE
      <3> DEFINE c == Cardinality(Open(r)')
      <3>1. c \in Nat /\ (~paged'[r] => ~(c > PER_PAGE))
        BY <1>4
      <3> HIDE DEF c
      <3>2. ~paged'[r] => c <= PER_PAGE
        BY <1>2, <3>1
      <3> QED
        BY <3>2 DEF c
    <2>5. ~paged'[r] => ~paged[r]
      BY <1>4
    <2> QED
      BY <1>1, <2>1, <2>2, <2>3, <2>4, <2>5 DEF VouchInv
  <1> QED
    BY <1>5, <1>6

\* A request that changes what the board shows of some repositories disturbs them, and their
\* ETags are forgotten or a delete still has to.
LEMMA RequestBoard ==
    ASSUME BoardInv, NEW repos, Disturb(repos),
           upstream' = upstream, paged' = paged, watched' = watched,
           \A r \in Repos \cap repos : etag'[r] = NULL \/ ~Whole(r)',
           \A r \in Repos \ repos :
              /\ etag'[r] = etag[r] /\ (Whole(r)' => Whole(r))
              /\ \A i \in IssuesOf(r) : mirror'[i] = mirror[i] /\ \A n \in Notes : link'[n][i] = link[n][i]
    PROVE  ListingInv' /\ \A r \in Repos : VouchInv(r)'
  <1>1. ListingInv'
    <2>1. scan' # NoScan =>
            /\ scan # NoScan
            /\ scan'.repo = scan.repo /\ scan'.page = scan.page /\ scan'.etag = scan.etag
            /\ scan'.new_etag = scan.new_etag /\ scan'.issues = scan.issues
            /\ scan'.quiet => scan.quiet /\ scan.repo \notin repos
            /\ scan.repo \in Repos
      BY DisturbScan DEF BoardInv
    <2>2. scan' # NoScan => Open(scan.repo)' = Open(scan.repo)
      BY <2>1 DEF Open, IssuesOf
    <2>3. TypeOK /\ ListingInv
      BY DEF BoardInv
    <2> QED
      BY <2>1, <2>2, <2>3, ListingKept
  <1>2. ASSUME NEW r \in Repos PROVE VouchInv(r)'
    <2>1. VouchInv(r) /\ (agreed'[r] <=> agreed[r] /\ r \notin repos)
      BY DEF BoardInv, Disturb
    <2>2. CASE r \in repos
      BY <2>1, <2>2, VouchKept
    <2>3. CASE r \notin repos
      <3>1. agreed'[r] => agreed[r] /\ r \in watched'
        BY <2>1 DEF VouchInv
      <3> QED
        BY <2>1, <2>3, <3>1, VouchKept
    <2> QED
      BY <2>2, <2>3
  <1> QED
    BY <1>1, <1>2

\* What is said of a repository without an upstream change, a scan or a disturbance.
LEMMA QuietBoard ==
    ASSUME BoardInv, upstream' = upstream, paged' = paged, agreed' = agreed, watched' = watched,
           link' = link, slipped' = slipped,
           \A n \in Notes : \A r \in Repos :
              deleting[n].at = "gone" /\ r \in deleting[n].repos =>
                  deleting'[n].at = "gone" /\ r \in deleting'[n].repos,
           \A r \in watched : etag'[r] = etag[r] /\ \A i \in IssuesOf(r) : mirror'[i] = mirror[i],
           \A r \in Repos : \/ etag'[r] = NULL
                            \/ etag'[r] = etag[r] /\ \A i \in IssuesOf(r) : mirror'[i] = mirror[i]
    PROVE  \A r \in Repos : VouchInv(r)'
  <1> SUFFICES ASSUME NEW r \in Repos PROVE VouchInv(r)'
    OBVIOUS
  <1>1. VouchInv(r)
    BY DEF BoardInv
  <1>2. Whole(r)' => Whole(r)
    BY DEF Whole
  <1>3. agreed[r] => r \in watched
    BY <1>1 DEF VouchInv
  <1>4. CASE r \in watched \/ etag'[r] # NULL
    <2>1. etag'[r] = etag[r] /\ \A i \in IssuesOf(r) : mirror'[i] = mirror[i]
      BY <1>4
    <2>2. agreed'[r] => agreed[r] /\ r \in watched'
      BY <1>3
    <2> QED
      BY <1>1, <1>2, <2>1, <2>2, VouchKept
  <1>5. CASE r \notin watched /\ etag'[r] = NULL
    BY <1>1, <1>3, <1>5, VouchKept
  <1> QED
    BY <1>4, <1>5

\* Every step keeps what scans vouch for.
LEMMA NextBoardInv == BoardInv /\ [Next]_vars => BoardInv'
  <1> SUFFICES ASSUME BoardInv, [Next]_vars PROVE BoardInv'
    OBVIOUS
  <1> DEFINE Goal == ListingInv' /\ \A r \in Repos : VouchInv(r)'
  <1>1. TypeOK' /\ OneCard'
    BY NextTypeOK, NextOneCard DEF BoardInv
  <1>2. TypeOK /\ OneCard /\ ListingInv /\ \A r \in Repos : VouchInv(r)
    BY DEF BoardInv
  <1>3. ASSUME scan' = scan, upstream' = upstream, etag' = etag, paged' = paged PROVE ListingInv'
    BY <1>2, <1>3 DEF ListingInv, Open, IssuesOf
  <1>4. ASSUME scan' = NoScan PROVE ListingInv'
    BY <1>4 DEF ListingInv
  <1>5. ASSUME UNCHANGED vars PROVE Goal
    <2>1. /\ upstream' = upstream /\ watched' = watched /\ link' = link /\ mirror' = mirror /\ etag' = etag
          /\ scan' = scan /\ deleting' = deleting /\ agreed' = agreed /\ paged' = paged /\ slipped' = slipped
      BY <1>5 DEF vars
    <2> QED
      BY <1>3, <2>1, QuietBoard
  <1>6. ASSUME NEW n \in Notes, Create(n) \/ PatchReviewed(n) \/ PatchState(n) PROVE Goal
    <2>1. /\ upstream' = upstream /\ watched' = watched /\ link' = link /\ mirror' = mirror /\ etag' = etag
          /\ scan' = scan /\ deleting' = deleting /\ agreed' = agreed /\ paged' = paged /\ slipped' = slipped
      BY <1>6 DEF Create, PatchReviewed, PatchState, scanvars, histvars
    <2> QED
      BY <1>3, <2>1, QuietBoard
  <1>7. ASSUME NEW n \in Notes, DeleteRead(n) PROVE Goal
    <2>1. /\ upstream' = upstream /\ watched' = watched /\ link' = link /\ mirror' = mirror /\ etag' = etag
          /\ scan' = scan /\ agreed' = agreed /\ paged' = paged /\ slipped' = slipped
          /\ deleting[n] = NotDeleting
          /\ deleting' = [deleting EXCEPT ![n] = [at |-> "read", repos |-> {RepoOf[i] : i \in Links(n)}]]
      BY <1>7 DEF DeleteRead, scanvars, histvars
    <2>2. \A m \in Notes : deleting[m].at = "gone" => deleting'[m] = deleting[m]
      BY <1>2, <2>1 DEF TypeOK, StoreTypeOK, NotDeleting
    <2> QED
      BY <1>3, <2>1, <2>2, QuietBoard
  <1>8. ASSUME NEW n \in Notes, DeleteRow(n) PROVE Goal
    <2> DEFINE repos == {RepoOf[i] : i \in Links(n)}
    <2>1. /\ upstream' = upstream /\ watched' = watched /\ mirror' = mirror /\ etag' = etag /\ paged' = paged
          /\ Disturb(repos) /\ link' = [link EXCEPT ![n] = [i \in Issues |-> "none"]]
          /\ deleting[n].at = "read" /\ deleting' = [deleting EXCEPT ![n].at = "gone"]
          /\ slipped' = slipped \cup (repos \ deleting[n].repos)
      BY <1>8 DEF DeleteRow
    <2>2. /\ deleting'[n].at = "gone" /\ deleting'[n].repos = deleting[n].repos
          /\ \A m \in Notes : m # n => deleting'[m] = deleting[m]
      BY <1>2, <2>1 DEF TypeOK, StoreTypeOK
    <2>3. ASSUME NEW r \in Repos \cap repos PROVE ~Whole(r)'
      BY <2>1, <2>2 DEF Whole
    <2>4. ASSUME NEW r \in Repos \ repos
          PROVE  /\ Whole(r)' => Whole(r)
                 /\ \A i \in IssuesOf(r) : \A m \in Notes : link'[m][i] = link[m][i]
      <3>1. Whole(r)' => Whole(r)
        BY <2>1, <2>2 DEF Whole
      <3>2. ASSUME NEW i \in IssuesOf(r), NEW m \in Notes PROVE link'[m][i] = link[m][i]
        BY <1>2, <2>1 DEF Links, IssuesOf, TypeOK, StoreTypeOK
      <3> QED
        BY <3>1, <3>2
    <2> HIDE DEF repos
    <2> QED
      BY <2>1, <2>3, <2>4, RequestBoard
  <1>9. ASSUME NEW n \in Notes, DeleteForget(n) PROVE Goal
    <2> DEFINE repos == deleting[n].repos
    <2>1. /\ upstream' = upstream /\ watched' = watched /\ mirror' = mirror /\ link' = link /\ paged' = paged
          /\ Disturb(repos) /\ slipped' = slipped /\ etag' = forget_etag(etag, repos)
          /\ deleting' = [deleting EXCEPT ![n] = NotDeleting]
      BY <1>9 DEF DeleteForget
    <2>2. \A r \in Repos : etag'[r] = IF r \in repos THEN NULL ELSE etag[r]
      BY <2>1 DEF forget_etag
    <2>3. ASSUME NEW r \in Repos \ repos PROVE Whole(r)' => Whole(r)
      BY <1>2, <2>1 DEF Whole, TypeOK, StoreTypeOK
    <2> QED
      BY <2>1, <2>2, <2>3, RequestBoard
  <1>10. ASSUME NEW n \in Notes, NEW x \in Issues, link_issue(n, x) PROVE Goal
    <2> DEFINE new == link[n][x] = "none"
               repos == IF new THEN {RepoOf[x]} ELSE {}
    <2>1. /\ upstream' = upstream /\ watched' = watched /\ paged' = paged /\ slipped' = slipped /\ deleting' = deleting
          /\ Disturb(repos) /\ etag' = (IF new THEN forget_etag(etag, {RepoOf[x]}) ELSE etag)
          /\ link' = (IF new THEN [link EXCEPT ![n][x] = "open"] ELSE link)
          /\ mirror' = [mirror EXCEPT ![x] = archived(@)]
      BY <1>10 DEF link_issue
    <2>2. \A r \in Repos : Whole(r)' <=> Whole(r)
      BY <2>1 DEF Whole
    <2>3. \A r \in Repos : etag'[r] = IF r \in repos THEN NULL ELSE etag[r]
      BY <2>1 DEF forget_etag
    <2>4. ASSUME NEW r \in Repos \ repos, NEW i \in IssuesOf(r) PROVE mirror'[i] = mirror[i]
      <3>1. CASE i = x
        <4>1. ~new
          BY <3>1 DEF IssuesOf
        <4>2. linked_issue(x)
          BY <4>1 DEF linked_issue
        <4>3. archived(mirror[x]) = mirror[x]
          BY <1>2, <4>2 DEF OneCard, archived
        <4> QED
          BY <1>2, <2>1, <3>1, <4>3 DEF TypeOK, StoreTypeOK
      <3>2. CASE i # x
        BY <1>2, <2>1, <3>2 DEF TypeOK, StoreTypeOK, IssuesOf
      <3> QED
        BY <3>1, <3>2
    <2>5. ASSUME NEW r \in Repos \ repos, NEW i \in IssuesOf(r), NEW m \in Notes PROVE link'[m][i] = link[m][i]
      BY <1>2, <2>1 DEF TypeOK, StoreTypeOK, IssuesOf
    <2> HIDE DEF repos, new
    <2> QED
      BY <2>1, <2>2, <2>3, <2>4, <2>5, RequestBoard
  <1>11. ASSUME SyncStart PROVE Goal
    <2>1. /\ upstream' = upstream /\ watched' = watched /\ link' = link /\ scan' = NoScan
          /\ deleting' = deleting /\ agreed' = agreed /\ paged' = paged /\ slipped' = slipped
          /\ archive_unwatched \/ UNCHANGED <<mirror, etag>>
      BY <1>11 DEF SyncStart, histvars
    <2>2. watched \subseteq Repos
      BY <1>2 DEF TypeOK, ScanTypeOK
    <2>3. ASSUME NEW r \in Repos
          PROVE  /\ r \in watched => etag'[r] = etag[r] /\ \A i \in IssuesOf(r) : mirror'[i] = mirror[i]
                 /\ \/ etag'[r] = NULL
                    \/ etag'[r] = etag[r] /\ \A i \in IssuesOf(r) : mirror'[i] = mirror[i]
      BY <2>1, <2>2 DEF archive_unwatched, forget_etag, IssuesOf
    <2> QED
      BY <1>4, <2>1, <2>2, <2>3, QuietBoard
  <1>12. ASSUME NEW r \in Repos, ScanBackoff(r) PROVE Goal
    <2>1. /\ upstream' = upstream /\ watched' = watched /\ link' = link /\ mirror' = mirror /\ etag' = etag
          /\ scan' = scan /\ deleting' = deleting /\ agreed' = agreed /\ paged' = paged /\ slipped' = slipped
      BY <1>12 DEF ScanBackoff, localvars, histvars
    <2> QED
      BY <1>3, <2>1, QuietBoard
  <1>13. ASSUME NEW r \in Repos, ScanBegin(r) PROVE Goal
    <2>1. /\ upstream' = upstream /\ watched' = watched /\ link' = link /\ mirror' = mirror
          /\ etag' = etag /\ deleting' = deleting /\ agreed' = agreed /\ paged' = paged /\ slipped' = slipped
      BY <1>13 DEF ScanBegin, localvars, histvars
    <2>2. /\ scan'.repo = r /\ scan'.page = 1 /\ scan'.issues = {} /\ scan'.etag = etag[r]
      BY <1>13 DEF ScanBegin
    <2>3. PagesBefore(Open(r), 1) = {}
      <3>1. Open(r) \subseteq Issues
        BY DEF Open, IssuesOf
      <3> QED
        BY <3>1, PagesGrow
    <2>4. ListingInv'
      <3>1. DONE # 1
        BY IssuesAssumption DEF DONE
      <3> QED
        BY <2>1, <2>2, <2>3, <3>1 DEF ListingInv, Open, IssuesOf
    <2> QED
      BY <2>1, <2>4, QuietBoard
  <1>14. ASSUME ScanTruncated \/ ScanFails PROVE Goal
    <2>1. /\ upstream' = upstream /\ watched' = watched /\ link' = link /\ mirror' = mirror /\ etag' = etag
          /\ scan' = NoScan /\ deleting' = deleting /\ agreed' = agreed /\ paged' = paged /\ slipped' = slipped
      BY <1>14 DEF ScanTruncated, ScanFails, EndScan, localvars, histvars
    <2> QED
      BY <1>4, <2>1, QuietBoard
  <1>15. ASSUME ScanPage PROVE Goal
    <2>1. /\ upstream' = upstream /\ watched' = watched /\ link' = link /\ mirror' = mirror
          /\ etag' = etag /\ deleting' = deleting /\ agreed' = agreed /\ paged' = paged /\ slipped' = slipped
      BY <1>15 DEF ScanPage, localvars, histvars
    <2>2. ListingInv'
      BY <1>2, <1>15, PageKeepsListing
    <2> QED
      BY <2>1, <2>2, QuietBoard
  <1>16. ASSUME Boot PROVE Goal
    <2>1. /\ upstream' = upstream /\ scan' = NoScan /\ paged' = paged
          /\ agreed' = [r \in Repos |-> FALSE] /\ etag' = forget_etag(etag, Repos)
      BY <1>16 DEF Boot
    <2>2. ASSUME NEW r \in Repos PROVE VouchInv(r)'
      <3>1. ~agreed'[r] /\ etag'[r] = NULL
        BY <2>1 DEF forget_etag
      <3> QED
        BY <1>2, <2>1, <3>1, VouchKept
    <2> QED
      BY <1>4, <2>1, <2>2
  <1>17. ASSUME NEW i \in Issues, Upstream(i) PROVE Goal
    BY <1>17, UpstreamBoard
  <1>18. Goal
    BY <1>5, <1>6, <1>7, <1>8, <1>9, <1>10, <1>11, <1>12, <1>13, <1>14, <1>15, <1>16, <1>17,
       UnchangedBoard, CommitBoard DEF Next
  <1> QED
    BY <1>1, <1>18 DEF BoardInv

\* Nothing has been scanned.
LEMMA InitBoardInv == Init => BoardInv
  <1> SUFFICES ASSUME Init PROVE BoardInv
    OBVIOUS
  <1>1. TypeOK /\ OneCard /\ ListingInv
    <2>1. TypeOK
      BY InitTypeOK
    <2>2. OneCard
      BY DEF Init, OneCard, Live
    <2>3. ListingInv
      BY DEF Init, ListingInv
    <2> QED
      BY <2>1, <2>2, <2>3
  <1>2. ASSUME NEW r \in Repos PROVE VouchInv(r)
    <2>1. ~agreed[r] /\ etag[r] = NULL /\ paged[r] = (Cardinality(Open(r)) > PER_PAGE)
      BY DEF Init
    <2> DEFINE c == Cardinality(Open(r))
    <2>2. c \in Nat /\ PER_PAGE \in Nat
      <3>1. Open(r) \subseteq Issues
        BY DEF Open, IssuesOf
      <3> QED
        BY <3>1, NewerFinite, IssuesAssumption
    <2> HIDE DEF c
    <2>3. ~(c > PER_PAGE) => c <= PER_PAGE
      BY <2>2
    <2> QED
      BY <2>1, <2>3 DEF VouchInv, c
  <1> QED
    BY <1>1, <1>2 DEF BoardInv

\* A board that is vouched for shows what GitHub says.
LEMMA BoardInvSettles == BoardInv => ScanSettlesBoard
  <1> SUFFICES ASSUME BoardInv, NEW r \in Repos \ slipped, Settled(r) PROVE Agrees(r)
    BY DEF ScanSettlesBoard
  <1>1. agreed[r] /\ Whole(r)
    BY DEF Settled, Whole
  <1>2. Shows(r, upstream, link, mirror)
    BY <1>1 DEF BoardInv, VouchInv
  <1> QED
    BY <1>2 DEF Shows, Agrees, linked_issue

\* One undisturbed scan settles the board: for every number of repositories, issues, pages and
\* notes, with a listing or a 304, the board then agrees with GitHub about the repository.
THEOREM ScansSettleTheBoard == Spec => []ScanSettlesBoard
  <1>1. BoardInv /\ [Next]_vars => BoardInv'
    BY NextBoardInv
  <1> QED
    BY <1>1, InitBoardInv, BoardInvSettles, PTL DEF Spec

=============================================================================
