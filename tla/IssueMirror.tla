----------------------------- MODULE IssueMirror -----------------------------
(***************************************************************************)
(* The GitHub side of the Inbox: links from notes to issues, the mirrored  *)
(* rows of the issues no note links, and the scans that keep both current. *)
(* A scan reads the stored ETag, fetches page by page while GitHub and the *)
(* Inbox go on changing, and lands in one transaction.  A 304 lands        *)
(* nothing, so every local change a scan would have to re-apply forgets    *)
(* the ETag.                                                               *)
(***************************************************************************)
EXTENDS InboxNotes, Integers, FiniteSets

CONSTANTS
    Repos,          \* repositories that may be watched
    Issues,         \* issue numbers, the newest the largest
    Configs,        \* the values INBOX_GITHUB_REPOS may have at a boot
    RepoOf,         \* RepoOf[i]: the repository of the issue
    PER_PAGE,       \* issues on a page of the listing
    MAX_PAGES       \* pages read before the listing counts as truncated

ASSUME IssuesAssumption ==
    /\ Issues \subseteq Nat /\ IsFiniteSet(Issues)
    /\ Configs \subseteq SUBSET Repos
    /\ RepoOf \in [Issues -> Repos]
    /\ PER_PAGE \in Nat \ {0} /\ MAX_PAGES \in Nat \ {0}
    /\ \A tag \in SUBSET Issues : tag # NULL

VARIABLES
    upstream,       \* the issues open on GitHub
    watched,        \* INBOX_GITHUB_REPOS
    link,           \* link[n][i]: inbox_issues.state, or "none"
    mirror,         \* mirror[i]: the mirrored row of the issue
    etag,           \* etag[r]: inbox_mirror_state.etag
    backoff,        \* backoff[r]: inbox_mirror_state.backoff_until is set
    todo,           \* repositories the current sync has still to scan
    scan,           \* the scan in flight
    deleting,       \* deleting[n]: how far the request that deletes n has come
    agreed,         \* history: agreed[r], a scan of r ended and nothing changed since it began
    paged,          \* history: paged[r], r outgrew one page since the last quiet scan that stored its ETag
    slipped         \* history: repositories whose link a delete dropped without having read it

localvars == <<watched, link, mirror, etag, deleting, note, hand>>
scanvars == <<todo, scan, backoff>>
histvars == <<agreed, paged, slipped>>
vars == <<upstream, watched, link, mirror, etag, backoff, todo, scan, deleting, agreed, paged,
          slipped, note, hand>>

IssuesOf(r) == {i \in Issues : RepoOf[i] = r}
Open(r) == upstream \cap IssuesOf(r)
Links(n) == {i \in Issues : link[n][i] # "none"}
linked_issue(i) == \E n \in Notes : link[n][i] # "none"

NoItem == [state |-> "none", archived |-> FALSE]
MirrorRow == [state : {"open", "closed"}, archived : BOOLEAN]
Live(row) == row # NoItem /\ ~row.archived

NoScan == [repo |-> NULL, page |-> 0, etag |-> NULL, new_etag |-> NULL, issues |-> {}, quiet |-> FALSE]
DONE == MAX_PAGES + 1       \* the page of a scan that has read the whole listing

\* A delete in flight has read the repositories of the note's links; row says whether the
\* DELETE statement has run.
NotDeleting == [at |-> "idle", repos |-> {}]

Scan == [repo : Repos, page : 1..DONE, etag : (SUBSET Issues) \cup {NULL},
         new_etag : (SUBSET Issues) \cup {NULL}, issues : SUBSET Issues, quiet : BOOLEAN]

StoreTypeOK ==
    /\ link \in [Notes -> [Issues -> {"none", "open", "closed"}]]
    /\ mirror \in [Issues -> MirrorRow \cup {NoItem}]
    /\ etag \in [Repos -> (SUBSET Issues) \cup {NULL}]
    /\ deleting \in [Notes -> [at : {"idle", "read", "gone"}, repos : SUBSET Repos]]

ScanTypeOK ==
    /\ watched \subseteq Repos /\ todo \subseteq watched
    /\ scan \in Scan \cup {NoScan}
    /\ scan # NoScan => scan.repo \in todo
    /\ backoff \in [Repos -> BOOLEAN]

HistoryTypeOK ==
    /\ upstream \subseteq Issues
    /\ agreed \in [Repos -> BOOLEAN] /\ paged \in [Repos -> BOOLEAN] /\ slipped \subseteq Repos

\* The tables hold what their columns may hold, and a scan in flight belongs to the sync.
TypeOK == NotesTypeOK /\ StoreTypeOK /\ ScanTypeOK /\ HistoryTypeOK

Init ==
    /\ NotesInit
    /\ upstream \in SUBSET Issues
    /\ watched \in Configs
    /\ link = [n \in Notes |-> [i \in Issues |-> "none"]]
    /\ mirror = [i \in Issues |-> NoItem]
    /\ etag = [r \in Repos |-> NULL]
    /\ backoff = [r \in Repos |-> FALSE]
    /\ todo = {} /\ scan = NoScan
    /\ deleting = [n \in Notes |-> NotDeleting]
    /\ agreed = [r \in Repos |-> FALSE]
    /\ paged = [r \in Repos |-> Cardinality(Open(r)) > PER_PAGE]
    /\ slipped = {}

-----------------------------------------------------------------------------
\* The listing: open issues, newest first, PER_PAGE at a time.
page_of(open, k) ==
    {i \in open : LET newer == Cardinality({j \in open : j > i})
                  IN  newer >= (k - 1) * PER_PAGE /\ newer < k * PER_PAGE}

\* Mutant: the ETag survives a local change.
keep_etag(tags, repos) == tags

\* inbox_db.forget_etag, for each of the repositories.
forget_etag(tags, repos) == [r \in Repos |-> IF r \in repos THEN NULL ELSE tags[r]]

\* Mutant: archives whether or not there is a live row.
archive_always(row) == [row EXCEPT !.archived = TRUE]

\* archive_mirror_row_of_linked_issue, and the archiving of archive_unwatched_github.
archived(row) == IF Live(row) THEN [row EXCEPT !.archived = TRUE] ELSE row

\* History: something about these repositories changed, so no earlier scan vouches for them
\* and the one in flight is not a quiet one.
Disturb(repos) ==
    /\ agreed' = [r \in Repos |-> agreed[r] /\ r \notin repos]
    /\ scan' = [scan EXCEPT !.quiet = @ /\ scan.repo \notin repos]

-----------------------------------------------------------------------------
(* GitHub.                                                                 *)

\* An issue is opened, closed or reopened on GitHub.
Upstream(i) ==
    /\ upstream' = IF i \in upstream THEN upstream \ {i} ELSE upstream \cup {i}
    /\ paged' = [r \in Repos |-> paged[r] \/ Cardinality(upstream' \cap IssuesOf(r)) > PER_PAGE]
    /\ hand' = [n \in Notes |-> IF hand[n] = "calm" /\ i \in Links(n) THEN "other" ELSE hand[n]]
    /\ Disturb({RepoOf[i]})
    /\ UNCHANGED <<watched, link, mirror, etag, backoff, todo, deleting, note, slipped>>

-----------------------------------------------------------------------------
(* Requests.                                                               *)

Create(n) == create_item(n) /\ UNCHANGED <<upstream, watched, link, mirror, etag, deleting, scanvars, histvars>>

PatchReviewed(n) ==
    patch_reviewed(n) /\ UNCHANGED <<upstream, watched, link, mirror, etag, deleting, scanvars, histvars>>

PatchState(n) ==
    /\ \E state \in {"open", "closed"} :
          patch_state(n, state, scan = NoScan /\ \A i \in Links(n) : link[n][i] = "closed" /\ i \notin upstream)
    /\ UNCHANGED <<upstream, watched, link, mirror, etag, deleting, scanvars, histvars>>

\* post_issues: one transaction.  A new link starts open, archives the issue's mirrored row
\* and forgets the ETag; repeating it changes no state.
link_issue(n, i) ==
    /\ Fileable(n)
    /\ RepoOf[i] \in watched
    /\ LET new == link[n][i] = "none" IN
          /\ link' = IF new THEN [link EXCEPT ![n][i] = "open"] ELSE link
          /\ etag' = IF new THEN forget_etag(etag, {RepoOf[i]}) ELSE etag
          /\ hand' = IF new THEN [hand EXCEPT ![n] = "none"] ELSE hand
          /\ Disturb(IF new THEN {RepoOf[i]} ELSE {})
    /\ mirror' = [mirror EXCEPT ![i] = archived(@)]
    /\ UNCHANGED <<upstream, watched, backoff, todo, deleting, note, paged, slipped>>

\* delete_item is not a transaction: it reads the repositories the note links ...
DeleteRead(n) ==
    /\ Exists(n) /\ deleting[n] = NotDeleting
    /\ deleting' = [deleting EXCEPT ![n] = [at |-> "read", repos |-> {RepoOf[i] : i \in Links(n)}]]
    /\ UNCHANGED <<upstream, watched, link, mirror, etag, note, hand, scanvars, histvars>>

\* ... deletes the row, and its links by ON DELETE CASCADE ...
DeleteRow(n) ==
    /\ deleting[n].at = "read"
    /\ note' = [note EXCEPT ![n] = Deleted]
    /\ hand' = [hand EXCEPT ![n] = "none"]
    /\ link' = [link EXCEPT ![n] = [i \in Issues |-> "none"]]
    /\ deleting' = [deleting EXCEPT ![n].at = "gone"]
    /\ Disturb({RepoOf[i] : i \in Links(n)})
    /\ slipped' = slipped \cup ({RepoOf[i] : i \in Links(n)} \ deleting[n].repos)
    /\ UNCHANGED <<upstream, watched, mirror, etag, backoff, todo, paged>>

\* ... and forgets the ETags of the repositories it read.
DeleteForget(n) ==
    /\ deleting[n].at = "gone"
    /\ etag' = forget_etag(etag, deleting[n].repos)
    /\ deleting' = [deleting EXCEPT ![n] = NotDeleting]
    /\ Disturb(deleting[n].repos)
    /\ UNCHANGED <<upstream, watched, link, mirror, note, hand, backoff, todo, paged, slipped>>

-----------------------------------------------------------------------------
(* The scheduler thread.                                                   *)

\* sync, and sync_inbox_github with no repositories: the rows of repositories that are no
\* longer watched are archived and their ETags forgotten.  A locked database may prevent that.
archive_unwatched ==
    /\ mirror' = [i \in Issues |-> IF RepoOf[i] \in watched THEN mirror[i] ELSE archived(mirror[i])]
    /\ etag' = forget_etag(etag, Repos \ watched)

SyncStart ==
    /\ todo = {} /\ scan = NoScan
    /\ todo' = watched
    /\ archive_unwatched \/ UNCHANGED <<mirror, etag>>
    /\ UNCHANGED <<upstream, watched, link, deleting, note, hand, scan, backoff, histvars>>

\* _sync_repo leaves a repository alone while its backoff lasts.
ScanBackoff(r) ==
    /\ r \in todo /\ scan = NoScan /\ backoff[r]
    /\ todo' = todo \ {r}
    /\ UNCHANGED <<upstream, localvars, scan, backoff, histvars>>

\* It reads the stored ETag outside any transaction.
ScanBegin(r) ==
    /\ r \in todo /\ scan = NoScan
    /\ scan' = [repo |-> r, page |-> 1, etag |-> etag[r], new_etag |-> NULL, issues |-> {}, quiet |-> TRUE]
    /\ UNCHANGED <<upstream, localvars, todo, backoff, histvars>>

EndScan == scan' = NoScan /\ todo' = todo \ {scan.repo}

\* Page 1 answers 304: nothing is stored but the end of a backoff.
ScanUnchanged ==
    /\ scan.page = 1
    /\ scan.etag = page_of(Open(scan.repo), 1)
    /\ backoff' = [backoff EXCEPT ![scan.repo] = FALSE]
    /\ agreed' = [agreed EXCEPT ![scan.repo] = @ \/ (scan.quiet /\ ~paged[scan.repo])]
    /\ EndScan
    /\ UNCHANGED <<upstream, localvars, paged, slipped>>

\* One page is fetched; a page that is not full is the last one.
ScanPage ==
    /\ scan.page \in 1..MAX_PAGES
    /\ LET body == page_of(Open(scan.repo), scan.page) IN
          /\ scan.page > 1 \/ scan.etag # body
          /\ scan.page < MAX_PAGES \/ Cardinality(body) < PER_PAGE
          /\ scan' = [scan EXCEPT
                !.issues = @ \cup body,
                !.new_etag = IF scan.page = 1 THEN body ELSE @,
                !.page = IF Cardinality(body) < PER_PAGE THEN DONE ELSE @ + 1]
    /\ UNCHANGED <<upstream, localvars, todo, backoff, histvars>>

\* MAX_PAGES full pages: the listing is partial and nothing of it is stored.
ScanTruncated ==
    /\ scan.page = MAX_PAGES
    /\ LET body == page_of(Open(scan.repo), scan.page) IN
          /\ scan.page > 1 \/ scan.etag # body
          /\ Cardinality(body) = PER_PAGE
    /\ EndScan
    /\ UNCHANGED <<upstream, localvars, backoff, histvars>>

\* A page fails, with or without a backoff, or the transaction of the scan does.
ScanFails ==
    /\ scan # NoScan
    /\ \/ scan.page # DONE /\ \E b \in BOOLEAN : backoff' = [backoff EXCEPT ![scan.repo] = b]
       \/ UNCHANGED backoff
    /\ EndScan
    /\ UNCHANGED <<upstream, localvars, histvars>>

\* Every link of a listed issue is open.
refresh_issue(r, open) ==
    [n \in Notes |-> [i \in Issues |->
        IF link[n][i] # "none" /\ RepoOf[i] = r /\ i \in open THEN "open" ELSE link[n][i]]]

\* Every link of the repository to an issue that is not listed is closed.
mark_issues_closed(links, r, open) ==
    [n \in Notes |-> [i \in Issues |->
        IF links[n][i] # "none" /\ RepoOf[i] = r /\ i \notin open THEN "closed" ELSE links[n][i]]]

links_after(r, open) == mark_issues_closed(refresh_issue(r, open), r, open)

\* Mutant: every listed issue is mirrored, linked or not.
listed_twice(i) == [state |-> "open", archived |-> FALSE]

\* The loop over the listing: a linked issue's row is archived, the others are upserted
\* (live again) and reopened.
listed(i) == IF linked_issue(i) THEN archived(mirror[i]) ELSE [state |-> "open", archived |-> FALSE]

\* unarchive_unlinked_github.
unarchived(i, row) == IF row # NoItem /\ ~linked_issue(i) THEN [row EXCEPT !.archived = FALSE] ELSE row

\* close_missing_mirror_items; seen_keys are the listed issues no note links.
closed_missing(row) == IF Live(row) THEN [row EXCEPT !.state = "closed"] ELSE row

mirror_after(r, open) ==
    [i \in Issues |->
        IF RepoOf[i] # r THEN mirror[i]
        ELSE LET row == unarchived(i, IF i \in open THEN listed(i) ELSE mirror[i])
             IN  IF i \in open /\ ~linked_issue(i) THEN row ELSE closed_missing(row)]

\* Mutant: one closed issue closes the note.
transitions_any_issue(after) ==
    [n \in Notes |->
        IF \E i \in Issues : link[n][i] = "open" /\ after[n][i] = "closed"
        THEN IF note[n].state = "open" THEN closed_by_rule(note[n], "issues") ELSE note[n]
        ELSE IF (\E i \in Issues : link[n][i] = "closed" /\ after[n][i] = "open") /\ note[n].closed_by = "issues"
             THEN reopened_by_rule(note[n]) ELSE note[n]]

\* apply_issue_transitions, edge-triggered: before is link, after what the scan made of it.
apply_issue_transitions(after) ==
    [n \in Notes |->
        LET went(from, to) == \E i \in Issues : link[n][i] = from /\ after[n][i] = to
            reopened == IF went("closed", "open") /\ note[n].state = "closed" /\ note[n].closed_by = "issues"
                        THEN reopened_by_rule(note[n]) ELSE note[n]
        IN  IF went("open", "closed") /\ reopened.state = "open" /\ \A i \in Issues : after[n][i] # "open"
            THEN closed_by_rule(reopened, "issues") ELSE reopened]

\* The listing is complete: all of it lands in one transaction.
ScanCommit ==
    /\ scan.page = DONE
    /\ LET r == scan.repo IN
          /\ link' = links_after(r, scan.issues)
          /\ mirror' = mirror_after(r, scan.issues)
          /\ note' = apply_issue_transitions(link')
          /\ etag' = [etag EXCEPT ![r] = scan.new_etag]
          /\ backoff' = [backoff EXCEPT ![r] = FALSE]
          /\ agreed' = [agreed EXCEPT ![r] = scan.quiet]
          /\ slipped' = slipped \ {r}
          /\ paged' = [paged EXCEPT ![r] = IF scan.quiet THEN Cardinality(Open(r)) > PER_PAGE ELSE @]
    /\ EndScan
    /\ UNCHANGED <<upstream, watched, deleting, hand>>

\* The process starts, perhaps with another configuration.  startup_repairs archives live
\* rows of linked issues and forgets every ETag; requests and the sync in flight are lost.
Boot ==
    /\ watched' \in Configs
    /\ mirror' = [i \in Issues |-> IF linked_issue(i) THEN archived(mirror[i]) ELSE mirror[i]]
    /\ etag' = forget_etag(etag, Repos)
    /\ todo' = {} /\ scan' = NoScan
    /\ deleting' = [n \in Notes |-> NotDeleting]
    /\ agreed' = [r \in Repos |-> FALSE]
    /\ slipped' = {}
    /\ UNCHANGED <<upstream, link, note, hand, backoff, paged>>

Next ==
    \/ \E i \in Issues : Upstream(i)
    \/ \E n \in Notes : \/ Create(n) \/ PatchReviewed(n) \/ PatchState(n)
                        \/ DeleteRead(n) \/ DeleteRow(n) \/ DeleteForget(n)
    \/ \E n \in Notes, i \in Issues : link_issue(n, i)
    \/ SyncStart
    \/ \E r \in Repos : ScanBackoff(r) \/ ScanBegin(r)
    \/ ScanUnchanged \/ ScanPage \/ ScanTruncated \/ ScanFails \/ ScanCommit
    \/ Boot

Spec == Init /\ [][Next]_vars

-----------------------------------------------------------------------------
\* An issue has one card on the board: the notes that link it stand for it, so its own
\* mirrored row is never live next to them (G-19), whatever races with the scan.
OneCard == \A i \in Issues : linked_issue(i) => ~Live(mirror[i])

\* A note that nobody closed or reopened by hand since it was last linked is open exactly as
\* long as one of its links, in any repository, is: no edge of an issue is lost by an outage,
\* a torn listing or a restart, and none is applied twice (the issues rule).
NoteFollowsIssues ==
    \A n \in Notes :
        Exists(n) /\ hand[n] = "none" /\ Links(n) # {} =>
            (note[n].state = "open" <=> \E i \in Issues : link[n][i] = "open")

\* What Graham decided by hand stands: a note he closed stays closed, a note he reopened
\* stays open as long as nothing it depends on changes upstream, however many scans and
\* restarts pass.
HandDecisionsStick ==
    \A n \in Notes :
        /\ hand[n] = "closed" => note[n].state = "closed"
        /\ hand[n] = "calm" => note[n].state = "open"

\* The board shows what GitHub says about the repository.
Agrees(r) ==
    \A i \in IssuesOf(r) :
        /\ \A n \in Notes : link[n][i] # "none" => (link[n][i] = "open" <=> i \in upstream)
        /\ i \in upstream /\ ~linked_issue(i) => mirror[i] = [state |-> "open", archived |-> FALSE]
        /\ i \notin upstream => ~Live(mirror[i]) \/ mirror[i].state = "closed"

\* A scan vouches for the repository and no request is between its DELETE and its forgetting.
Settled(r) == agreed[r] /\ \A n \in Notes : deleting[n].at # "gone"

\* One undisturbed scan is enough: when a scan of a watched repository ended, with a listing
\* or with a 304, and neither GitHub nor the Inbox changed since it began, the board agrees
\* with GitHub, whatever happened before.  For a 304 the repository must fit one page (G-25).
\* A delete that drops a link made after it read the note's repositories forgets no ETag of
\* that repository; until the next listing it is excepted (slipped).
ScanSettlesBoard == \A r \in Repos \ slipped : Settled(r) => Agrees(r)
=============================================================================
