------------------------------- MODULE Drafts -------------------------------
(***************************************************************************)
(* Drafts of voice notes: the draft columns of the rows, Graham's PATCHes  *)
(* and new transcripts that change them, and the Mac's drafting run with   *)
(* its held failures, its circuit breaker and its rule for timeouts.       *)
(*                                                                         *)
(* A request reads the row and later writes it with an UPDATE; what guards *)
(* the write is in its WHERE clause.  One PATCH and one transcript can be  *)
(* between the two at a time, and the worker's POST as well.               *)
(***************************************************************************)
EXTENDS Naturals, Sequences, FiniteSets, SequencesExt

CONSTANTS
    Order,                  \* the notes, oldest first
    NULL,
    Answers,                \* Answers[n]: what claude may make of note n
    DRAFT_MAX_ATTEMPTS,
    LIMIT,                  \* INBOX_DRAFT_LIMIT
    BREAKER_FAILURES,
    BREAKER_MAX_TRIPS,
    HTTP_RETRIES,           \* how often api_request repeats a POST
    MAX_BODIES,             \* bound: MAX_BODIES[n] bodies of note n
    MAX_PATCHES,            \* bound: PATCHes of Graham
    MAX_FAULTS              \* bound: outages, lost answers and deaths of the worker

Notes == Range(Order)

ASSUME DraftAssumption ==
    /\ Order \in Seq(Notes) /\ NULL \notin Notes
    /\ Answers \in [Notes -> SUBSET {"good", "bad", "slow"}]
    /\ {DRAFT_MAX_ATTEMPTS, LIMIT, BREAKER_FAILURES, BREAKER_MAX_TRIPS} \subseteq Nat \ {0}
    /\ {HTTP_RETRIES, MAX_PATCHES, MAX_FAULTS} \subseteq Nat
    /\ MAX_BODIES \in [Notes -> Nat]

VARIABLES
    row,        \* row[n]: the columns of note n
    patch,      \* the PATCH that was let in and has not written yet, or NULL
    text,       \* the transcript POST that has read and not written yet, or NULL
    worker,     \* run_drafting
    saved,      \* the worker's state file
    patches,    \* counter for MAX_PATCHES
    faults      \* counter for MAX_FAULTS

vars == <<row, patch, text, worker, saved, patches, faults>>

\* Titles of notes and drafts: derived from the body, drafted from the body of that number, or
\* written by hand.
Derived == <<"derived">>
ByHand == <<"hand">>
From(body) == <<"draft", body>>
Title == {Derived, ByHand} \cup ({"draft"} \X (Nat \ {0}))

\* body 0 is the empty body of a note without a transcript; draft stands for draft_title and the
\* columns that go with it.
Row == [body : Nat,
        title : Title, title_source : {"derived", "manual"},
        reviewed : BOOLEAN, draft_edited_at : BOOLEAN,
        draft : Title \cup {NULL}, draft_src_sha : Nat,
        draft_status : {"pending", "ready", "failed", NULL},
        draft_attempts : Nat]

\* A queue entry: the note and the sha of the body it was read with, which is not empty.
Item == [note : Notes, sha : Nat \ {0}]

Kinds == {"tick", "untick", "edit", "body"}

\* trips counts the runs in a row that the breaker ended.
Worker == [pc : {"idle", "draft", "store", "end"},
           todo : Seq(Item), held : Seq(Item), due : Seq(Item), final : BOOLEAN,
           successes : BOOLEAN, trips : 0..BREAKER_MAX_TRIPS - 1,
           checked : BOOLEAN, tries : 0..HTTP_RETRIES]

NewRun(todo) ==
    [pc |-> "draft", todo |-> todo, held |-> <<>>, due |-> <<>>, final |-> FALSE,
     successes |-> FALSE, trips |-> saved.breaker_trips, checked |-> FALSE, tries |-> 0]

Idle == [pc |-> "idle", todo |-> <<>>, held |-> <<>>, due |-> <<>>, final |-> FALSE,
         successes |-> FALSE, trips |-> 0, checked |-> FALSE, tries |-> 0]

\* Rows, requests and the worker have their types, no draft is of an empty body, the batch
\* stays within its limit, and the breaker's count below BREAKER_MAX_TRIPS.
TypeOK ==
    /\ row \in [Notes -> Row]
    /\ patch \in {NULL} \cup [note : Notes, kind : Kinds, seen : Row \cup {NULL}]
    /\ text \in {NULL} \cup [note : Notes, seen : Row]
    /\ worker \in Worker
    /\ \A q \in {worker.todo, worker.held, worker.due} : Len(q) <= LIMIT
    /\ saved \in [timed_out : Notes \cup {NULL}, breaker_trips : 0..BREAKER_MAX_TRIPS - 1]
    /\ patches \in 0..MAX_PATCHES /\ faults \in 0..MAX_FAULTS

Init ==
    /\ row = [n \in Notes |-> [body |-> 0, title |-> Derived, title_source |-> "derived",
                               reviewed |-> FALSE, draft_edited_at |-> FALSE, draft |-> NULL,
                               draft_src_sha |-> 0, draft_status |-> NULL, draft_attempts |-> 0]]
    /\ patch = NULL /\ text = NULL
    /\ worker = Idle
    /\ saved = [timed_out |-> NULL, breaker_trips |-> 0]
    /\ patches = 0 /\ faults = 0

-----------------------------------------------------------------------------
(* Graham's PATCH: patch_item and update_item.                             *)

\* draft_to_review.
draft_to_review(r) == r.draft # NULL /\ (r.draft_status = "ready" \/ r.draft_edited_at)

\* New bodies that are on their way to note n.
InFlight(n) == Cardinality({q \in {patch, text} \ {NULL} : q.note = n})

\* patch_item: the row is read and the route's refusals are answered.
PatchRead(n, kind) ==
    /\ patch = NULL /\ patches < MAX_PATCHES
    /\ kind = "tick" => row[n].reviewed \/ draft_to_review(row[n])
    /\ kind = "body" => row[n].body + InFlight(n) < MAX_BODIES[n]
    /\ patch' = [note |-> n, kind |-> kind, seen |-> NULL]
    /\ patches' = patches + 1
    /\ UNCHANGED <<row, text, worker, saved, faults>>

\* update_item reads it again: its decisions rest on this second reading.
UpdateRead ==
    /\ patch # NULL
    /\ patch.seen = NULL
    /\ patch' = [patch EXCEPT !.seen = row[patch.note]]
    /\ UNCHANGED <<row, text, worker, saved, patches, faults>>

\* Does the change make the machine's draft due again?
redraft(seen) == ~seen.reviewed /\ ~seen.draft_edited_at

\* Mutant: the copy is not conditional on the draft that was read.
update_where_unread(kind, seen, r) ==
    CASE kind = "tick" /\ ~seen.reviewed -> ~r.reviewed
      [] kind = "edit" /\ seen.reviewed -> r.reviewed
      [] kind = "body" /\ redraft(seen) -> redraft(r)
      [] OTHER -> TRUE

\* The WHERE clause of update_item.
update_where(kind, seen, r) ==
    CASE kind = "tick" /\ ~seen.reviewed -> ~r.reviewed /\ r.draft = seen.draft
      [] kind = "edit" /\ seen.reviewed -> r.reviewed
      [] kind = "body" /\ redraft(seen) -> redraft(r)
      [] OTHER -> TRUE

\* Its SET clause.
updated(kind, seen, r) ==
    CASE kind = "tick" ->
            LET copy == ~seen.reviewed /\ seen.draft # NULL /\ seen.title_source # "manual"
            IN  [r EXCEPT !.reviewed = TRUE,
                          !.title = IF copy THEN seen.draft ELSE @,
                          !.title_source = IF copy THEN "manual" ELSE @]
      [] kind = "untick" -> [r EXCEPT !.reviewed = FALSE]
      [] kind = "edit" ->
            [r EXCEPT !.draft_edited_at = TRUE, !.draft_status = "ready", !.draft = ByHand,
                      !.title = IF seen.reviewed THEN ByHand ELSE @,
                      !.title_source = IF seen.reviewed THEN "manual" ELSE @]
      [] kind = "body" ->
            [r EXCEPT !.body = @ + 1,
                      !.draft_status = IF redraft(seen) THEN "pending" ELSE @,
                      !.draft_attempts = IF redraft(seen) THEN 0 ELSE @]

\* The UPDATE, or a Conflict that writes nothing.
PatchWrite ==
    /\ patch # NULL
    /\ patch.seen # NULL
    /\ LET n == patch.note
       IN  IF update_where(patch.kind, patch.seen, row[n])
           THEN row' = [row EXCEPT ![n] = updated(patch.kind, patch.seen, row[n])]
           ELSE UNCHANGED row
    /\ patch' = NULL
    /\ UNCHANGED <<text, worker, saved, patches, faults>>

-----------------------------------------------------------------------------
(* A transcript arrives: set_transcript.                                   *)

TranscriptRead(n) ==
    /\ text = NULL /\ row[n].body + InFlight(n) < MAX_BODIES[n]
    /\ text' = [note |-> n, seen |-> row[n]]
    /\ UNCHANGED <<row, patch, worker, saved, patches, faults>>

\* Its SET clause.
Transcribed(seen, r) ==
    [r EXCEPT !.body = @ + 1,
              !.draft_status = IF redraft(seen) THEN "pending" ELSE @,
              !.draft_attempts = IF redraft(seen) THEN 0 ELSE @,
              !.title = IF seen.title_source # "manual" THEN Derived ELSE @]

\* The UPDATE has no WHERE beyond the id.
TranscriptWrite ==
    /\ text # NULL
    /\ row' = [row EXCEPT ![text.note] = Transcribed(text.seen, @)]
    /\ text' = NULL
    /\ UNCHANGED <<patch, worker, saved, patches, faults>>

-----------------------------------------------------------------------------
(* The server's side of the worker's POSTs.                                *)

Queued(r) ==
    /\ ~r.reviewed /\ ~r.draft_edited_at /\ r.body # 0
    /\ r.draft_attempts < DRAFT_MAX_ATTEMPTS
    /\ ~(r.draft_status = "ready" /\ r.draft_src_sha = r.body)

\* inbox_db.draft_queue: oldest first, LIMIT of them.
draft_queue ==
    LET waiting == {i \in DOMAIN Order : Queued(row[Order[i]])}
        count == Cardinality(waiting)
        Nth(k) == Order[CHOOSE i \in waiting : Cardinality({j \in waiting : j < i}) = k - 1]
    IN  [k \in 1..(IF count < LIMIT THEN count ELSE LIMIT) |->
            [note |-> Nth(k), sha |-> row[Nth(k)].body]]

\* What post_draft, set_draft and note_draft_attempt refuse with a 409.
Refused(item) ==
    LET r == row[item.note] IN r.reviewed \/ r.draft_edited_at \/ item.sha # r.body

\* The row with the draft stored.  A manual title wins over the drafted one.
Drafted(r, sha) ==
    [r EXCEPT !.draft = IF r.title_source = "manual" THEN r.title ELSE From(sha),
              !.draft_status = "ready", !.draft_src_sha = sha]

\* Mutant: set_draft writes without the conditions it has checked.
set_draft_blind(item) == row' = [row EXCEPT ![item.note] = Drafted(@, item.sha)]

\* set_draft's conditional UPDATE.
set_draft(item) ==
    IF Refused(item) THEN UNCHANGED row ELSE row' = [row EXCEPT ![item.note] = Drafted(@, item.sha)]

\* The row with its attempts counted.
Counted(r, final) ==
    LET one == r.draft_attempts + 1
        attempts == IF final /\ one < DRAFT_MAX_ATTEMPTS THEN DRAFT_MAX_ATTEMPTS ELSE one
    IN  [r EXCEPT !.draft_attempts = attempts,
                  !.draft_status = IF attempts >= DRAFT_MAX_ATTEMPTS THEN "failed" ELSE "pending"]

\* note_draft_attempt's conditional UPDATE, which does not look at the body again.  It is also
\* conditional on the count it read; a report that fails on that changes as little as one that
\* is refused.
note_draft_attempt(item, final) ==
    LET r == row[item.note]
    IN  IF r.reviewed \/ r.draft_edited_at THEN UNCHANGED row
        ELSE row' = [row EXCEPT ![item.note] = Counted(@, final)]

-----------------------------------------------------------------------------
(* The worker: run_drafting.                                               *)

\* A run with nothing in the queue ends at once, and clears the state file.
RunBegins ==
    /\ worker.pc = "idle"
    /\ worker' = NewRun(draft_queue)
    /\ UNCHANGED <<row, patch, text, saved, patches, faults>>

\* Mutant: the note that timed out is not written down.
EndRunForgets(timed_out, trips) ==
    /\ saved' = [timed_out |-> NULL, breaker_trips |-> trips]
    /\ worker' = Idle

\* The run ends and writes its state file.
EndRun(timed_out, trips) ==
    /\ saved' = [timed_out |-> timed_out, breaker_trips |-> trips]
    /\ worker' = Idle

Drafting == worker.pc = "draft" /\ worker.due = <<>> /\ worker.todo # <<>>

\* claude's answer is usable: the draft is posted.
DraftGood ==
    /\ Drafting /\ "good" \in Answers[Head(worker.todo).note]
    /\ worker' = [worker EXCEPT !.pc = "store"]
    /\ UNCHANGED <<row, patch, text, saved, patches, faults>>

\* A bad result is reported at once after a success, and held before one.
HoldBad ==
    LET item == Head(worker.todo)
    IN  worker' = IF worker.successes
                  THEN [worker EXCEPT !.todo = Tail(@), !.due = <<item>>]
                  ELSE [worker EXCEPT !.todo = Tail(@), !.held = Append(@, item)]

DraftBad ==
    /\ Drafting /\ "bad" \in Answers[Head(worker.todo).note]
    /\ HoldBad
    /\ UNCHANGED <<row, patch, text, saved, patches, faults>>

\* A second timeout of the same note in consecutive runs is a bad result; a first one ends the
\* run and counts nothing.
DraftTimeout ==
    /\ Drafting /\ "slow" \in Answers[Head(worker.todo).note]
    /\ IF saved.timed_out = Head(worker.todo).note
       THEN HoldBad /\ UNCHANGED saved
       ELSE EndRun(Head(worker.todo).note, worker.trips)
    /\ UNCHANGED <<row, patch, text, patches, faults>>

\* A SystemicFailure (no binary, no login, a usage limit) or an error of the API ends the run.
SystemicFailure ==
    /\ worker.pc # "idle" /\ faults < MAX_FAULTS
    /\ EndRun(NULL, worker.trips)
    /\ faults' = faults + 1
    /\ UNCHANGED <<row, patch, text, patches>>

\* The Mac stops: the state file keeps what the last run wrote.
WorkerDies ==
    /\ worker.pc # "idle" /\ faults < MAX_FAULTS
    /\ worker' = Idle
    /\ faults' = faults + 1
    /\ UNCHANGED <<row, patch, text, saved, patches>>

\* The POST that is under way: a draft, or the first report that is due.
Posting == worker.pc = "store" \/ worker.due # <<>>
Posted == IF worker.due # <<>> THEN Head(worker.due) ELSE Head(worker.todo)

\* The worker after an answer to a report, and after the refusal or the failure of a draft.
AfterPost ==
    IF worker.due # <<>>
    THEN [worker EXCEPT !.due = Tail(@), !.checked = FALSE, !.tries = 0]
    ELSE [worker EXCEPT !.pc = "draft", !.todo = Tail(@), !.checked = FALSE, !.tries = 0]

\* A stored draft proves that drafting works: what is held is reported.
AfterStore ==
    [worker EXCEPT !.pc = "draft", !.todo = Tail(@), !.checked = FALSE, !.tries = 0,
                   !.successes = TRUE, !.held = <<>>, !.due = worker.held]

\* post_draft reads the row and refuses, or goes on.
PostCheck ==
    /\ Posting /\ ~worker.checked
    /\ worker' = IF Refused(Posted) THEN AfterPost ELSE [worker EXCEPT !.checked = TRUE]
    /\ UNCHANGED <<row, patch, text, saved, patches, faults>>

\* The answer is lost: api_request repeats the POST, or the worker takes it for failed.
Lost ==
    /\ faults < MAX_FAULTS /\ faults' = faults + 1
    /\ worker' = IF worker.tries < HTTP_RETRIES
                 THEN [worker EXCEPT !.checked = FALSE, !.tries = @ + 1] ELSE AfterPost

StoreDraft ==
    /\ worker.pc = "store" /\ worker.due = <<>> /\ worker.checked
    /\ set_draft(Posted)
    /\ \/ worker' = (IF Refused(Posted) THEN AfterPost ELSE AfterStore) /\ UNCHANGED faults
       \/ Lost
    /\ UNCHANGED <<patch, text, saved, patches>>

CountAttempt ==
    /\ worker.due # <<>> /\ worker.checked
    /\ note_draft_attempt(Posted, worker.final)
    /\ \/ worker' = AfterPost /\ UNCHANGED faults
       \/ Lost
    /\ UNCHANGED <<patch, text, saved, patches>>

\* Mutant: one trip more.
GivesUpLate(trips) == trips > BREAKER_MAX_TRIPS

\* Is this the trip that gives the held notes up?
GivesUp(trips) == trips >= BREAKER_MAX_TRIPS

\* The batch is done: the breaker trips, gives up, or what is held is counted.
BatchDone ==
    /\ worker.pc = "draft" /\ worker.due = <<>> /\ worker.todo = <<>>
    /\ LET trips == worker.trips + 1
       IN  IF ~worker.successes /\ Len(worker.held) >= BREAKER_FAILURES
           THEN IF GivesUp(trips)
                THEN /\ worker' = [worker EXCEPT !.pc = "end", !.trips = 0, !.final = TRUE,
                                                 !.due = worker.held, !.held = <<>>]
                     /\ UNCHANGED saved
                ELSE EndRun(NULL, trips)
           ELSE /\ worker' = [worker EXCEPT !.pc = "end", !.trips = 0,
                                            !.due = worker.held, !.held = <<>>]
                /\ UNCHANGED saved
    /\ UNCHANGED <<row, patch, text, patches, faults>>

RunEnds ==
    /\ worker.pc = "end" /\ worker.due = <<>>
    /\ EndRun(NULL, worker.trips)
    /\ UNCHANGED <<row, patch, text, patches, faults>>

-----------------------------------------------------------------------------
Graham == UpdateRead \/ PatchWrite \/ \E n \in Notes, kind \in Kinds : PatchRead(n, kind)
Transcripts == TranscriptWrite \/ \E n \in Notes : TranscriptRead(n)
Run == \/ RunBegins \/ DraftGood \/ DraftBad \/ DraftTimeout \/ PostCheck
       \/ StoreDraft \/ CountAttempt \/ BatchDone \/ RunEnds

Next == Graham \/ Transcripts \/ Run \/ SystemicFailure \/ WorkerDies

(* Fairness.  launchd starts the worker again and again and a run goes on; *)
(* a request that has read the row writes it.                              *)
Fairness == WF_vars(Run) /\ WF_vars(UpdateRead \/ PatchWrite) /\ WF_vars(TranscriptWrite)

Spec == Init /\ [][Next]_vars /\ Fairness

-----------------------------------------------------------------------------
(* What is promised.                                                       *)

\* A draft that Graham wrote or has reviewed is his: whatever the worker posts, however late
\* and however often, changes it no more (set_draft's conditions).
HandsOff ==
    [][\A n \in Notes : (row[n].reviewed \/ row[n].draft_edited_at) /\ patch' = patch
                        => row'[n].draft = row[n].draft]_vars

\* Ticking Reviewed copies the draft that is in the row at that moment, never one that a machine
\* has replaced meanwhile (update_item: "a machine draft landing in between must not be copied
\* unseen").
TickCopiesTheDraft ==
    [][\A n \in Notes : ~row[n].reviewed /\ row'[n].reviewed /\ row'[n].title # row[n].title
                        => row'[n].title = row'[n].draft]_vars

\* Every queued note is drafted or given up in the end: neither notes claude cannot draft, nor
\* one it is too slow for, nor a breaker that trips, starve the queue.
QueueDrains == \A n \in Notes : Queued(row[n]) ~> ~Queued(row[n])
=============================================================================
