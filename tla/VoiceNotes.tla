------------------------------ MODULE VoiceNotes ------------------------------
(***************************************************************************)
(* Voice notes: the row of a note, its audio file, the upload that makes   *)
(* both, the Mac's transcription worker, Graham's ticks and deletes, and   *)
(* the scheduler's prune, which deletes recordings and reconciles files    *)
(* with rows.  Nothing spans the row and the file, and inbox.db is used in *)
(* autocommit, so every statement and every unlink is a step of its own.   *)
(*                                                                         *)
(* Time is kept as ages that stop counting at the last one that matters.   *)
(***************************************************************************)
EXTENDS Naturals, FiniteSets

CONSTANTS
    Notes,                      \* server-made ids, each used once
    NULL,
    TRANSCRIBE_MAX_ATTEMPTS,
    RETENTION,                  \* INBOX_AUDIO_RETENTION_DAYS
    AUDIO_CEILING_MULTIPLE,
    PART_MAX_AGE,
    HTTP_RETRIES,               \* how often api_request repeats a request
    MAX_POSTS,                  \* bound: POSTs under way at a time
    Faults                      \* faults the instance includes, see AllFaults

AllFaults == {"dies", "unlink", "statement", "lost", "environment"}

ASSUME VoiceAssumption ==
    /\ TRANSCRIBE_MAX_ATTEMPTS \in Nat \ {0} /\ RETENTION \in Nat /\ PART_MAX_AGE \in Nat
    /\ AUDIO_CEILING_MULTIPLE \in Nat \ {0} /\ HTTP_RETRIES \in Nat /\ MAX_POSTS \in Nat
    /\ NULL \notin Notes /\ Faults \subseteq AllFaults

VARIABLES
    row,        \* row[n]: the row of the note, or NULL
    file,       \* file[n]: "none", "part" (half written) or "there"
    age,        \* age[n]: age of the note and its file
    upload,     \* upload[n]: where the request that makes the note stands
    deleting,   \* notes whose row a request has deleted and whose file it is about to
    worker,     \* the transcription worker on the Mac
    reqs,       \* its POSTs that are on their way or being handled
    prune,      \* prune_audio in the scheduler thread
    late,       \* files that were written after the running prune read its clock
    heard,      \* history: notes a transcript was stored for
    ticked,     \* history: notes that were Reviewed at some time
    slipped,    \* history: recordings lost in the two gaps of an upload, around its row
    clobbered   \* history: a failure report wrote an old status over a prune's

storevars == <<row, file, age, upload, deleting>>
workvars == <<worker, reqs>>
prunevars == <<prune, late>>
histvars == <<heard, ticked, slipped, clobbered>>
vars == <<storevars, workvars, prunevars, histvars>>

CEILING == AUDIO_CEILING_MULTIPLE * RETENTION
AGE_CAP == CEILING + PART_MAX_AGE + 1

\* audio: "held" is audio_path; "pruned" and "missing" are audio_pruned_at and
\* audio_missing_at, which are only stamped when audio_path becomes NULL.
Row == [audio : {"held", "pruned", "missing"},
        transcript_status : {"pending", "whisper", "failed"},
        transcribe_attempts : Nat,
        reviewed : BOOLEAN]

Exists(n) == row[n] # NULL

\* Where an upload stands once its row was committed: not yet answered, or answered.
Landed == {"inserted", "done"}

Idle == [pc |-> "idle", item |-> NULL, todo |-> {}, tries |-> 0]
NoPrune == [pc |-> "idle", item |-> NULL, todo |-> {}, old |-> {}, known |-> {}]

\* A POST of the worker: a transcript or a failure report, the how-manieth try of it, and for
\* a report that is being handled what it read of the row.
Seen == [attempts : Nat, status : {"pending", "whisper", "failed"}]
Request == [note : Notes, kind : {"text", "failed"}, try : 0..HTTP_RETRIES, seen : Seen \cup {NULL}]

\* Rows, files, requests and the prune have their types, attempts and all: no write leaves a
\* column empty that the queue and the page read.
TypeOK ==
    /\ row \in [Notes -> Row \cup {NULL}]
    /\ file \in [Notes -> {"none", "part", "there"}]
    /\ age \in [Notes -> 0..AGE_CAP]
    /\ upload \in [Notes -> {"none", "part", "saved", "inserted", "done", "died"}]
    /\ deleting \subseteq Notes
    /\ worker \in [pc : {"idle", "run", "text", "failed"}, item : Notes \cup {NULL},
                   todo : SUBSET Notes, tries : 0..HTTP_RETRIES]
    /\ reqs \subseteq Request
    /\ prune \in [pc : {"idle", "delete", "mark", "dangling", "sweep"}, item : Notes \cup {NULL},
                  todo : SUBSET Notes, old : SUBSET Notes, known : SUBSET Notes]
    /\ late \subseteq Notes /\ heard \subseteq Notes /\ ticked \subseteq Notes
    /\ slipped \subseteq Notes /\ clobbered \subseteq Notes

Init ==
    /\ row = [n \in Notes |-> NULL]
    /\ file = [n \in Notes |-> "none"]
    /\ age = [n \in Notes |-> 0]
    /\ upload = [n \in Notes |-> "none"]
    /\ deleting = {}
    /\ worker = Idle /\ reqs = {}
    /\ prune = NoPrune /\ late = {}
    /\ heard = {} /\ ticked = {} /\ slipped = {} /\ clobbered = {}

-----------------------------------------------------------------------------
(* The upload: POST /api/v1/inbox/items with audio.                        *)

\* save writes the temporary file, and that sets the mtime for good; a rejected upload touches
\* nothing and is no step.
SaveBegin(n) ==
    /\ upload[n] = "none"
    /\ upload' = [upload EXCEPT ![n] = "part"]
    /\ file' = [file EXCEPT ![n] = "part"]
    /\ late' = IF prune.pc = "idle" THEN late ELSE late \cup {n}
    /\ UNCHANGED <<row, age, deleting, workvars, prune, histvars>>

\* os.replace gives the file its name.
SaveReplace(n) ==
    /\ upload[n] = "part" /\ file[n] = "part"
    /\ upload' = [upload EXCEPT ![n] = "saved"]
    /\ file' = [file EXCEPT ![n] = "there"]
    /\ UNCHANGED <<row, age, deleting, workvars, prunevars, histvars>>

\* inbox_db.create_item: autocommit, so the row is there for everyone.
InsertRow(n) ==
    /\ upload[n] = "saved"
    /\ upload' = [upload EXCEPT ![n] = "inserted"]
    /\ row' = [row EXCEPT ![n] = [audio |-> "held", transcript_status |-> "pending",
                                  transcribe_attempts |-> 0, reviewed |-> FALSE]]
    /\ UNCHANGED <<file, age, deleting, workvars, prunevars, histvars>>

\* The INSERT fails: the route removes the file again (or cannot) and raises.
InsertFails(n) ==
    /\ upload[n] = "saved" /\ "statement" \in Faults
    /\ upload' = [upload EXCEPT ![n] = "died"]
    /\ \/ file' = [file EXCEPT ![n] = "none"]
       \/ "unlink" \in Faults /\ UNCHANGED file
    /\ UNCHANGED <<row, age, deleting, workvars, prunevars, histvars>>

\* get_item reads the row back for the answer; dying here changes nothing either.
ReadBack(n) ==
    /\ upload[n] = "inserted"
    /\ upload' = [upload EXCEPT ![n] = "done"]
    /\ UNCHANGED <<row, file, age, deleting, workvars, prunevars, histvars>>

\* That read is inside the same try: when it fails, the handler removes the file (or cannot)
\* of a row that is committed and stays.
ReadBackFails(n) ==
    /\ upload[n] = "inserted" /\ "statement" \in Faults
    /\ upload' = [upload EXCEPT ![n] = "done"]
    /\ \/ /\ file' = [file EXCEPT ![n] = "none"]
          /\ slipped' = slipped \cup {n}
       \/ "unlink" \in Faults /\ UNCHANGED <<file, slipped>>
    /\ UNCHANGED <<row, age, deleting, workvars, prunevars, heard, ticked, clobbered>>

\* The process dies before there is a row.
UploadDies(n) ==
    /\ upload[n] \in {"part", "saved"} /\ "dies" \in Faults
    /\ upload' = [upload EXCEPT ![n] = "died"]
    /\ UNCHANGED <<row, file, age, deleting, workvars, prunevars, histvars>>

-----------------------------------------------------------------------------
(* Graham: the Reviewed tick and Delete.                                   *)

\* patch_item and update_item with "reviewed".  A draft to review can be written in the same
\* request, so the box of any voice note can be ticked.
PatchReviewed(n) ==
    /\ Exists(n)
    /\ row' = [row EXCEPT ![n].reviewed = ~@]
    /\ ticked' = ticked \cup {n}
    /\ UNCHANGED <<file, age, upload, deleting, workvars, prunevars, heard, slipped, clobbered>>

\* delete_item: the row goes first ...
DeleteRow(n) ==
    /\ Exists(n)
    /\ row' = [row EXCEPT ![n] = NULL]
    /\ deleting' = IF row[n].audio = "held" THEN deleting \cup {n} ELSE deleting
    /\ clobbered' = clobbered \ {n}
    /\ UNCHANGED <<file, age, upload, workvars, prunevars, heard, ticked, slipped>>

\* ... then the file, which may stay behind.
DeleteFile(n) ==
    /\ n \in deleting
    /\ deleting' = deleting \ {n}
    /\ \/ file' = [file EXCEPT ![n] = "none"]
       \/ Faults \cap {"dies", "unlink"} # {} /\ UNCHANGED file
    /\ UNCHANGED <<row, age, upload, workvars, prunevars, histvars>>

-----------------------------------------------------------------------------
(* The Mac's worker: a run takes the queue and handles item after item.    *)

\* inbox_db.transcribe_queue.  The order of the list makes no difference here.
transcribe_queue ==
    {n \in Notes : /\ Exists(n)
                   /\ row[n].audio = "held"
                   /\ row[n].transcript_status \in {"pending", "failed"}
                   /\ row[n].transcribe_attempts < TRANSCRIBE_MAX_ATTEMPTS}

RunBegins ==
    /\ worker.pc = "idle" /\ transcribe_queue # {}
    /\ worker' = [Idle EXCEPT !.pc = "run", !.todo = transcribe_queue]
    /\ UNCHANGED <<storevars, reqs, prunevars, histvars>>

RunEnds ==
    /\ worker.pc = "run" /\ worker.todo = {}
    /\ worker' = Idle
    /\ UNCHANGED <<storevars, reqs, prunevars, histvars>>

\* api_request puts a POST on its way.
Post(n, kind, try) ==
    /\ ~ \E r \in reqs : r.note = n /\ r.kind = kind /\ r.try = try
    /\ Cardinality(reqs) < MAX_POSTS
    /\ reqs' = reqs \cup {[note |-> n, kind |-> kind, try |-> try, seen |-> NULL]}
    /\ worker' = [worker EXCEPT !.pc = kind, !.item = n, !.tries = try]

\* The worker is done with its item.
NextItem == [Idle EXCEPT !.pc = "run", !.todo = worker.todo \ {worker.item}]

\* handle_item: whisper produced a text.
TextPost(n) ==
    /\ worker.pc = "run" /\ n \in worker.todo
    /\ Exists(n) /\ row[n].audio = "held" /\ file[n] = "there"
    /\ Post(n, "text", 0)
    /\ UNCHANGED <<storevars, prunevars, histvars>>

\* handle_item: the audio is gone, the download failed, whisper failed on it or heard nothing.
report_failure(n) ==
    /\ worker.pc = "run" /\ n \in worker.todo
    /\ Post(n, "failed", 0)
    /\ UNCHANGED <<storevars, prunevars, histvars>>

\* An EnvironmentFault (no ffmpeg, no mlx) or a 401/403 ends the run and blames no item.
EnvironmentFault ==
    /\ worker.pc = "run" /\ worker.todo # {} /\ "environment" \in Faults
    /\ worker' = Idle
    /\ UNCHANGED <<storevars, reqs, prunevars, histvars>>

\* No answer came in time: api_request repeats the POST; when the repeats are used up, a
\* transcript becomes a failure report and a failure report is given up.
PostTimesOut ==
    /\ worker.pc \in {"text", "failed"} /\ "lost" \in Faults
    /\ \/ /\ worker.tries < HTTP_RETRIES
          /\ Post(worker.item, worker.pc, worker.tries + 1)
       \/ /\ worker.tries = HTTP_RETRIES /\ worker.pc = "text"
          /\ Post(worker.item, "failed", 0)
       \/ /\ worker.tries = HTTP_RETRIES /\ worker.pc = "failed"
          /\ worker' = NextItem
          /\ UNCHANGED reqs
    /\ UNCHANGED <<storevars, prunevars, histvars>>

\* launchd stops the agent, or the Mac goes down.
WorkerDies ==
    /\ worker.pc # "idle" /\ "dies" \in Faults
    /\ worker' = Idle
    /\ UNCHANGED <<storevars, reqs, prunevars, histvars>>

-----------------------------------------------------------------------------
(* The server's side of those POSTs: post_transcript.                      *)

\* The answer arrives, if the worker still waits for it, or is lost.
Answer(r) ==
    \/ /\ worker.pc = r.kind /\ worker.item = r.note /\ worker.tries = r.try
       /\ worker' = NextItem
    \/ /\ "lost" \in Faults \/ worker.pc # r.kind \/ worker.item # r.note \/ worker.tries # r.try
       /\ UNCHANGED worker

\* The request never reaches the server, or the process dies before it wrote.
PostLost(r) ==
    /\ "lost" \in Faults
    /\ reqs' = reqs \ {r}
    /\ UNCHANGED <<storevars, worker, prunevars, histvars>>

\* The note is deleted: 404.  For a transcript the worker then sends a report, which meets the
\* same 404 and is given up.
PostRefused(r) ==
    /\ ~Exists(r.note)
    /\ reqs' = reqs \ {r}
    /\ Answer(r)
    /\ UNCHANGED <<storevars, prunevars, histvars>>

\* set_transcript: unconditional.
set_transcript(r) ==
    /\ r.kind = "text" /\ Exists(r.note)
    /\ row' = [row EXCEPT ![r.note].transcript_status = "whisper"]
    /\ heard' = heard \cup {r.note}
    /\ reqs' = reqs \ {r}
    /\ Answer(r)
    /\ UNCHANGED <<file, age, upload, deleting, prunevars, ticked, slipped, clobbered>>

\* note_transcribe_attempt reads the row ...
AttemptRead(r) ==
    /\ r.kind = "failed" /\ r.seen = NULL /\ Exists(r.note)
    /\ reqs' = (reqs \ {r}) \cup {[r EXCEPT !.seen = [attempts |-> row[r.note].transcribe_attempts,
                                                     status |-> row[r.note].transcript_status]]}
    /\ UNCHANGED <<storevars, worker, prunevars, histvars>>

\* Mutant: the status is only written when the note is given up.
after_attempt_null(seen) ==
    LET attempts == seen.attempts + 1
    IN  [attempts |-> attempts,
         status |-> IF attempts >= TRANSCRIBE_MAX_ATTEMPTS THEN "failed" ELSE NULL]

\* What note_transcribe_attempt writes, from the row it read.
after_attempt(seen) ==
    LET attempts == seen.attempts + 1
    IN  [attempts |-> attempts,
         status |-> IF attempts >= TRANSCRIBE_MAX_ATTEMPTS THEN "failed" ELSE seen.status]

\* ... and writes both columns back.
AttemptWrite(r) ==
    /\ r.kind = "failed" /\ r.seen # NULL /\ Exists(r.note)
    /\ LET new == after_attempt(r.seen)
       IN  /\ row' = [row EXCEPT ![r.note].transcribe_attempts = new.attempts,
                                 ![r.note].transcript_status = new.status]
           /\ clobbered' = IF new.status = "pending" /\ row[r.note].audio # "held"
                           THEN clobbered \cup {r.note} ELSE clobbered
    /\ reqs' = reqs \ {r}
    /\ Answer(r)
    /\ UNCHANGED <<file, age, upload, deleting, prunevars, heard, ticked, slipped>>

-----------------------------------------------------------------------------
(* prune_audio: one pass of the scheduler thread.                          *)

\* Mutant: a tick is taken for a transcript.
PrunableUnheard(n, a) ==
    /\ Exists(n) /\ row[n].audio = "held"
    /\ (row[n].reviewed /\ a > RETENTION) \/ a > CEILING

\* inbox_db.prunable_audio.
prunable_audio(n, a) ==
    /\ Exists(n) /\ row[n].audio = "held"
    /\ \/ row[n].transcript_status = "whisper" /\ row[n].reviewed /\ a > RETENTION
       \/ a > CEILING

\* The clock is read, then the rows to prune.  What the sweep will find too old at that time
\* only matters for the half-written files there are.
PruneBegins ==
    /\ prune.pc = "idle"
    /\ prune' = [NoPrune EXCEPT !.pc = "delete", !.old = {n \in Notes : file[n] = "part" /\ age[n] > PART_MAX_AGE},
                                !.todo = {n \in Notes : prunable_audio(n, age[n])}]
    /\ late' = {}
    /\ UNCHANGED <<storevars, workvars, histvars>>

PruneDelete(n) ==
    /\ prune.pc = "delete" /\ n \in prune.todo
    /\ \/ file' = [file EXCEPT ![n] = "none"]
       \/ "unlink" \in Faults /\ UNCHANGED file
    /\ prune' = [prune EXCEPT !.pc = "mark", !.item = n]
    /\ UNCHANGED <<row, age, upload, deleting, workvars, late, histvars>>

\* Mutant: a transcript that can never happen stays pending.
LoseAudioPending(n, how) ==
    row' = [row EXCEPT ![n] = IF @ = NULL THEN NULL ELSE [@ EXCEPT !.audio = how]]

\* A row without its audio: a transcript that can no longer happen is not awaited.
Silenced(r, how) ==
    [r EXCEPT !.audio = how, !.transcript_status = IF @ = "pending" THEN "failed" ELSE @]

\* mark_audio_pruned and clear_audio_path.
LoseAudio(n, how) == row' = [row EXCEPT ![n] = IF @ = NULL THEN NULL ELSE Silenced(@, how)]

PruneMark ==
    /\ prune.pc = "mark"
    /\ LoseAudio(prune.item, "pruned")
    /\ prune' = [prune EXCEPT !.pc = "delete", !.item = NULL, !.todo = @ \ {prune.item}]
    /\ UNCHANGED <<file, age, upload, deleting, workvars, late, histvars>>

Held == {n \in Notes : Exists(n) /\ row[n].audio = "held"}

\* dangling_audio_items.
PruneLists ==
    /\ prune.pc = "delete" /\ prune.todo = {}
    /\ prune' = [prune EXCEPT !.pc = "dangling", !.todo = Held]
    /\ UNCHANGED <<storevars, workvars, late, histvars>>

\* One row of that list: its file is there, or the path is cleared.
PruneReconciles(n) ==
    /\ prune.pc = "dangling" /\ n \in prune.todo
    /\ IF file[n] = "there" THEN UNCHANGED row ELSE LoseAudio(n, "missing")
    /\ prune' = [prune EXCEPT !.todo = @ \ {n}]
    /\ UNCHANGED <<file, age, upload, deleting, workvars, late, histvars>>

\* known_audio_paths, and the sweep begins.
PruneKnown ==
    /\ prune.pc = "dangling" /\ prune.todo = {}
    /\ prune' = [prune EXCEPT !.pc = "sweep", !.known = Held, !.todo = Notes]
    /\ UNCHANGED <<storevars, workvars, late, histvars>>

\* Mutant: no in-flight rule.
OrphanNow(n) ==
    \/ file[n] = "there" /\ n \notin prune.known
    \/ file[n] = "part" /\ n \in prune.old

\* Mutant: the half-written files of dead uploads stay.
OrphanKeepsParts(n) == file[n] = "there" /\ n \notin prune.known \cup late

\* What sweep_orphans removes: files nobody knows that are not in flight, and stale ".part"s.
Orphan(n) ==
    \/ file[n] = "there" /\ n \notin prune.known \cup late
    \/ file[n] = "part" /\ n \in prune.old

SweepRemove(n) ==
    /\ prune.pc = "sweep" /\ n \in prune.todo /\ Orphan(n)
    /\ file' = [file EXCEPT ![n] = "none"]
    /\ prune' = [prune EXCEPT !.todo = @ \ {n}]
    /\ slipped' = IF n \notin prune.known \cup late /\ (upload[n] = "saved" \/ n \in Held)
                  THEN slipped \cup {n} ELSE slipped
    /\ UNCHANGED <<row, age, upload, deleting, workvars, late, heard, ticked, clobbered>>

SweepSkip(n) ==
    /\ prune.pc = "sweep" /\ n \in prune.todo
    /\ ~Orphan(n) \/ "unlink" \in Faults
    /\ prune' = [prune EXCEPT !.todo = @ \ {n}]
    /\ UNCHANGED <<storevars, workvars, late, histvars>>

PruneEnds ==
    /\ prune.pc = "sweep" /\ prune.todo = {}
    /\ prune' = NoPrune /\ late' = {}
    /\ UNCHANGED <<storevars, workvars, histvars>>

PruneDies ==
    /\ prune.pc # "idle" /\ "dies" \in Faults
    /\ prune' = NoPrune /\ late' = {}
    /\ UNCHANGED <<storevars, workvars, histvars>>

-----------------------------------------------------------------------------
\* Time passes.  A unit is longer than any upload (PART_MAX_AGE_S rests on that).
Tick ==
    /\ \A n \in Notes : upload[n] \notin {"part", "saved", "inserted"}
    /\ age' = [n \in Notes |-> IF upload[n] # "none" /\ age[n] < AGE_CAP THEN age[n] + 1 ELSE age[n]]
    /\ age' # age
    /\ UNCHANGED <<row, file, upload, deleting, workvars, prunevars, histvars>>

UploadEnds(n) == \/ SaveReplace(n) \/ InsertRow(n) \/ InsertFails(n)
                 \/ ReadBack(n) \/ ReadBackFails(n) \/ UploadDies(n)
Upload(n) == SaveBegin(n) \/ UploadEnds(n)
Graham(n) == PatchReviewed(n) \/ DeleteRow(n) \/ DeleteFile(n)
Worker == \/ RunBegins \/ RunEnds \/ EnvironmentFault \/ PostTimesOut \/ WorkerDies
          \/ \E n \in Notes : TextPost(n) \/ report_failure(n)
Server == \E r \in reqs : \/ PostLost(r) \/ PostRefused(r) \/ set_transcript(r)
                          \/ AttemptRead(r) \/ AttemptWrite(r)
PruneStep == \/ PruneBegins \/ PruneMark \/ PruneLists \/ PruneKnown \/ PruneEnds
             \/ \E n \in Notes : \/ PruneDelete(n) \/ PruneReconciles(n)
                                 \/ SweepRemove(n) \/ SweepSkip(n)

Next == \/ \E n \in Notes : Upload(n) \/ Graham(n)
        \/ Worker \/ Server \/ PruneStep \/ PruneDies \/ Tick

(* Fairness.  A request that reached the server ends; time passes; the     *)
(* scheduler thread goes on pruning, and neither a restart nor a failing   *)
(* unlink hits the same step for ever.                                     *)
Fairness ==
    /\ WF_vars(Tick) /\ WF_vars(PruneStep)
    /\ \A n \in Notes :
          /\ WF_vars(UploadEnds(n))
          /\ SF_vars(PruneDelete(n)) /\ SF_vars(SweepRemove(n))
    /\ SF_vars(PruneMark) /\ SF_vars(PruneLists) /\ SF_vars(PruneKnown)

Spec == Init /\ [][Next]_vars /\ Fairness

-----------------------------------------------------------------------------
(* What is promised.                                                       *)

\* A note whose recording is gone before the privacy ceiling has been heard: prune_audio, the
\* reconciliation, the sweep and a delete that stops half way lose no words.  Two
\* paths of the code do: a sweep that runs in between an upload's file and its row, and the
\* upload that answers an error after its row was committed.
WordsSurvive ==
    \A n \in Notes : Exists(n) /\ age[n] <= CEILING => \/ file[n] = "there"
                                                      \/ n \in heard \cup slipped

\* A transcript that can no longer happen is not awaited for ever (mark_audio_pruned and
\* clear_audio_path, P-12 and P-14), unless a report wrote an old status back.
PendingSettles ==
    \A n \in Notes : (Exists(n) /\ row[n].transcript_status = "pending") ~>
                     \/ ~Exists(n) \/ n \in clobbered
                     \/ row[n].transcript_status # "pending"

\* Recording's view of the state: the file, a half-written one too, and what permits its loss.
RecOf(n) == IF file[n] # "none" THEN "kept" ELSE IF upload[n] = "none" THEN "none" ELSE "gone"
GroundsOf(n) ==
    {g \in {"unowned", "settled", "expired", "slipped"} :
        \/ g = "unowned" /\ (upload[n] = "died" \/ (upload[n] \in Landed /\ ~Exists(n)))
        \/ g = "settled" /\ n \in heard \cap ticked /\ age[n] > RETENTION
        \/ g = "expired" /\ age[n] > CEILING
        \/ g = "slipped" /\ n \in slipped}

Promise == INSTANCE Recording WITH rec <- [n \in Notes |-> RecOf(n)],
                                   grounds <- [n \in Notes |-> GroundsOf(n)]

\* Rows, files, requests and prunes together keep Recording's promise: every step is one of
\* Recording's, so that a recording is kept until there is a ground to let it go, ...
KeepsUntilGround == Promise!Safety

\* ... and once there is a ground it does go, whatever crashes and failing unlinks leave behind
\* (prune_audio, sweep_orphans).
GoesOnGround == Promise!Goes
=============================================================================
