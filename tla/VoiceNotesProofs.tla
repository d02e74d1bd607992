--------------------------- MODULE VoiceNotesProofs ---------------------------
(***************************************************************************)
(* Proofs about VoiceNotes, for any number of notes, POSTs, repeats and    *)
(* attempts and any set of faults: types, words that survive, and every    *)
(* step a step of Recording.                                               *)
(***************************************************************************)
EXTENDS VoiceNotes, TLAPS

\* TypeOK made inductive: a worker that waits for an answer waits for it on behalf of a note.
TInv == TypeOK /\ (worker.pc \in {"text", "failed"} => worker.item \in Notes)

\* Grounds on which prune_audio deletes a recording.
Settled(n) == n \in heard \cap ticked /\ age[n] > RETENTION
Prunable(n) == Settled(n) \/ age[n] > CEILING

\* An upload and its file: the file is half written before it has its name, has its name when
\* the row is inserted unless a sweep took it, and gets no older while the request runs.
UploadInv(n) ==
    /\ upload[n] = "none" => file[n] = "none"
    /\ upload[n] = "part" => file[n] = "part"
    /\ upload[n] = "saved" => file[n] = "there" \/ (file[n] = "none" /\ n \in slipped)
    /\ upload[n] \in Landed => file[n] # "part"
    /\ upload[n] \in {"none", "part", "saved", "inserted"} => age[n] = 0

\* A row and its history: made by a finished upload, and every value of its columns that
\* permits a deletion was earned.
RowInv(n) ==
    Exists(n) =>
        /\ upload[n] \in Landed
        /\ row[n].transcript_status = "whisper" => n \in heard
        /\ row[n].reviewed => n \in ticked
        /\ row[n].audio = "pruned" => Prunable(n)
        /\ row[n].audio = "missing" => file[n] = "none"
        /\ file[n] = "there" \/ n \in heard \cup slipped \/ age[n] > CEILING

\* A file that a request is about to delete has no row and never will have.
DeletingInv(n) == n \in deleting => ~Exists(n) /\ upload[n] \in Landed

\* What a prune remembers of a note stays true while it works: time only passes.
PruneInv(n) ==
    /\ prune.pc \in {"delete", "mark"} /\ n \in prune.todo => upload[n] \in Landed /\ Prunable(n)
    /\ prune.pc = "mark" => prune.item \in prune.todo
    /\ n \in prune.old => age[n] > PART_MAX_AGE

\* A report carries a status that the row once had.
SeenInv(n) ==
    \A r \in reqs : r.note = n /\ r.seen # NULL /\ r.seen.status = "whisper" => n \in heard

NoteInv(n) == UploadInv(n) /\ RowInv(n) /\ DeletingInv(n) /\ PruneInv(n) /\ SeenInv(n)
Inv == \A n \in Notes : NoteInv(n)

-----------------------------------------------------------------------------
(* Types.                                                                  *)

\* The ceiling and the last age that counts are numbers.
LEMMA AgesAreNumbers ==
    CEILING \in Nat /\ AGE_CAP \in Nat /\ CEILING >= RETENTION /\ RETENTION \in Nat /\ PART_MAX_AGE \in Nat
  <1>1. \A k \in Nat \ {0}, m \in Nat : k * m \in Nat /\ k * m >= m
    OBVIOUS
  <1> QED
    BY <1>1, VoiceAssumption DEF CEILING, AGE_CAP

\* The constant values of worker and prune.
LEMMA IdleTypes ==
    /\ Idle \in [pc : {"idle", "run", "text", "failed"}, item : Notes \cup {NULL},
                 todo : SUBSET Notes, tries : 0..HTTP_RETRIES]
    /\ NoPrune \in [pc : {"idle", "delete", "mark", "dangling", "sweep"}, item : Notes \cup {NULL},
                    todo : SUBSET Notes, old : SUBSET Notes, known : SUBSET Notes]
  BY VoiceAssumption DEF Idle, NoPrune

\* Nothing is uploaded, queued or pruned yet.
LEMMA InitTInv == Init => TInv
  BY IdleTypes, AgesAreNumbers DEF Init, TInv, TypeOK, Idle

\* A POST leaves requests and worker in their types.
LEMMA PostType ==
    ASSUME TInv, NEW n \in Notes, NEW kind \in {"text", "failed"}, NEW try \in 0..HTTP_RETRIES, Post(n, kind, try)
    PROVE  /\ reqs' \subseteq Request
           /\ worker' \in [pc : {"idle", "run", "text", "failed"}, item : Notes \cup {NULL},
                           todo : SUBSET Notes, tries : 0..HTTP_RETRIES]
           /\ worker'.item \in Notes
  <1>1. [note |-> n, kind |-> kind, try |-> try, seen |-> NULL] \in Request
    BY DEF Request
  <1> QED
    BY <1>1 DEF Post, TInv, TypeOK

\* Starting on the queue, and going on with what is left of it.
LEMMA RunType ==
    ASSUME NEW queue \in SUBSET Notes, NEW w, w = [Idle EXCEPT !.pc = "run", !.todo = queue]
    PROVE  /\ w \in [pc : {"idle", "run", "text", "failed"}, item : Notes \cup {NULL},
                      todo : SUBSET Notes, tries : 0..HTTP_RETRIES]
           /\ w.pc = "run"
  <1>1. w \in [pc : {"idle", "run", "text", "failed"}, item : Notes \cup {NULL},
               todo : SUBSET Notes, tries : 0..HTTP_RETRIES]
    BY IdleTypes
  <1>2. w.pc = "run"
    BY DEF Idle
  <1> QED
    BY <1>1, <1>2

\* What the worker turns to after an item is an item of its queue, or nothing.
LEMMA NextItemType ==
    ASSUME TInv
    PROVE  /\ NextItem \in [pc : {"idle", "run", "text", "failed"}, item : Notes \cup {NULL},
                            todo : SUBSET Notes, tries : 0..HTTP_RETRIES]
           /\ NextItem.pc = "run"
  <1>1. worker.todo \ {worker.item} \in SUBSET Notes
    BY DEF TInv, TypeOK
  <1> QED
    BY <1>1, RunType DEF NextItem

\* An answer frees the worker or leaves it alone.
LEMMA AnswerType ==
    ASSUME TInv, NEW r, Answer(r)
    PROVE  /\ worker' \in [pc : {"idle", "run", "text", "failed"}, item : Notes \cup {NULL},
                           todo : SUBSET Notes, tries : 0..HTTP_RETRIES]
           /\ worker'.pc \in {"text", "failed"} => worker'.item \in Notes
  BY NextItemType DEF Answer, TInv, TypeOK

\* Losing the audio makes a row out of a row.
LEMMA LoseAudioType ==
    ASSUME TypeOK, NEW n, NEW how \in {"pruned", "missing"}, LoseAudio(n, how)
    PROVE  row' \in [Notes -> Row \cup {NULL}]
  <1>1. \A r \in Row : Silenced(r, how) \in Row
    BY DEF Row, Silenced
  <1> QED
    BY <1>1 DEF LoseAudio, TypeOK

\* The three statements of an upload.
LEMMA UploadTInv == ASSUME TInv, NEW n \in Notes, Upload(n) PROVE TInv'
  <1>1. CASE SaveBegin(n)
    BY <1>1 DEF SaveBegin, TInv, TypeOK, workvars, histvars
  <1>2. CASE SaveReplace(n)
    BY <1>2 DEF SaveReplace, TInv, TypeOK, workvars, prunevars, histvars
  <1>3. CASE InsertRow(n)
    <2>1. [audio |-> "held", transcript_status |-> "pending", transcribe_attempts |-> 0, reviewed |-> FALSE] \in Row
      BY DEF Row
    <2> QED
      BY <1>3, <2>1 DEF InsertRow, TInv, TypeOK, workvars, prunevars, histvars
  <1>4. CASE InsertFails(n) \/ ReadBack(n)
    BY <1>4 DEF InsertFails, ReadBack, TInv, TypeOK, workvars, prunevars, histvars
  <1>5. CASE UploadDies(n)
    BY <1>5 DEF UploadDies, TInv, TypeOK, workvars, prunevars, histvars
  <1>6. CASE ReadBackFails(n)
    BY <1>6 DEF ReadBackFails, TInv, TypeOK, workvars, prunevars
  <1> QED
    BY <1>1, <1>2, <1>3, <1>4, <1>5, <1>6 DEF Upload, UploadEnds

\* A tick and the two statements of a delete.
LEMMA GrahamTInv == ASSUME TInv, NEW n \in Notes, Graham(n) PROVE TInv'
  <1>1. CASE PatchReviewed(n)
    <2>1. [row[n] EXCEPT !.reviewed = ~@] \in Row
      BY <1>1, ZenonT(40) DEF PatchReviewed, Exists, TInv, TypeOK, Row
    <2> QED
      BY <1>1, <2>1 DEF PatchReviewed, TInv, TypeOK, workvars, prunevars
  <1>2. CASE DeleteRow(n)
    BY <1>2 DEF DeleteRow, TInv, TypeOK, workvars, prunevars, histvars
  <1>3. CASE DeleteFile(n)
    BY <1>3 DEF DeleteFile, TInv, TypeOK, workvars, prunevars, histvars
  <1> QED
    BY <1>1, <1>2, <1>3 DEF Graham

\* The worker takes its queue, posts and waits, or dies.
LEMMA WorkerTInv == ASSUME TInv, Worker PROVE TInv'
  <1> USE VoiceAssumption
  <1>1. CASE RunBegins
    <2>1. transcribe_queue \subseteq Notes
      BY DEF transcribe_queue
    <2> QED
      BY <1>1, <2>1, RunType DEF RunBegins, TInv, TypeOK, storevars, prunevars, histvars
  <1>2. CASE RunEnds \/ EnvironmentFault \/ WorkerDies
    BY <1>2, IdleTypes DEF RunEnds, EnvironmentFault, WorkerDies, Idle, TInv, TypeOK, storevars, prunevars, histvars
  <1>3. ASSUME NEW n \in Notes, TextPost(n) \/ report_failure(n) PROVE TInv'
    BY <1>3, PostType DEF TextPost, report_failure, TInv, TypeOK, storevars, prunevars, histvars
  <1>4. CASE PostTimesOut
    <2>1. worker.item \in Notes /\ worker.pc \in {"text", "failed"} /\ worker.tries \in 0..HTTP_RETRIES
      BY <1>4 DEF PostTimesOut, TInv, TypeOK
    <2>2. CASE worker.tries < HTTP_RETRIES /\ Post(worker.item, worker.pc, worker.tries + 1)
      <3>1. worker.tries + 1 \in 0..HTTP_RETRIES
        BY <2>1, <2>2
      <3> QED
        BY <1>4, <2>1, <2>2, <3>1, PostType DEF PostTimesOut, TInv, TypeOK, storevars, prunevars, histvars
    <2>3. CASE Post(worker.item, "failed", 0)
      BY <1>4, <2>1, <2>3, PostType DEF PostTimesOut, TInv, TypeOK, storevars, prunevars, histvars
    <2>4. CASE worker' = NextItem /\ UNCHANGED reqs
      BY <1>4, <2>4, NextItemType DEF PostTimesOut, TInv, TypeOK, storevars, prunevars, histvars
    <2> QED
      BY <1>4, <2>2, <2>3, <2>4 DEF PostTimesOut
  <1> QED
    BY <1>1, <1>2, <1>3, <1>4 DEF Worker

\* A request is handled, loses its answer or is lost.
LEMMA ServerTInv == ASSUME TInv, Server PROVE TInv'
  <1> PICK r \in reqs : PostLost(r) \/ PostRefused(r) \/ set_transcript(r) \/ AttemptRead(r) \/ AttemptWrite(r)
    BY DEF Server
  <1>0. r \in Request /\ r.note \in Notes
    BY DEF TInv, TypeOK, Request
  <1>1. CASE PostLost(r)
    BY <1>1 DEF PostLost, TInv, TypeOK, storevars, prunevars, histvars
  <1>2. CASE PostRefused(r)
    BY <1>2, AnswerType DEF PostRefused, TInv, TypeOK, storevars, prunevars, histvars
  <1>3. CASE set_transcript(r)
    <2>1. [row[r.note] EXCEPT !.transcript_status = "whisper"] \in Row
      BY <1>0, <1>3 DEF set_transcript, Exists, TInv, TypeOK, Row
    <2> QED
      BY <1>0, <1>3, <2>1, AnswerType DEF set_transcript, TInv, TypeOK, prunevars
  <1>4. CASE AttemptRead(r)
    <2>1. row[r.note] \in Row
      BY <1>0, <1>4 DEF AttemptRead, Exists, TInv, TypeOK
    <2>2. [attempts |-> row[r.note].transcribe_attempts, status |-> row[r.note].transcript_status] \in Seen
      BY <2>1 DEF Row, Seen
    <2>3. [r EXCEPT !.seen = [attempts |-> row[r.note].transcribe_attempts,
                              status |-> row[r.note].transcript_status]] \in Request
      BY <1>0, <2>2 DEF Request
    <2> QED
      BY <1>4, <2>3 DEF AttemptRead, TInv, TypeOK, storevars, prunevars, histvars
  <1>5. CASE AttemptWrite(r)
    <2> DEFINE new == after_attempt(r.seen)
    <2>1. r.seen \in Seen
      BY <1>0, <1>5 DEF AttemptWrite, Request
    <2>2. new.attempts \in Nat /\ new.status \in {"pending", "whisper", "failed"}
      BY <2>1 DEF after_attempt, Seen
    <2> HIDE DEF new
    <2>3. row[r.note] \in Row
      BY <1>0, <1>5 DEF AttemptWrite, Exists, TInv, TypeOK
    <2>4. [row[r.note] EXCEPT !.transcribe_attempts = new.attempts, !.transcript_status = new.status] \in Row
      BY <2>2, <2>3 DEF Row
    <2>5. row' = [row EXCEPT ![r.note].transcribe_attempts = new.attempts, ![r.note].transcript_status = new.status]
      BY <1>5 DEF AttemptWrite, new
    <2>6. row' \in [Notes -> Row \cup {NULL}]
      BY <1>0, <2>4, <2>5 DEF TInv, TypeOK
    <2>7. clobbered' \subseteq Notes
      BY <1>0, <1>5 DEF AttemptWrite, TInv, TypeOK
    <2> QED
      BY <1>5, <2>6, <2>7, AnswerType DEF AttemptWrite, TInv, TypeOK, prunevars
  <1> QED
    BY <1>1, <1>2, <1>3, <1>4, <1>5

\* The prune, its reconciliation and its sweep, or its death.
LEMMA PruneTInv == ASSUME TInv, PruneStep \/ PruneDies PROVE TInv'
  <1>1. CASE PruneBegins
    BY <1>1 DEF PruneBegins, NoPrune, TInv, TypeOK, storevars, workvars, histvars
  <1>2. ASSUME NEW n \in Notes, PruneDelete(n) PROVE TInv'
    BY <1>2 DEF PruneDelete, TInv, TypeOK, workvars, histvars
  <1>3. CASE PruneMark
    BY <1>3, LoseAudioType DEF PruneMark, TInv, TypeOK, workvars, histvars
  <1>4. CASE PruneLists
    BY <1>4 DEF PruneLists, Held, TInv, TypeOK, storevars, workvars, histvars
  <1>5. ASSUME NEW n \in Notes, PruneReconciles(n) PROVE TInv'
    <2>1. row' \in [Notes -> Row \cup {NULL}]
      BY <1>5, LoseAudioType DEF PruneReconciles, TInv, TypeOK
    <2> QED
      BY <1>5, <2>1 DEF PruneReconciles, TInv, TypeOK, workvars, histvars
  <1>6. CASE PruneKnown
    BY <1>6 DEF PruneKnown, Held, TInv, TypeOK, storevars, workvars, histvars
  <1>7. ASSUME NEW n \in Notes, SweepRemove(n) PROVE TInv'
    BY <1>7 DEF SweepRemove, TInv, TypeOK, workvars
  <1>8. ASSUME NEW n \in Notes, SweepSkip(n) PROVE TInv'
    BY <1>8 DEF SweepSkip, TInv, TypeOK, storevars, workvars, histvars
  <1>9. CASE PruneEnds \/ PruneDies
    BY <1>9, IdleTypes DEF PruneEnds, PruneDies, TInv, TypeOK, storevars, workvars, histvars
  <1> QED
    BY <1>1, <1>2, <1>3, <1>4, <1>5, <1>6, <1>7, <1>8, <1>9 DEF PruneStep

\* Every step keeps the types.
LEMMA NextTInv == TInv /\ [Next]_vars => TInv'
  <1> SUFFICES ASSUME TInv, [Next]_vars PROVE TInv'
    OBVIOUS
  <1>1. CASE Tick
    BY <1>1, AgesAreNumbers DEF Tick, TInv, TypeOK, workvars, prunevars, histvars
  <1>2. CASE UNCHANGED vars
    BY <1>2 DEF vars, storevars, workvars, prunevars, histvars, TInv, TypeOK
  <1> QED
    BY <1>1, <1>2, UploadTInv, GrahamTInv, WorkerTInv, ServerTInv, PruneTInv DEF Next

\* The types, for every behaviour.
LEMMA TInvAlways == Spec => []TInv
  BY InitTInv, NextTInv, PTL DEF Spec

\* Rows, files, requests and the prune keep their types; no write of any of them, in whatever
\* order, leaves a column empty that the queue and the page read.
THEOREM TypeCorrect == Spec => []TypeOK
  <1>1. TInv => TypeOK
    BY DEF TInv
  <1> QED
    BY <1>1, TInvAlways, PTL

-----------------------------------------------------------------------------
(* The invariant of a note, part by part.                                  *)

\* The histories only grow and ages do not shrink: what permits a deletion stays.
Grows == heard \subseteq heard' /\ ticked \subseteq ticked' /\ slipped \subseteq slipped'
Older == \A n \in Notes : age'[n] >= age[n]

\* A step that leaves row, file, upload and age of the note alone.
SameStore(n) ==
    /\ row'[n] = row[n] /\ file'[n] = file[n] /\ upload'[n] = upload[n] /\ age'[n] = age[n]
    /\ n \in deleting' => n \in deleting

StoreInv(n) == UploadInv(n) /\ RowInv(n) /\ DeletingInv(n)

\* A step that leaves a note's row, file and upload alone keeps what relates them.
LEMMA SameStoreInv ==
    ASSUME NEW n \in Notes, StoreInv(n), SameStore(n), Grows
    PROVE  StoreInv(n)'
  <1>1. Exists(n)' <=> Exists(n)
    BY DEF SameStore, Exists
  <1>2. Prunable(n) => Prunable(n)'
    BY DEF Prunable, Settled, SameStore, Grows
  <1>3. UploadInv(n)'
    BY DEF StoreInv, UploadInv, SameStore, Grows
  <1>4. RowInv(n)'
    BY <1>1, <1>2 DEF StoreInv, RowInv, SameStore, Grows
  <1>5. DeletingInv(n)'
    BY <1>1 DEF StoreInv, DeletingInv, SameStore
  <1> QED
    BY <1>3, <1>4, <1>5 DEF StoreInv

\* What may be pruned may still be pruned when it is older and more is known.
LEMMA PrunableStays ==
    ASSUME TInv, TInv', NEW n \in Notes, Prunable(n), Grows, Older
    PROVE  Prunable(n)'
  <1>1. age[n] \in Nat /\ age'[n] \in Nat /\ RETENTION \in Nat /\ CEILING \in Nat /\ age'[n] >= age[n]
    BY AgesAreNumbers DEF TInv, TypeOK, Older
  <1> QED
    BY <1>1 DEF Prunable, Settled, Grows

\* A step that leaves the prune alone keeps what its list promises.
LEMMA SamePruneInv ==
    ASSUME TInv, TInv', NEW n \in Notes, PruneInv(n), prune' = prune, Grows, Older,
           upload[n] \in Landed => upload'[n] \in Landed
    PROVE  PruneInv(n)'
  <1>1. Prunable(n) => Prunable(n)'
    BY PrunableStays
  <1>2. age[n] > PART_MAX_AGE => age'[n] > PART_MAX_AGE
    BY AgesAreNumbers DEF TInv, TypeOK, Older
  <1> QED
    BY <1>1, <1>2 DEF PruneInv

\* A step that adds no request with a reading keeps what the readings say.
LEMMA SameSeenInv ==
    ASSUME NEW n \in Notes, SeenInv(n), Grows, \A r \in reqs' : r \in reqs \/ r.seen = NULL
    PROVE  SeenInv(n)'
  BY DEF SeenInv, Grows

\* Nothing is uploaded, so nothing is lost.
LEMMA InitInv == Init => Inv
  <1> SUFFICES ASSUME Init, NEW n \in Notes PROVE NoteInv(n)
    BY DEF Inv
  <1>1. UploadInv(n) /\ DeletingInv(n) /\ SeenInv(n)
    BY DEF Init, UploadInv, DeletingInv, SeenInv
  <1>2. RowInv(n)
    BY DEF Init, RowInv, Exists
  <1>3. PruneInv(n)
    BY DEF Init, PruneInv, NoPrune
  <1> QED
    BY <1>1, <1>2, <1>3 DEF NoteInv

\* Uploads.
LEMMA UploadInvStep ==
    ASSUME TInv, TInv', NEW m \in Notes, Upload(m), NEW n \in Notes, NoteInv(n)
    PROVE  NoteInv(n)'
  <1>0. StoreInv(n) /\ PruneInv(n) /\ SeenInv(n)
    BY DEF NoteInv, StoreInv
  <1>1. Grows /\ Older /\ prune' = prune /\ reqs' = reqs
    BY DEF Upload, UploadEnds, SaveBegin, SaveReplace, InsertRow, InsertFails, ReadBack, ReadBackFails, UploadDies,
           workvars, prunevars, histvars,
           Grows, Older, TInv, TypeOK
  <1>2. SeenInv(n)'
    BY <1>0, <1>1, SameSeenInv
  <1>3. upload[n] \in Landed => upload'[n] \in Landed
    BY DEF Upload, UploadEnds, SaveBegin, SaveReplace, InsertRow, InsertFails, ReadBack, ReadBackFails, UploadDies,
           TInv, TypeOK, Landed
  <1>4. PruneInv(n)'
    BY <1>0, <1>1, <1>3, SamePruneInv
  <1>5. StoreInv(n)'
    <2>1. CASE m # n
      <3>1. SameStore(n)
        BY <2>1 DEF Upload, UploadEnds, SaveBegin, SaveReplace, InsertRow, InsertFails, ReadBack, ReadBackFails,
                    UploadDies, TInv, TypeOK, SameStore
      <3> QED
        BY <1>0, <1>1, <3>1, SameStoreInv
    <2>2. CASE m = n
      <3> USE <2>2 DEF TInv, TypeOK
      <3>1. CASE SaveBegin(n) \/ SaveReplace(n)
        BY <1>0, <1>1, <3>1 DEF SaveBegin, SaveReplace, StoreInv, UploadInv, RowInv, DeletingInv, Exists, histvars,
                                Landed
      <3>2. CASE InsertRow(n)
        <4>1. row'[n].audio = "held" /\ row'[n].transcript_status = "pending" /\ ~row'[n].reviewed
          BY <3>2 DEF InsertRow
        <4>2. UploadInv(n)' /\ DeletingInv(n)'
          BY <1>0, <3>2 DEF InsertRow, StoreInv, UploadInv, DeletingInv, histvars, Landed
        <4>3. RowInv(n)'
          BY <1>0, <3>2, <4>1 DEF InsertRow, StoreInv, UploadInv, RowInv, histvars, Landed
        <4> QED
          BY <4>2, <4>3 DEF StoreInv
      <3>3. CASE InsertFails(n) \/ UploadDies(n)
        BY <1>0, <1>1, <3>3 DEF InsertFails, UploadDies, StoreInv, UploadInv, RowInv, DeletingInv, Exists, Landed
      <3>4. CASE ReadBack(n)
        BY <1>0, <1>1, <3>4 DEF ReadBack, StoreInv, UploadInv, RowInv, DeletingInv, Exists, Landed, histvars,
                                Prunable, Settled
      <3>5. CASE ReadBackFails(n)
        <4>1. /\ UNCHANGED <<row, age, deleting, heard, ticked>> /\ upload[n] = "inserted" /\ upload'[n] = "done"
              /\ \/ file'[n] = "none" /\ n \in slipped'
                 \/ file'[n] = file[n] /\ slipped' = slipped
          BY <3>5 DEF ReadBackFails
        <4> QED
          BY <1>0, <1>1, <4>1 DEF StoreInv, UploadInv, RowInv, DeletingInv, Exists, Landed, Prunable, Settled
      <3> QED
        BY <3>1, <3>2, <3>3, <3>4, <3>5 DEF Upload, UploadEnds
    <2> QED
      BY <2>1, <2>2
  <1> QED
    BY <1>2, <1>4, <1>5 DEF NoteInv, StoreInv

\* Ticks and deletes.
LEMMA GrahamInvStep ==
    ASSUME TInv, TInv', NEW m \in Notes, Graham(m), NEW n \in Notes, NoteInv(n)
    PROVE  NoteInv(n)'
  <1>0. StoreInv(n) /\ PruneInv(n) /\ SeenInv(n)
    BY DEF NoteInv, StoreInv
  <1>1. Grows /\ Older /\ prune' = prune /\ reqs' = reqs /\ upload' = upload /\ age' = age
    BY DEF Graham, PatchReviewed, DeleteRow, DeleteFile, workvars, prunevars, histvars, Grows, Older, TInv, TypeOK
  <1>2. SeenInv(n)' /\ PruneInv(n)'
    BY <1>0, <1>1, SameSeenInv, SamePruneInv
  <1>5. StoreInv(n)'
    <2>1. CASE m # n
      <3>1. SameStore(n)
        BY <2>1 DEF Graham, PatchReviewed, DeleteRow, DeleteFile, TInv, TypeOK, SameStore
      <3> QED
        BY <1>0, <1>1, <3>1, SameStoreInv
    <2>2. CASE PatchReviewed(n)
      <3>1. row[n] \in Row /\ Exists(n)
        BY <2>2 DEF PatchReviewed, Exists, TInv, TypeOK
      <3>2. /\ row'[n].audio = row[n].audio /\ row'[n].transcript_status = row[n].transcript_status
            /\ n \in ticked'
        BY <2>2, <3>1 DEF PatchReviewed, TInv, TypeOK, Row
      <3>3. UploadInv(n)' /\ DeletingInv(n)'
        BY <1>0, <1>1, <2>2, <3>1 DEF PatchReviewed, StoreInv, UploadInv, DeletingInv
      <3>4. Prunable(n) => Prunable(n)'
        BY <1>1, PrunableStays
      <3>5. RowInv(n)'
        BY <1>0, <1>1, <2>2, <3>1, <3>2, <3>4 DEF PatchReviewed, StoreInv, RowInv
      <3> QED
        BY <3>3, <3>5 DEF StoreInv
    <2>3. CASE DeleteRow(n)
      BY <1>0, <1>1, <2>3 DEF DeleteRow, StoreInv, UploadInv, RowInv, DeletingInv, Exists, TInv, TypeOK, histvars
    <2>4. CASE DeleteFile(n)
      BY <1>0, <1>1, <2>4 DEF DeleteFile, StoreInv, UploadInv, RowInv, DeletingInv, Exists, TInv, TypeOK, histvars,
                              Landed
    <2> QED
      BY <2>1, <2>2, <2>3, <2>4 DEF Graham
  <1> QED
    BY <1>2, <1>5 DEF NoteInv, StoreInv

\* The worker touches neither rows nor files.
LEMMA WorkerInvStep ==
    ASSUME TInv, TInv', Worker, NEW n \in Notes, NoteInv(n)
    PROVE  NoteInv(n)'
  <1>1. UNCHANGED storevars /\ UNCHANGED prunevars /\ UNCHANGED histvars
    BY DEF Worker, RunBegins, RunEnds, EnvironmentFault, PostTimesOut, WorkerDies, TextPost, report_failure
  <1>2. \A r \in reqs' : r \in reqs \/ r.seen = NULL
    <2>1. ASSUME NEW m, NEW kind, NEW try, Post(m, kind, try)
          PROVE  \A r \in reqs' : r \in reqs \/ r.seen = NULL
      BY <2>1 DEF Post
    <2> QED
      BY <2>1 DEF Worker, RunBegins, RunEnds, EnvironmentFault, PostTimesOut, WorkerDies, TextPost, report_failure
  <1>3. Grows /\ Older /\ prune' = prune /\ SameStore(n)
    BY <1>1 DEF storevars, prunevars, histvars, Grows, Older, SameStore, TInv, TypeOK
  <1>4. StoreInv(n)'
    BY <1>3, SameStoreInv DEF NoteInv, StoreInv
  <1>5. PruneInv(n)'
    BY <1>1, <1>3, SamePruneInv DEF NoteInv, storevars
  <1>6. SeenInv(n)'
    BY <1>2, <1>3, SameSeenInv DEF NoteInv
  <1> QED
    BY <1>4, <1>5, <1>6 DEF NoteInv, StoreInv

\* The server's answers.
LEMMA ServerInvStep ==
    ASSUME TInv, TInv', Server, NEW n \in Notes, NoteInv(n)
    PROVE  NoteInv(n)'
  <1> PICK r \in reqs : PostLost(r) \/ PostRefused(r) \/ set_transcript(r) \/ AttemptRead(r) \/ AttemptWrite(r)
    BY DEF Server
  <1>0. StoreInv(n) /\ PruneInv(n) /\ SeenInv(n) /\ r \in Request /\ r.note \in Notes
    BY DEF NoteInv, StoreInv, TInv, TypeOK, Request
  <1>1. /\ Grows /\ Older /\ prune' = prune
        /\ UNCHANGED <<file, upload, age, deleting, ticked, slipped>>
    BY DEF PostLost, PostRefused, set_transcript, AttemptRead, AttemptWrite, storevars, prunevars, histvars,
           Grows, Older, TInv, TypeOK
  <1>2. PruneInv(n)'
    BY <1>0, <1>1, SamePruneInv
  <1>3. Prunable(n) => Prunable(n)'
    BY <1>1, PrunableStays
  <1>4. CASE PostLost(r) \/ PostRefused(r)
    <2>1. SameStore(n) /\ reqs' \subseteq reqs
      BY <1>1, <1>4 DEF PostLost, PostRefused, SameStore, storevars
    <2> QED
      BY <1>0, <1>1, <1>2, <2>1, SameStoreInv, SameSeenInv DEF NoteInv, StoreInv
  <1>5. CASE set_transcript(r)
    <2>1. SeenInv(n)'
      BY <1>0, <1>1, <1>5, SameSeenInv DEF set_transcript
    <2>2. CASE n # r.note
      <3>1. SameStore(n)
        BY <1>0, <1>1, <1>5, <2>2 DEF set_transcript, SameStore, TInv, TypeOK
      <3> QED
        BY <1>0, <1>1, <1>2, <2>1, <3>1, SameStoreInv DEF NoteInv, StoreInv
    <2>3. CASE n = r.note
      <3>1. row[n] \in Row /\ Exists(n)
        BY <1>5, <2>3 DEF set_transcript, Exists, TInv, TypeOK
      <3>2. row'[n].audio = row[n].audio /\ row'[n].reviewed = row[n].reviewed /\ n \in heard'
        BY <1>5, <2>3, <3>1 DEF set_transcript, TInv, TypeOK, Row
      <3>3. UploadInv(n)' /\ DeletingInv(n)'
        BY <1>0, <1>1, <3>1 DEF StoreInv, UploadInv, DeletingInv
      <3>4. RowInv(n)'
        BY <1>0, <1>1, <1>3, <3>1, <3>2 DEF StoreInv, RowInv
      <3> QED
        BY <1>2, <2>1, <3>3, <3>4 DEF NoteInv
    <2> QED
      BY <2>2, <2>3
  <1>6. CASE AttemptRead(r)
    <2>1. SameStore(n)
      BY <1>1, <1>6 DEF AttemptRead, SameStore, storevars
    <2>2. StoreInv(n)'
      BY <1>0, <1>1, <2>1, SameStoreInv
    <2> DEFINE now == [attempts |-> row[r.note].transcribe_attempts, status |-> row[r.note].transcript_status]
    <2>3. [r EXCEPT !.seen = now].seen = now /\ [r EXCEPT !.seen = now].note = r.note
      BY <1>0 DEF Request
    <2>4. r.note = n /\ now.status = "whisper" => n \in heard
      BY <1>0, <1>6 DEF AttemptRead, StoreInv, RowInv
    <2>5. reqs' = (reqs \ {r}) \cup {[r EXCEPT !.seen = now]} /\ heard' = heard
      BY <1>6 DEF AttemptRead, histvars
    <2> HIDE DEF now
    <2>6. SeenInv(n)'
      BY <1>0, <2>3, <2>4, <2>5 DEF SeenInv
    <2> QED
      BY <1>2, <2>2, <2>6 DEF NoteInv, StoreInv
  <1>7. CASE AttemptWrite(r)
    <2>1. SeenInv(n)'
      BY <1>0, <1>1, <1>7, SameSeenInv DEF AttemptWrite
    <2>2. CASE n # r.note
      <3>1. SameStore(n)
        BY <1>0, <1>1, <1>7, <2>2 DEF AttemptWrite, SameStore, TInv, TypeOK
      <3> QED
        BY <1>0, <1>1, <1>2, <2>1, <3>1, SameStoreInv DEF NoteInv, StoreInv
    <2>3. CASE n = r.note
      <3>1. row[n] \in Row /\ Exists(n) /\ r.seen # NULL
        BY <1>7, <2>3 DEF AttemptWrite, Exists, TInv, TypeOK
      <3>2. row' = [row EXCEPT ![r.note].transcribe_attempts = after_attempt(r.seen).attempts,
                               ![r.note].transcript_status = after_attempt(r.seen).status]
        BY <1>7 DEF AttemptWrite
      <3>3. /\ row'[n].audio = row[n].audio /\ row'[n].reviewed = row[n].reviewed
            /\ row'[n].transcript_status = after_attempt(r.seen).status
        BY <2>3, <3>1, <3>2 DEF TInv, TypeOK, Row
      <3>4. after_attempt(r.seen).status = "whisper" => n \in heard
        BY <1>0, <2>3, <3>1 DEF after_attempt, SeenInv
      <3>5. UploadInv(n)' /\ DeletingInv(n)'
        BY <1>0, <1>1, <3>1 DEF StoreInv, UploadInv, DeletingInv
      <3>6. RowInv(n)'
        BY <1>0, <1>1, <1>3, <3>1, <3>3, <3>4 DEF StoreInv, RowInv, Grows
      <3> QED
        BY <1>2, <2>1, <3>5, <3>6 DEF NoteInv
    <2> QED
      BY <2>2, <2>3
  <1> QED
    BY <1>4, <1>5, <1>6, <1>7

\* A row that loses its audio on grounds, or because there is no file, keeps the invariant.
LEMMA LoseAudioInv ==
    ASSUME TInv, NEW n \in Notes, NEW m \in Notes, NEW how \in {"pruned", "missing"}, LoseAudio(m, how),
           UNCHANGED <<file, age, upload, deleting, heard, ticked, slipped>>, StoreInv(n),
           n = m /\ how = "pruned" => Prunable(n),
           n = m /\ how = "missing" => file[n] # "there"
    PROVE  StoreInv(n)'
  <1>0. Grows
    BY DEF Grows
  <1>1. CASE n # m \/ ~Exists(n)
    <2>1. SameStore(n)
      BY <1>1 DEF LoseAudio, SameStore, Exists, TInv, TypeOK
    <2> QED
      BY <1>0, <2>1, SameStoreInv
  <1>2. CASE n = m /\ Exists(n)
    <2>1. row[n] \in Row
      BY <1>2 DEF Exists, TInv, TypeOK
    <2>2. row'[n] = Silenced(row[n], how)
      BY <1>2 DEF LoseAudio, Exists, TInv, TypeOK
    <2>3. /\ row'[n].audio = how /\ row'[n].reviewed = row[n].reviewed
          /\ row'[n].transcript_status = "whisper" => row[n].transcript_status = "whisper"
      BY <2>1, <2>2 DEF Silenced, Row
    <2>4. file[n] \in {"none", "part", "there"}
      BY DEF TInv, TypeOK
    <2>5. Prunable(n) => Prunable(n)'
      BY DEF Prunable, Settled
    <2>6. UploadInv(n)' /\ DeletingInv(n)'
      BY <1>2 DEF StoreInv, UploadInv, DeletingInv
    <2>7. RowInv(n)'
      BY <1>2, <2>3, <2>4, <2>5 DEF StoreInv, RowInv, UploadInv
    <2> QED
      BY <2>6, <2>7 DEF StoreInv
  <1> QED
    BY <1>1, <1>2

\* The prune.
LEMMA PruneInvStep ==
    ASSUME TInv, TInv', PruneStep \/ PruneDies, Inv, NEW n \in Notes
    PROVE  NoteInv(n)'
  <1>0. NoteInv(n) /\ StoreInv(n) /\ PruneInv(n) /\ SeenInv(n)
    BY DEF Inv, NoteInv, StoreInv
  <1>1. Grows /\ Older /\ reqs' = reqs /\ UNCHANGED <<age, upload, deleting, heard, ticked>>
    <2>1. UNCHANGED <<age, upload, deleting, reqs, heard, ticked>>
      BY DEF PruneStep, PruneDies, PruneBegins, PruneDelete, PruneMark, PruneLists, PruneReconciles, PruneKnown,
             SweepRemove, SweepSkip, PruneEnds, storevars, workvars, histvars
    <2>2. slipped \subseteq slipped'
      BY DEF PruneStep, PruneDies, PruneBegins, PruneDelete, PruneMark, PruneLists, PruneReconciles, PruneKnown,
             SweepRemove, SweepSkip, PruneEnds, histvars
    <2>3. Older
      BY <2>1, AgesAreNumbers DEF Older, TInv, TypeOK
    <2> QED
      BY <2>1, <2>2, <2>3 DEF Grows
  <1>2. SeenInv(n)'
    BY <1>0, <1>1, SameSeenInv
  <1>3. Prunable(n) => Prunable(n)'
    BY <1>1, PrunableStays
  <1>4. CASE PruneBegins
    <2>1. StoreInv(n)'
      BY <1>0, <1>1, <1>4, SameStoreInv DEF PruneBegins, storevars, SameStore
    <2>2. prunable_audio(n, age[n]) => upload[n] \in Landed /\ Prunable(n)
      BY <1>0 DEF prunable_audio, Prunable, Settled, StoreInv, RowInv
    <2>3. /\ prune'.pc = "delete" /\ prune'.old = {m \in Notes : file[m] = "part" /\ age[m] > PART_MAX_AGE}
          /\ prune'.todo = {m \in Notes : prunable_audio(m, age[m])}
      BY <1>4 DEF PruneBegins, NoPrune
    <2>4. PruneInv(n)'
      BY <1>1, <1>3, <2>2, <2>3 DEF PruneInv
    <2> QED
      BY <1>2, <2>1, <2>4 DEF NoteInv, StoreInv
  <1>5. ASSUME NEW m \in Notes, PruneDelete(m) PROVE NoteInv(n)'
    <2>1. prune'.pc = "mark" /\ prune'.item = m /\ prune'.todo = prune.todo /\ prune'.old = prune.old
          /\ prune.pc = "delete" /\ m \in prune.todo
      BY <1>5 DEF PruneDelete, TInv, TypeOK
    <2>2. PruneInv(n)'
      BY <1>0, <1>1, <1>3, <2>1 DEF PruneInv
    <2>3. CASE file'[n] = file[n]
      BY <1>0, <1>1, <1>2, <1>5, <2>2, <2>3, SameStoreInv DEF PruneDelete, SameStore, NoteInv, StoreInv
    <2>4. CASE file'[n] # file[n]
      <3>1. n = m /\ file'[n] = "none"
        BY <1>5, <2>4 DEF PruneDelete, TInv, TypeOK
      <3>2. upload[n] \in Landed /\ Prunable(n)
        BY <1>0, <2>1, <3>1 DEF PruneInv
      <3>3. UploadInv(n)' /\ DeletingInv(n)'
        BY <1>0, <1>1, <1>5, <3>1, <3>2 DEF PruneDelete, StoreInv, UploadInv, DeletingInv, Exists, Landed
      <3>4. RowInv(n)'
        BY <1>0, <1>1, <1>3, <1>5, <3>1, <3>2
           DEF PruneDelete, StoreInv, RowInv, Exists, Prunable, Settled
      <3> QED
        BY <1>2, <2>2, <3>3, <3>4 DEF NoteInv
    <2> QED
      BY <2>3, <2>4
  <1>6. CASE PruneMark
    <2>1. /\ prune'.pc = "delete" /\ prune'.todo \subseteq prune.todo /\ prune'.old = prune.old
          /\ prune.pc = "mark"
      BY <1>6 DEF PruneMark, TInv, TypeOK
    <2>2. PruneInv(n)'
      BY <1>0, <1>1, <1>3, <2>1 DEF PruneInv
    <2>3. prune.item \in prune.todo /\ prune.item \in Notes
      BY <1>0, <2>1 DEF PruneInv, TInv, TypeOK
    <2>4. n = prune.item => Prunable(n)
      BY <1>0, <2>1, <2>3 DEF PruneInv
    <2>5. LoseAudio(prune.item, "pruned") /\ UNCHANGED <<file, slipped>>
      BY <1>6 DEF PruneMark, histvars
    <2>6. StoreInv(n)'
      BY <1>0, <1>1, <2>3, <2>4, <2>5, LoseAudioInv
    <2> QED
      BY <1>2, <2>2, <2>6 DEF NoteInv, StoreInv
  <1>7. ASSUME NEW m \in Notes, PruneReconciles(m) PROVE NoteInv(n)'
    <2>1. prune'.pc = "dangling" /\ prune'.old = prune.old
      BY <1>7 DEF PruneReconciles, TInv, TypeOK
    <2>2. PruneInv(n)'
      BY <1>0, <1>1, <2>1 DEF PruneInv
    <2>3. CASE file[m] = "there"
      BY <1>0, <1>1, <1>2, <1>7, <2>2, <2>3, SameStoreInv DEF PruneReconciles, SameStore, NoteInv, StoreInv
    <2>4. CASE file[m] # "there"
      <3>1. LoseAudio(m, "missing") /\ UNCHANGED <<file, slipped>>
        BY <1>7, <2>4 DEF PruneReconciles, histvars
      <3>2. StoreInv(n)'
        BY <1>0, <1>1, <2>4, <3>1, LoseAudioInv
      <3> QED
        BY <1>2, <2>2, <3>2 DEF NoteInv, StoreInv
    <2> QED
      BY <2>3, <2>4
  <1>8. ASSUME NEW m \in Notes, SweepRemove(m) PROVE NoteInv(n)'
    <2>1. prune'.pc = "sweep" /\ prune'.old = prune.old
      BY <1>8 DEF SweepRemove, TInv, TypeOK
    <2>2. PruneInv(n)'
      BY <1>0, <1>1, <2>1 DEF PruneInv
    <2>3. CASE n # m
      <3>1. SameStore(n)
        BY <1>1, <1>8, <2>3 DEF SweepRemove, SameStore, TInv, TypeOK
      <3> QED
        BY <1>0, <1>1, <1>2, <2>2, <3>1, SameStoreInv DEF NoteInv, StoreInv
    <2>4. CASE n = m
      <3>1. /\ file'[n] = "none" /\ row' = row
            /\ n \notin prune.known \cup late /\ (upload[n] = "saved" \/ n \in Held) => n \in slipped'
        BY <1>8, <2>4 DEF SweepRemove, TInv, TypeOK
      <3>2. \/ file[n] = "there" /\ n \notin prune.known \cup late
            \/ file[n] = "part" /\ age[n] > PART_MAX_AGE
        BY <1>0, <1>8, <2>4 DEF SweepRemove, Orphan, PruneInv
      <3>3. upload[n] \notin {"none", "part"}
        BY <1>0, <3>2, AgesAreNumbers DEF StoreInv, UploadInv
      <3>4. upload[n] = "saved" => n \in slipped'
        BY <1>0, <3>1, <3>2, AgesAreNumbers DEF StoreInv, UploadInv
      <3>5. UploadInv(n)' /\ DeletingInv(n)'
        BY <1>0, <1>1, <3>1, <3>3, <3>4 DEF StoreInv, UploadInv, DeletingInv, Exists
      <3>6. Exists(n) => n \in slipped' \/ n \in heard \/ age[n] > CEILING
        <4>1. CASE Exists(n) /\ n \in Held
          BY <1>0, <3>1, <3>2, <4>1 DEF StoreInv, RowInv, UploadInv
        <4>2. CASE Exists(n) /\ n \notin Held
          <5>1. row[n].audio \in {"pruned", "missing"}
            BY <4>2 DEF Held, Exists, TInv, TypeOK, Row
          <5> QED
            BY <1>0, <3>2, <4>2, <5>1 DEF StoreInv, RowInv, Prunable, Settled
        <4> QED
          BY <4>1, <4>2
      <3>7. RowInv(n)'
        BY <1>0, <1>1, <1>3, <3>1, <3>6 DEF StoreInv, RowInv, Exists
      <3> QED
        BY <1>2, <2>2, <3>5, <3>7 DEF NoteInv
    <2> QED
      BY <2>3, <2>4
  <1>9. CASE PruneLists \/ PruneKnown \/ PruneEnds \/ PruneDies \/ \E m \in Notes : SweepSkip(m)
    <2>1. prune'.pc \notin {"delete", "mark"} /\ (prune'.old = prune.old \/ prune'.old = {})
      <3>1. CASE PruneLists \/ PruneKnown
        BY <3>1 DEF PruneLists, PruneKnown, TInv, TypeOK
      <3>2. CASE PruneEnds \/ PruneDies
        BY <3>2 DEF PruneEnds, PruneDies, NoPrune
      <3>3. ASSUME NEW m \in Notes, SweepSkip(m)
            PROVE  prune'.pc \notin {"delete", "mark"} /\ prune'.old = prune.old
        BY <3>3 DEF SweepSkip, TInv, TypeOK
      <3> QED
        BY <1>9, <3>1, <3>2, <3>3
    <2>2. PruneInv(n)'
      BY <1>0, <1>1, <2>1 DEF PruneInv
    <2>3. SameStore(n)
      BY <1>9 DEF PruneLists, PruneKnown, PruneEnds, PruneDies, SweepSkip, storevars, SameStore
    <2> QED
      BY <1>0, <1>1, <1>2, <2>2, <2>3, SameStoreInv DEF NoteInv, StoreInv
  <1> QED
    BY <1>4, <1>5, <1>6, <1>7, <1>8, <1>9 DEF PruneStep

\* Time passes for no upload that is under way.
LEMMA TickInvStep ==
    ASSUME TInv, TInv', Tick, NEW n \in Notes, NoteInv(n)
    PROVE  NoteInv(n)'
  <1>0. StoreInv(n) /\ PruneInv(n) /\ SeenInv(n)
    BY DEF NoteInv, StoreInv
  <1>1. Grows /\ prune' = prune /\ reqs' = reqs /\ UNCHANGED <<row, file, upload, deleting, heard, ticked, slipped>>
    BY DEF Tick, workvars, prunevars, histvars, Grows
  <1>2. Older
    BY AgesAreNumbers DEF Tick, Older, TInv, TypeOK
  <1>3. PruneInv(n)' /\ SeenInv(n)'
    BY <1>0, <1>1, <1>2, SamePruneInv, SameSeenInv
  <1>4. Prunable(n) => Prunable(n)'
    BY <1>1, <1>2, PrunableStays
  <1>5. UploadInv(n)' /\ DeletingInv(n)'
    BY <1>0, <1>1 DEF Tick, StoreInv, UploadInv, DeletingInv, Exists
  <1>6. age[n] > CEILING => age'[n] > CEILING
    BY <1>2, AgesAreNumbers DEF Older, TInv, TypeOK
  <1>7. RowInv(n)'
    BY <1>0, <1>1, <1>4, <1>6 DEF StoreInv, RowInv, Exists
  <1> QED
    BY <1>3, <1>5, <1>7 DEF NoteInv

\* Every step keeps the relation of row, file, request and prune.
LEMMA NextInv == TInv /\ TInv' /\ Inv /\ [Next]_vars => Inv'
  <1> SUFFICES ASSUME TInv, TInv', Inv, [Next]_vars, NEW n \in Notes PROVE NoteInv(n)'
    BY DEF Inv
  <1>1. NoteInv(n)
    BY DEF Inv
  <1>2. CASE UNCHANGED vars
    <2>1. Grows /\ Older /\ SameStore(n) /\ prune' = prune /\ reqs' = reqs /\ upload' = upload
      BY <1>2 DEF vars, storevars, workvars, prunevars, histvars, Grows, Older, SameStore, TInv, TypeOK
    <2> QED
      BY <1>1, <2>1, SameStoreInv, SamePruneInv, SameSeenInv DEF NoteInv, StoreInv
  <1> QED
    BY <1>1, <1>2, UploadInvStep, GrahamInvStep, WorkerInvStep, ServerInvStep, PruneInvStep, TickInvStep DEF Next

\* That relation, for every behaviour.
LEMMA InvAlways == Spec => []Inv
  <1>1. TInv /\ TInv' /\ Inv /\ [Next]_vars => Inv'
    BY NextInv
  <1> QED
    BY <1>1, InitInv, TInvAlways, PTL DEF Spec

\* No words are lost before the privacy ceiling: a note whose recording is gone was transcribed,
\* or fell into one of the two gaps an upload leaves: a sweep before its row is committed, and the
\* removal of its file when reading the row back fails.
THEOREM WordsAlwaysSurvive == Spec => []WordsSurvive
  <1>1. TInv /\ Inv => WordsSurvive
    BY AgesAreNumbers DEF TInv, TypeOK, Inv, NoteInv, RowInv, WordsSurvive
  <1> QED
    BY <1>1, TInvAlways, InvAlways, PTL

-----------------------------------------------------------------------------
(* Every step is a step of Recording.                                      *)

\* The recording of a note without an upload is none, and it has no grounds.
LEMMA InitPromise == Init => Promise!Init
  <1> SUFFICES ASSUME Init, NEW n \in Notes PROVE RecOf(n) = "none" /\ GroundsOf(n) = {}
    BY DEF Promise!Init
  <1> QED
    BY AgesAreNumbers DEF Init, RecOf, GroundsOf, Landed

\* A step never shrinks an age or a history, and what is over stays over: an upload that ended,
\* and a note that was deleted.
LEMMA Monotone ==
    ASSUME TInv, TInv', [Next]_vars
    PROVE  /\ Grows /\ Older
           /\ \A n \in Notes : /\ upload[n] = "died" => upload'[n] = "died"
                               /\ upload[n] \in Landed => upload'[n] \in Landed
                               /\ upload[n] \in Landed /\ ~Exists(n) => ~Exists(n)'
  <1> DEFINE Ended == \A n \in Notes : /\ upload[n] = "died" => upload'[n] = "died"
                                       /\ upload[n] \in Landed => upload'[n] \in Landed
                                       /\ upload[n] \in Landed /\ ~Exists(n) => ~Exists(n)'
  <1>0. ASSUME UNCHANGED age PROVE Older
    BY <1>0, AgesAreNumbers DEF Older, TInv, TypeOK
  <1>1. ASSUME NEW n \in Notes, Upload(n) PROVE Grows /\ Older /\ Ended
    <2>1. Grows /\ UNCHANGED age
      BY <1>1 DEF Upload, UploadEnds, SaveBegin, SaveReplace, InsertRow, InsertFails, ReadBack, ReadBackFails,
                  UploadDies, histvars, Grows
    <2>2. Ended
      BY <1>1 DEF Upload, UploadEnds, SaveBegin, SaveReplace, InsertRow, InsertFails, ReadBack, ReadBackFails,
                  UploadDies, Exists, TInv, TypeOK, Landed
    <2> QED
      BY <1>0, <2>1, <2>2
  <1>2. ASSUME NEW n \in Notes, Graham(n) PROVE Grows /\ Older /\ Ended
    <2>1. Grows /\ UNCHANGED <<age, upload>>
      BY <1>2 DEF Graham, PatchReviewed, DeleteRow, DeleteFile, histvars, Grows
    <2>2. \A m \in Notes : ~Exists(m) => ~Exists(m)'
      BY <1>2 DEF Graham, PatchReviewed, DeleteRow, DeleteFile, Exists, TInv, TypeOK
    <2> QED
      BY <1>0, <2>1, <2>2
  <1>3. CASE Worker
    <2>1. UNCHANGED storevars /\ UNCHANGED histvars
      BY <1>3 DEF Worker, RunBegins, RunEnds, EnvironmentFault, PostTimesOut, WorkerDies, TextPost, report_failure
    <2> QED
      BY <1>0, <2>1 DEF storevars, histvars, Grows, Exists
  <1>4. CASE Server
    <2> PICK r \in reqs : PostLost(r) \/ PostRefused(r) \/ set_transcript(r) \/ AttemptRead(r) \/ AttemptWrite(r)
      BY <1>4 DEF Server
    <2>1. Grows /\ UNCHANGED <<age, upload>>
      BY DEF PostLost, PostRefused, set_transcript, AttemptRead, AttemptWrite, storevars, histvars, Grows
    <2>2. r.note \in Notes
      BY DEF TInv, TypeOK, Request
    <2>3. CASE row' = row
      BY <1>0, <2>1, <2>3 DEF Exists
    <2>4. CASE Exists(r.note) /\ \A m \in Notes : m # r.note => row'[m] = row[m]
      BY <1>0, <2>1, <2>4 DEF Exists
    <2>5. row' = row \/ (Exists(r.note) /\ \A m \in Notes : m # r.note => row'[m] = row[m])
      BY <2>2 DEF PostLost, PostRefused, set_transcript, AttemptRead, AttemptWrite, storevars, TInv, TypeOK
    <2> QED
      BY <2>3, <2>4, <2>5
  <1>5. CASE PruneStep \/ PruneDies
    <2>1. UNCHANGED <<age, upload, heard, ticked>>
      BY <1>5 DEF PruneStep, PruneDies, PruneBegins, PruneDelete, PruneMark, PruneLists, PruneReconciles, PruneKnown,
             SweepRemove, SweepSkip, PruneEnds, storevars, workvars, histvars
    <2>2. slipped \subseteq slipped'
      BY <1>5 DEF PruneStep, PruneDies, PruneBegins, PruneDelete, PruneMark, PruneLists, PruneReconciles, PruneKnown,
             SweepRemove, SweepSkip, PruneEnds, histvars
    <2>3. ASSUME NEW m, NEW how, LoseAudio(m, how), NEW k \in Notes, ~Exists(k) PROVE ~Exists(k)'
      BY <2>3 DEF LoseAudio, Exists, TInv, TypeOK
    <2>4. row' = row \/ \E m, how : LoseAudio(m, how)
      BY <1>5 DEF PruneStep, PruneDies, PruneBegins, PruneDelete, PruneMark, PruneLists, PruneReconciles, PruneKnown,
             SweepRemove, SweepSkip, PruneEnds, storevars
    <2>5. \A k \in Notes : ~Exists(k) => ~Exists(k)'
      BY <2>3, <2>4 DEF Exists
    <2> QED
      BY <1>0, <2>1, <2>2, <2>5 DEF Grows
  <1>6. CASE Tick
    BY <1>6, AgesAreNumbers DEF Tick, Older, Grows, histvars, Exists, TInv, TypeOK
  <1>7. CASE UNCHANGED vars
    BY <1>0, <1>7 DEF vars, storevars, histvars, Grows, Exists
  <1> QED
    BY <1>1, <1>2, <1>3, <1>4, <1>5, <1>6, <1>7 DEF Next

\* Grounds only accumulate.
LEMMA GroundsGain ==
    ASSUME TInv, TInv', [Next]_vars, NEW n \in Notes
    PROVE  GroundsOf(n) \subseteq GroundsOf(n)' /\ GroundsOf(n)' \subseteq Promise!Grounds
  <1>1. age[n] \in Nat /\ age'[n] \in Nat /\ RETENTION \in Nat /\ CEILING \in Nat
    BY AgesAreNumbers DEF TInv, TypeOK
  <1>2. age'[n] >= age[n] /\ Grows
    BY Monotone DEF Older
  <1>3. /\ upload[n] = "died" => upload'[n] = "died"
        /\ upload[n] \in Landed => upload'[n] \in Landed
        /\ upload[n] \in Landed /\ ~Exists(n) => ~Exists(n)'
    BY Monotone
  <1>4. ASSUME NEW g \in GroundsOf(n) PROVE g \in GroundsOf(n)'
    BY <1>1, <1>2, <1>3, <1>4 DEF GroundsOf, Grows
  <1> QED
    BY <1>4 DEF GroundsOf, Promise!Grounds

\* What a step does to one recording.
RecStep(n) ==
    \/ RecOf(n)' = RecOf(n)
    \/ RecOf(n) = "none" /\ RecOf(n)' = "kept"
    \/ RecOf(n) = "kept" /\ RecOf(n)' = "gone" /\ GroundsOf(n)' # {}

\* Files change one at a time, and go only on grounds.
LEMMA OneRecording ==
    ASSUME TInv, TInv', Inv, [Next]_vars, Notes # {}
    PROVE  \E m \in Notes : RecStep(m) /\ \A n \in Notes \ {m} : RecOf(n)' = RecOf(n)
  <1>0. ASSUME UNCHANGED <<file, upload>>
        PROVE  \E m \in Notes : RecStep(m) /\ \A n \in Notes \ {m} : RecOf(n)' = RecOf(n)
    BY <1>0 DEF RecOf, RecStep
  <1>1. ASSUME NEW m \in Notes, Upload(m)
        PROVE  RecStep(m) /\ \A n \in Notes \ {m} : RecOf(n)' = RecOf(n)
    <2>1. \A n \in Notes \ {m} : RecOf(n)' = RecOf(n)
      BY <1>1 DEF Upload, UploadEnds, SaveBegin, SaveReplace, InsertRow, InsertFails, ReadBack, ReadBackFails,
                  UploadDies, RecOf, TInv, TypeOK
    <2>2. UploadInv(m)
      BY DEF Inv, NoteInv
    <2>3. CASE SaveBegin(m) \/ SaveReplace(m) \/ InsertRow(m) \/ ReadBack(m) \/ UploadDies(m)
      BY <2>2, <2>3 DEF SaveBegin, SaveReplace, InsertRow, ReadBack, UploadDies, UploadInv, RecOf, RecStep, TInv,
                        TypeOK
    <2>4. CASE InsertFails(m)
      <3>1. upload'[m] = "died"
        BY <2>4 DEF InsertFails, TInv, TypeOK
      <3>2. "unowned" \in GroundsOf(m)'
        BY <3>1 DEF GroundsOf
      <3> QED
        BY <2>1, <2>4, <3>1, <3>2 DEF InsertFails, RecOf, RecStep, TInv, TypeOK
    <2>5. CASE ReadBackFails(m)
      <3>1. upload[m] = "inserted" /\ upload'[m] = "done"
        BY <2>5 DEF ReadBackFails, TInv, TypeOK
      <3>2. CASE file'[m] = "none" /\ m \in slipped'
        <4>1. "slipped" \in GroundsOf(m)'
          BY <3>2 DEF GroundsOf
        <4> QED
          BY <2>1, <3>1, <3>2, <4>1 DEF RecOf, RecStep
      <3>3. CASE file'[m] = file[m]
        BY <2>1, <3>1, <3>3 DEF RecOf, RecStep
      <3> QED
        BY <2>5, <3>2, <3>3 DEF ReadBackFails, TInv, TypeOK
    <2> QED
      BY <1>1, <2>1, <2>3, <2>4, <2>5 DEF Upload, UploadEnds
  <1>2. ASSUME NEW m \in Notes, DeleteFile(m)
        PROVE  RecStep(m) /\ \A n \in Notes \ {m} : RecOf(n)' = RecOf(n)
    <2>1. ~Exists(m) /\ upload[m] \in Landed
      BY <1>2 DEF Inv, NoteInv, DeletingInv, DeleteFile
    <2>2. "unowned" \in GroundsOf(m)'
      BY <1>2, <2>1 DEF DeleteFile, GroundsOf, Exists
    <2> QED
      BY <1>2, <2>1, <2>2 DEF DeleteFile, RecOf, RecStep, TInv, TypeOK, Landed
  <1>3. ASSUME NEW m \in Notes, PruneDelete(m)
        PROVE  RecStep(m) /\ \A n \in Notes \ {m} : RecOf(n)' = RecOf(n)
    <2>1. upload[m] \in Landed /\ Prunable(m)
      BY <1>3 DEF Inv, NoteInv, PruneInv, PruneDelete
    <2>2. GroundsOf(m)' # {}
      BY <1>3, <2>1 DEF PruneDelete, GroundsOf, Prunable, Settled, histvars
    <2> QED
      BY <1>3, <2>1, <2>2 DEF PruneDelete, RecOf, RecStep, TInv, TypeOK, Landed
  <1>4. ASSUME NEW m \in Notes, SweepRemove(m)
        PROVE  RecStep(m) /\ \A n \in Notes \ {m} : RecOf(n)' = RecOf(n)
    <2>0. UploadInv(m) /\ RowInv(m) /\ PruneInv(m)
      BY DEF Inv, NoteInv
    <2>1. /\ file'[m] = "none" /\ file[m] # "none" /\ UNCHANGED <<row, upload, age, heard, ticked>>
          /\ m \notin prune.known \cup late /\ (upload[m] = "saved" \/ m \in Held) => m \in slipped'
      BY <1>4 DEF SweepRemove, Orphan, TInv, TypeOK
    <2>2. \/ file[m] = "there" /\ m \notin prune.known \cup late
          \/ file[m] = "part" /\ age[m] > PART_MAX_AGE
      BY <1>4, <2>0 DEF SweepRemove, Orphan, PruneInv
    <2>3. upload[m] \in {"saved", "died"} \cup Landed
      BY <2>0, <2>2, AgesAreNumbers DEF UploadInv, TInv, TypeOK, Landed
    <2>4. GroundsOf(m)' # {}
      <3>1. CASE upload[m] = "saved"
        <4>1. m \in slipped'
          BY <2>0, <2>1, <2>2, <3>1, AgesAreNumbers DEF UploadInv
        <4> QED
          BY <4>1 DEF GroundsOf
      <3>2. CASE upload[m] = "died" \/ (upload[m] \in Landed /\ ~Exists(m))
        <4>1. "unowned" \in GroundsOf(m)'
          BY <2>1, <3>2 DEF GroundsOf, Exists
        <4> QED
          BY <4>1
      <3>3. CASE upload[m] \in Landed /\ Exists(m)
        <4>1. file[m] = "there"
          BY <2>0, <2>2, <3>3 DEF UploadInv
        <4>2. CASE m \in Held
          BY <2>1, <2>2, <4>1, <4>2 DEF GroundsOf
        <4>3. CASE m \notin Held
          <5>1. row[m].audio = "pruned"
            BY <2>0, <3>3, <4>1, <4>3 DEF Held, Exists, RowInv, TInv, TypeOK, Row
          <5>2. Prunable(m)
            BY <2>0, <3>3, <5>1 DEF RowInv
          <5> QED
            BY <2>1, <5>2 DEF GroundsOf, Prunable, Settled
        <4> QED
          BY <4>2, <4>3
      <3> QED
        BY <2>3, <3>1, <3>2, <3>3
    <2> QED
      BY <1>4, <2>1, <2>3, <2>4 DEF SweepRemove, RecOf, RecStep, TInv, TypeOK, Landed
  <1>5. CASE \E m \in Notes : PatchReviewed(m) \/ DeleteRow(m)
    BY <1>0, <1>5 DEF PatchReviewed, DeleteRow
  <1>6. CASE Worker
    <2>1. UNCHANGED storevars
      BY <1>6 DEF Worker, RunBegins, RunEnds, EnvironmentFault, PostTimesOut, WorkerDies, TextPost, report_failure
    <2> QED
      BY <1>0, <2>1 DEF storevars
  <1>7. CASE Server
    <2>1. UNCHANGED <<file, upload>>
      BY <1>7 DEF Server, PostLost, PostRefused, set_transcript, AttemptRead, AttemptWrite, storevars
    <2> QED
      BY <1>0, <2>1
  <1>8. CASE \/ PruneBegins \/ PruneMark \/ PruneLists \/ PruneKnown \/ PruneEnds \/ PruneDies
            \/ \E m \in Notes : PruneReconciles(m) \/ SweepSkip(m)
    <2>1. UNCHANGED <<file, upload>>
      BY <1>8 DEF PruneBegins, PruneMark, PruneLists, PruneKnown, PruneEnds, PruneDies, PruneReconciles, SweepSkip,
                  storevars
    <2> QED
      BY <1>0, <2>1
  <1>9. CASE Tick \/ UNCHANGED vars
    BY <1>0, <1>9 DEF Tick, vars, storevars
  <1> QED
    BY <1>1, <1>2, <1>3, <1>4, <1>5, <1>6, <1>7, <1>8, <1>9 DEF Next, Graham, PruneStep

\* Every step of the voice notes is a step of Recording or leaves it as it is.
LEMMA NextPromise == TInv /\ TInv' /\ Inv /\ [Next]_vars => Promise!Next
  <1> SUFFICES ASSUME TInv, TInv', Inv, [Next]_vars PROVE Promise!Next
    OBVIOUS
  <1>1. Promise!Gain
    BY GroundsGain DEF Promise!Gain
  <1>2. CASE Notes = {}
    BY <1>1, <1>2 DEF Promise!Next
  <1>3. CASE Notes # {}
    <2> PICK m \in Notes : RecStep(m) /\ \A n \in Notes \ {m} : RecOf(n)' = RecOf(n)
      BY <1>3, OneRecording
    <2>1. CASE RecOf(m)' = RecOf(m)
      BY <1>1, <2>1 DEF Promise!Next
    <2>2. CASE RecOf(m) = "none" /\ RecOf(m)' = "kept"
      BY <1>1, <2>2 DEF Promise!Next, Promise!Keep
    <2>3. CASE RecOf(m) = "kept" /\ RecOf(m)' = "gone" /\ GroundsOf(m)' # {}
      BY <1>1, <2>3 DEF Promise!Next, Promise!LetGo
    <2> QED
      BY <2>1, <2>2, <2>3 DEF RecStep
  <1> QED
    BY <1>2, <1>3

\* Voice notes implement Recording: rows, files, requests, prunes, sweeps and crashes together
\* let a recording go only when there is a ground for it.
THEOREM RecordingsAreKept == Spec => KeepsUntilGround
  <1>1. TInv /\ TInv' /\ Inv /\ [Next]_vars => [Promise!Next]_(Promise!vars)
    BY NextPromise
  <1> QED
    BY <1>1, InitPromise, TInvAlways, InvAlways, PTL DEF Spec, KeepsUntilGround, Promise!Safety
=============================================================================
