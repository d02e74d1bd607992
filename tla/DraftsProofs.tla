----------------------------- MODULE DraftsProofs -----------------------------
(***************************************************************************)
(* Theorems about Drafts, for every queue of notes, every answer of claude *)
(* and every limit.                                                        *)
(***************************************************************************)
EXTENDS Drafts, OrderFacts

-----------------------------------------------------------------------------
(* Rows.                                                                   *)

\* The titles a row can have.
LEMMA Titles == Derived \in Title /\ ByHand \in Title /\ \A b \in Nat \ {0} : From(b) \in Title
  BY DEF Derived, ByHand, From, Title

\* The columns of a row have their types.
LEMMA RowFields ==
    ASSUME NEW r \in Row
    PROVE  /\ r.body \in Nat /\ r.body + 1 \in Nat /\ r.title \in Title
           /\ r.draft_attempts \in Nat /\ r.draft_status \in {"pending", "ready", "failed", NULL}
           /\ 0 \in Nat /\ "pending" \in {"pending", "ready", "failed", NULL}
  BY DEF Row

\* update_item writes a row.
LEMMA UpdatedType ==
    ASSUME NEW kind \in Kinds, NEW seen \in Row, NEW r \in Row
    PROVE  updated(kind, seen, r) \in Row
  <1> USE Titles
  <1>1. CASE kind = "tick"
    BY <1>1 DEF updated, Row
  <1>2. CASE kind = "untick"
    BY <1>2 DEF updated, Row
  <1>3. CASE kind = "edit"
    BY <1>3 DEF updated, Row
  <1>4. CASE kind = "body"
    <2> DEFINE status == IF redraft(seen) THEN "pending" ELSE r.draft_status
               attempts == IF redraft(seen) THEN 0 ELSE r.draft_attempts
    <2>1. status \in {"pending", "ready", "failed", NULL} /\ attempts \in Nat
      BY RowFields
    <2>2. updated(kind, seen, r) = [r EXCEPT !.body = r.body + 1, !.draft_status = status,
                                             !.draft_attempts = attempts]
      BY <1>4 DEF updated
    <2> HIDE DEF status, attempts
    <2> QED
      BY <2>1, <2>2, RowFields DEF Row
  <1> QED
    BY <1>1, <1>2, <1>3, <1>4 DEF Kinds

\* set_transcript writes a row.
LEMMA TranscribedType ==
    ASSUME NEW seen \in Row, NEW r \in Row
    PROVE  Transcribed(seen, r) \in Row
  <1> DEFINE status == IF redraft(seen) THEN "pending" ELSE r.draft_status
             attempts == IF redraft(seen) THEN 0 ELSE r.draft_attempts
             title == IF seen.title_source # "manual" THEN Derived ELSE r.title
  <1>1. /\ status \in {"pending", "ready", "failed", NULL}
        /\ attempts \in Nat /\ title \in Title
    BY RowFields, Titles
  <1>2. Transcribed(seen, r) = [r EXCEPT !.body = r.body + 1, !.draft_status = status,
                                         !.draft_attempts = attempts, !.title = title]
    BY DEF Transcribed
  <1> HIDE DEF status, attempts, title
  <1> QED
    BY <1>1, <1>2, RowFields DEF Row

\* set_draft writes a row.
LEMMA DraftedType ==
    ASSUME NEW r \in Row, NEW sha \in Nat \ {0}
    PROVE  Drafted(r, sha) \in Row
  BY Titles DEF Drafted, Row

\* note_draft_attempt writes a row.
LEMMA CountedType ==
    ASSUME NEW r \in Row, NEW final \in BOOLEAN
    PROVE  Counted(r, final) \in Row
  <1> DEFINE one == r.draft_attempts + 1
             attempts == IF final /\ one < DRAFT_MAX_ATTEMPTS THEN DRAFT_MAX_ATTEMPTS ELSE one
             status == IF attempts >= DRAFT_MAX_ATTEMPTS THEN "failed" ELSE "pending"
  <1>1. attempts \in Nat
    BY DraftAssumption DEF Row
  <1>2. Counted(r, final) = [r EXCEPT !.draft_attempts = attempts, !.draft_status = status]
    BY DEF Counted
  <1>3. status \in {"pending", "ready", "failed", NULL}
    OBVIOUS
  <1> HIDE DEF attempts, status
  <1> QED
    BY <1>1, <1>2, <1>3 DEF Row

-----------------------------------------------------------------------------
(* The queue.                                                              *)

\* The order of the notes is a sequence of them.
LEMMA OrderFact == Order \in Seq(Notes) /\ Len(Order) \in Nat
  BY DraftAssumption

\* What draft_queue answers is a batch of at most LIMIT notes with bodies that are not empty.
LEMMA QueueType ==
    ASSUME row \in [Notes -> Row]
    PROVE  draft_queue \in Seq(Item) /\ Len(draft_queue) <= LIMIT
  <1> DEFINE waiting == {i \in DOMAIN Order : Queued(row[Order[i]])}
             Nth(k) == CHOOSE i \in waiting : Cardinality({j \in waiting : j < i}) = k - 1
             count == Cardinality(waiting)
             size == IF count < LIMIT THEN count ELSE LIMIT
             item(k) == [note |-> Order[Nth(k)], sha |-> row[Order[Nth(k)]].body]
  <1>1. waiting \subseteq Nat /\ \A i \in waiting : i <= Len(Order)
    BY OrderFact
  <1>2. count \in Nat
    BY <1>1, OrderFact, FS_BoundedSetOfNaturals, FS_CardinalityType
  <1>3. size \in Nat /\ size <= LIMIT /\ size <= count
    BY <1>2, DraftAssumption
  <1>4. ASSUME NEW k \in 1..size
        PROVE  item(k) \in Item
    <2>1. k - 1 \in Nat /\ k - 1 < Cardinality(waiting)
      BY <1>2, <1>3
    <2>2. \E i \in waiting : Cardinality({j \in waiting : j < i}) = k - 1
      <3> HIDE DEF waiting
      <3> QED
        BY <2>1, <1>1, OrderFact, NthExists
    <2>3. Nth(k) \in waiting
      BY <2>2
    <2>4. Order[Nth(k)] \in Notes /\ Queued(row[Order[Nth(k)]])
      BY <2>3, OrderFact
    <2>5. row[Order[Nth(k)]] \in Row
      BY <2>4
    <2> HIDE DEF Nth
    <2> QED
      BY <2>4, <2>5 DEF Item, Row, Queued
  <1>5. draft_queue = [k \in 1..size |-> item(k)]
    BY DEF draft_queue
  <1> HIDE DEF size, item
  <1> QED
    BY <1>3, <1>4, <1>5

-----------------------------------------------------------------------------
(* The worker.  Its POST always has an item, and what is held was in the   *)
(* batch: without the second fact the limit on held would not be inductive. *)

WorkerInv ==
    /\ worker \in Worker
    /\ worker.pc = "store" => worker.todo # <<>> /\ worker.due = <<>>
    /\ Len(worker.todo) + Len(worker.held) <= LIMIT
    /\ Len(worker.due) <= LIMIT

SavedType == saved \in [timed_out : Notes \cup {NULL}, breaker_trips : 0..BREAKER_MAX_TRIPS - 1]

\* The limits are numbers, and the ones that must be are not zero.
LEMMA Limits ==
    /\ LIMIT \in Nat /\ LIMIT >= 1 /\ BREAKER_MAX_TRIPS \in Nat /\ BREAKER_MAX_TRIPS >= 1
    /\ HTTP_RETRIES \in Nat /\ MAX_PATCHES \in Nat /\ MAX_FAULTS \in Nat
  BY DraftAssumption

\* The values a run starts with are within the limits.
LEMMA Zero ==
    /\ 0 \in 0..HTTP_RETRIES /\ 0 \in 0..BREAKER_MAX_TRIPS - 1
    /\ <<>> \in Seq(Item) /\ Len(<<>>) = 0
  BY Limits

\* Taking the first item off a queue.
LEMMA HeadTail ==
    ASSUME NEW q \in Seq(Item), q # <<>>
    PROVE  /\ Head(q) \in Item /\ Tail(q) \in Seq(Item) /\ Len(q) \in Nat
           /\ Len(Tail(q)) = Len(q) - 1
  OBVIOUS

\* A worker that is not running holds nothing.
LEMMA IdleInv == Idle \in Worker /\ (worker' = Idle => WorkerInv')
  <1>1. Idle \in Worker
    BY Limits DEF Idle, Worker
  <1>2. Idle.pc = "idle" /\ Idle.todo = <<>> /\ Idle.held = <<>> /\ Idle.due = <<>>
    BY DEF Idle
  <1>3. SUFFICES ASSUME worker' = Idle PROVE WorkerInv'
    BY <1>1
  <1>4. worker' \in Worker'
    BY <1>1, <1>3 DEF Worker, Item
  <1>5. worker'.pc # "store"
    BY <1>2, <1>3
  <1>6. Len(worker'.todo) = 0 /\ Len(worker'.held) = 0 /\ Len(worker'.due) = 0
    BY <1>2, <1>3, Zero
  <1> QED
    BY <1>4, <1>5, <1>6, Limits DEF WorkerInv

\* A run that ends saves numbers within their bounds and holds nothing.
LEMMA EndRunInv ==
    ASSUME NEW timed_out \in Notes \cup {NULL}, NEW trips \in 0..BREAKER_MAX_TRIPS - 1,
           EndRun(timed_out, trips)
    PROVE  WorkerInv' /\ SavedType'
  BY IdleInv DEF EndRun, SavedType

\* A run starts with at most LIMIT items.
LEMMA NewRunInv ==
    ASSUME row \in [Notes -> Row], SavedType, worker' = NewRun(draft_queue)
    PROVE  WorkerInv'
  <1> DEFINE q == draft_queue
  <1>1. q \in Seq(Item) /\ Len(q) <= LIMIT
    BY QueueType
  <1>2. saved.breaker_trips \in 0..BREAKER_MAX_TRIPS - 1
    BY DEF SavedType
  <1> HIDE DEF q
  <1>3. NewRun(q) \in Worker
    BY <1>1, <1>2, Limits DEF NewRun, Worker
  <1>4. /\ NewRun(q).pc = "draft" /\ NewRun(q).todo = q
        /\ NewRun(q).held = <<>> /\ NewRun(q).due = <<>>
    BY DEF NewRun
  <1>5. worker' = NewRun(q)
    BY DEF q
  <1>6. worker' \in Worker'
    BY <1>3, <1>5 DEF Worker, Item
  <1>7. worker'.pc # "store"
    BY <1>4, <1>5
  <1>8. /\ Len(worker'.todo) \in Nat /\ Len(worker'.todo) <= LIMIT
        /\ Len(worker'.held) = 0 /\ Len(worker'.due) = 0
    BY <1>1, <1>4, <1>5, Zero
  <1> QED
    BY <1>6, <1>7, <1>8, Limits DEF WorkerInv

\* What is being posted is an item of the run.
LEMMA PostedItem ==
    ASSUME WorkerInv, Posting
    PROVE  Posted \in Item
  BY HeadTail DEF WorkerInv, Worker, Posting, Posted

\* After a report the next one is due, or the next item is drafted.
LEMMA AfterPostInv ==
    ASSUME WorkerInv, Posting, worker' = AfterPost
    PROVE  WorkerInv'
  <1>1. CASE worker.due # <<>>
    <2>1. worker' = [worker EXCEPT !.due = Tail(worker.due), !.checked = FALSE, !.tries = 0]
      BY <1>1 DEF AfterPost
    <2>2. /\ Tail(worker.due) \in Seq(Item) /\ Len(Tail(worker.due)) = Len(worker.due) - 1
          /\ Len(worker.due) \in Nat
      BY <1>1, HeadTail DEF WorkerInv, Worker
    <2>3. worker' \in Worker
      BY <2>1, <2>2, Zero DEF WorkerInv, Worker
    <2> QED
      BY <1>1, <2>1, <2>2, <2>3, Limits, SMTT(40) DEF WorkerInv, Worker
  <1>2. CASE worker.due = <<>>
    <2>1. worker' = [worker EXCEPT !.pc = "draft", !.todo = Tail(worker.todo),
                                   !.checked = FALSE, !.tries = 0]
      BY <1>2 DEF AfterPost
    <2>2. /\ Tail(worker.todo) \in Seq(Item) /\ Len(Tail(worker.todo)) = Len(worker.todo) - 1
          /\ Len(worker.todo) \in Nat
      BY <1>2, HeadTail DEF WorkerInv, Worker, Posting
    <2>3. worker' \in Worker
      BY <2>1, <2>2, Zero DEF WorkerInv, Worker
    <2>4. Len(worker.held) \in Nat
      BY DEF WorkerInv, Worker
    <2> QED
      BY <2>1, <2>2, <2>3, <2>4, Limits, SMTT(40) DEF WorkerInv, Worker
  <1> QED
    BY <1>1, <1>2

\* After a stored draft the failures that were held are due.
LEMMA AfterStoreInv ==
    ASSUME WorkerInv, worker.pc = "store", worker' = AfterStore
    PROVE  WorkerInv'
  <1>1. worker' = [worker EXCEPT !.pc = "draft", !.todo = Tail(worker.todo), !.checked = FALSE,
                                 !.tries = 0, !.successes = TRUE, !.held = <<>>,
                                 !.due = worker.held]
    BY DEF AfterStore
  <1>2. /\ Tail(worker.todo) \in Seq(Item) /\ Len(Tail(worker.todo)) = Len(worker.todo) - 1
        /\ Len(worker.todo) \in Nat /\ worker.held \in Seq(Item) /\ Len(worker.held) \in Nat
    BY HeadTail DEF WorkerInv, Worker
  <1>3. worker' \in Worker
    BY <1>1, <1>2, Zero DEF WorkerInv, Worker
  <1> QED
    BY <1>1, <1>2, <1>3, Limits, SMTT(40) DEF WorkerInv, Worker

\* A lost POST is repeated or the run ends.
LEMMA LostInv ==
    ASSUME WorkerInv, Posting, Lost
    PROVE  WorkerInv'
  <1>1. CASE worker.tries < HTTP_RETRIES
    <2>1. worker' = [worker EXCEPT !.checked = FALSE, !.tries = worker.tries + 1]
      BY <1>1 DEF Lost
    <2>2. worker.tries + 1 \in 0..HTTP_RETRIES
      BY <1>1, Limits DEF WorkerInv, Worker
    <2>3. worker' \in Worker
      BY <2>1, <2>2 DEF WorkerInv, Worker
    <2> QED
      BY <2>1, <2>3 DEF WorkerInv, Worker
  <1>2. CASE ~(worker.tries < HTTP_RETRIES)
    BY <1>2, AfterPostInv DEF Lost
  <1> QED
    BY <1>1, <1>2

\* A bad answer is held, reported or trips the breaker, and is never in two places.
LEMMA HoldBadInv ==
    ASSUME WorkerInv, Drafting, HoldBad
    PROVE  WorkerInv'
  <1> DEFINE item == Head(worker.todo)
  <1>1. /\ item \in Item /\ Tail(worker.todo) \in Seq(Item) /\ Len(worker.todo) \in Nat
        /\ Len(Tail(worker.todo)) = Len(worker.todo) - 1
        /\ worker.held \in Seq(Item) /\ Len(worker.held) \in Nat
    BY HeadTail DEF WorkerInv, Worker, Drafting
  <1> HIDE DEF item
  <1>2. CASE worker.successes
    <2>1. worker' = [worker EXCEPT !.todo = Tail(worker.todo), !.due = <<item>>]
      BY <1>2 DEF HoldBad, item
    <2>2. <<item>> \in Seq(Item) /\ Len(<<item>>) = 1
      BY <1>1
    <2>3. worker' \in Worker
      BY <2>1, <2>2, <1>1 DEF WorkerInv, Worker
    <2>4. worker.pc = "draft"
      BY DEF Drafting
    <2> QED
      BY <1>1, <2>1, <2>2, <2>3, <2>4, Limits, SMTT(40) DEF WorkerInv, Worker
  <1>3. CASE ~worker.successes
    <2>1. worker' = [worker EXCEPT !.todo = Tail(worker.todo), !.held = Append(worker.held, item)]
      BY <1>3 DEF HoldBad, item
    <2>2. /\ Append(worker.held, item) \in Seq(Item)
          /\ Len(Append(worker.held, item)) = Len(worker.held) + 1
      BY <1>1
    <2>3. worker' \in Worker
      BY <2>1, <2>2, <1>1 DEF WorkerInv, Worker
    <2>4. worker.pc = "draft"
      BY DEF Drafting
    <2> QED
      BY <1>1, <2>1, <2>2, <2>3, <2>4, Limits DEF WorkerInv, Worker
  <1> QED
    BY <1>2, <1>3

-----------------------------------------------------------------------------
(* The inductive invariant of the types.                                   *)

RowType == row \in [Notes -> Row]
RequestType ==
    /\ patch \in {NULL} \cup [note : Notes, kind : Kinds, seen : Row \cup {NULL}]
    /\ text \in {NULL} \cup [note : Notes, seen : Row]
CounterType == patches \in 0..MAX_PATCHES /\ faults \in 0..MAX_FAULTS

TInv == RowType /\ RequestType /\ WorkerInv /\ SavedType /\ CounterType

\* The strengthened types imply the types the run checks.
LEMMA TInvImpliesTypeOK == TInv => TypeOK
  <1> SUFFICES ASSUME TInv PROVE TypeOK
    OBVIOUS
  <1>1. /\ worker.todo \in Seq(Item) /\ Len(worker.todo) \in Nat
        /\ worker.held \in Seq(Item) /\ Len(worker.held) \in Nat
    BY DEF TInv, WorkerInv, Worker
  <1>2. \A q \in {worker.todo, worker.held, worker.due} : Len(q) <= LIMIT
    <2>1. \A a, b \in Nat : a + b <= LIMIT => a <= LIMIT /\ b <= LIMIT
      BY Limits
    <2>2. Len(worker.todo) + Len(worker.held) <= LIMIT /\ Len(worker.due) <= LIMIT
      BY DEF TInv, WorkerInv
    <2>3. Len(worker.todo) <= LIMIT /\ Len(worker.held) <= LIMIT
      BY <1>1, <2>1, <2>2
    <2> QED
      BY <2>2, <2>3
  <1> QED
    BY <1>2 DEF TInv, WorkerInv, RowType, RequestType, SavedType, CounterType, TypeOK

\* The rows, the idle worker and an empty state file.
LEMMA InitTInv == Init => TInv
  <1> SUFFICES ASSUME Init PROVE TInv
    OBVIOUS
  <1>1. RowType
    BY Titles DEF Init, RowType, Row
  <1>2. WorkerInv
    <2>1. worker \in Worker
      BY IdleInv DEF Init
    <2>2. worker.pc = "idle" /\ worker.todo = <<>> /\ worker.held = <<>> /\ worker.due = <<>>
      BY DEF Init, Idle
    <2> QED
      BY <2>1, <2>2, Limits, Zero DEF WorkerInv
  <1>3. SavedType
    BY Zero DEF Init, SavedType
  <1> QED
    BY <1>1, <1>2, <1>3, Limits DEF Init, TInv, RequestType, CounterType

\* A request that was let in names a note, and holds a row once it has read it again.
LEMMA PatchFields ==
    ASSUME RequestType, patch # NULL
    PROVE  /\ patch.note \in Notes /\ patch.kind \in Kinds
           /\ patch.seen # NULL => patch.seen \in Row
  BY DEF RequestType

\* A transcript between read and write names a note and the row it read.
LEMMA TextFields ==
    ASSUME RequestType, text # NULL
    PROVE  text.note \in Notes /\ text.seen \in Row
  BY DEF RequestType

\* set_draft keeps the rows' types.
LEMMA SetDraftType ==
    ASSUME RowType, NEW item \in Item, set_draft(item)
    PROVE  RowType'
  <1>1. item.note \in Notes /\ item.sha \in Nat \ {0}
    BY DEF Item
  <1>2. Drafted(row[item.note], item.sha) \in Row
    BY <1>1, DraftedType DEF RowType
  <1>3. CASE Refused(item)
    BY <1>3 DEF set_draft, RowType, Row
  <1>4. CASE ~Refused(item)
    <2>1. row' = [row EXCEPT ![item.note] = Drafted(row[item.note], item.sha)]
      BY <1>4 DEF set_draft
    <2> QED
      BY <1>1, <1>2, <2>1 DEF RowType, Row
  <1> QED
    BY <1>3, <1>4

\* note_draft_attempt keeps the rows' types.
LEMMA AttemptType ==
    ASSUME RowType, NEW item \in Item, NEW final \in BOOLEAN, note_draft_attempt(item, final)
    PROVE  RowType'
  <1>1. item.note \in Notes
    BY DEF Item
  <1>2. Counted(row[item.note], final) \in Row
    BY <1>1, CountedType DEF RowType
  <1>3. CASE row[item.note].reviewed \/ row[item.note].draft_edited_at
    BY <1>3 DEF note_draft_attempt, RowType, Row
  <1>4. CASE ~(row[item.note].reviewed \/ row[item.note].draft_edited_at)
    <2>1. row' = [row EXCEPT ![item.note] = Counted(row[item.note], final)]
      BY <1>4 DEF note_draft_attempt
    <2> QED
      BY <1>1, <1>2, <2>1 DEF RowType, Row
  <1> QED
    BY <1>3, <1>4

-----------------------------------------------------------------------------
(* The steps, by what they leave alone.                                    *)

\* A step that leaves the rows alone keeps their types.
LEMMA SameRow == RowType /\ row' = row => RowType'
  BY DEF RowType, Row

\* A step that leaves the requests alone keeps their types.
LEMMA SameRequests == RequestType /\ patch' = patch /\ text' = text => RequestType'
  BY DEF RequestType, Row

\* A step that leaves the worker alone keeps its invariant.
LEMMA SameWorker == WorkerInv /\ worker' = worker => WorkerInv'
  BY DEF WorkerInv, Worker

\* A step that leaves the state file alone keeps its type.
LEMMA SameSaved == SavedType /\ saved' = saved => SavedType'
  BY DEF SavedType

\* A step that counts nothing keeps the counters' bounds.
LEMMA SameCounters == CounterType /\ patches' = patches /\ faults' = faults => CounterType'
  BY DEF CounterType

\* A fault is counted below its bound.
LEMMA OneMoreFault ==
    CounterType /\ patches' = patches /\ faults < MAX_FAULTS /\ faults' = faults + 1 => CounterType'
  BY Limits DEF CounterType

\* PATCHes and transcripts, their reads and their writes.
LEMMA RequestsTInv ==
    ASSUME TInv, Graham \/ Transcripts
    PROVE  TInv'
  <1> USE DEF TInv
  <1>1. ASSUME NEW n \in Notes, NEW kind \in Kinds, PatchRead(n, kind)
        PROVE  TInv'
    <2>1. RequestType'
      BY <1>1 DEF PatchRead, RequestType
    <2>2. CounterType'
      BY <1>1, Limits DEF PatchRead, CounterType
    <2> QED
      BY <1>1, <2>1, <2>2, SameRow, SameWorker, SameSaved DEF PatchRead
  <1>1a. ASSUME UpdateRead
         PROVE  TInv'
    <2>1. row[patch.note] \in Row
      BY <1>1a, PatchFields DEF UpdateRead, RowType
    <2>2. RequestType'
      BY <1>1a, <2>1 DEF UpdateRead, RequestType
    <2> QED
      BY <1>1a, <2>2, SameRow, SameWorker, SameSaved, SameCounters DEF UpdateRead
  <1>2. ASSUME PatchWrite
        PROVE  TInv'
    <2>1. patch.note \in Notes /\ patch.kind \in Kinds /\ patch.seen \in Row
      BY <1>2, PatchFields DEF PatchWrite
    <2>2. updated(patch.kind, patch.seen, row[patch.note]) \in Row
      BY <2>1, UpdatedType DEF RowType
    <2>3. RowType'
      <3>1. CASE update_where(patch.kind, patch.seen, row[patch.note])
        BY <1>2, <2>1, <2>2, <3>1 DEF PatchWrite, RowType
      <3>2. CASE ~update_where(patch.kind, patch.seen, row[patch.note])
        BY <1>2, <3>2, SameRow DEF PatchWrite
      <3> QED
        BY <3>1, <3>2
    <2>4. RequestType'
      BY <1>2 DEF PatchWrite, RequestType
    <2> QED
      BY <1>2, <2>3, <2>4, SameWorker, SameSaved, SameCounters DEF PatchWrite
  <1>3. ASSUME NEW n \in Notes, TranscriptRead(n)
        PROVE  TInv'
    <2>1. row[n] \in Row
      BY DEF RowType
    <2>2. RequestType'
      BY <1>3, <2>1 DEF TranscriptRead, RequestType
    <2> QED
      BY <1>3, <2>2, SameRow, SameWorker, SameSaved, SameCounters DEF TranscriptRead
  <1>4. ASSUME TranscriptWrite
        PROVE  TInv'
    <2>1. text.note \in Notes /\ text.seen \in Row
      BY <1>4, TextFields DEF TranscriptWrite
    <2>2. Transcribed(text.seen, row[text.note]) \in Row
      BY <2>1, TranscribedType DEF RowType
    <2>3. RowType'
      BY <1>4, <2>1, <2>2 DEF TranscriptWrite, RowType
    <2>4. RequestType'
      BY <1>4 DEF TranscriptWrite, RequestType
    <2> QED
      BY <1>4, <2>3, <2>4, SameWorker, SameSaved, SameCounters DEF TranscriptWrite
  <1> QED
    BY <1>1, <1>1a, <1>2, <1>3, <1>4 DEF Graham, Transcripts

\* A run of the worker, an outage and its death.
LEMMA WorkerTInv ==
    ASSUME TInv, Run \/ SystemicFailure \/ WorkerDies
    PROVE  TInv'
  <1> USE DEF TInv
  <1> USE SameRow, SameRequests, SameWorker, SameSaved, SameCounters, OneMoreFault
  <1>1. worker.trips \in 0..BREAKER_MAX_TRIPS - 1
    BY DEF WorkerInv, Worker
  <1>2. CASE RunBegins
    BY <1>2, NewRunInv DEF RunBegins, RowType
  <1>3. CASE DraftGood
    <2>1. worker' = [worker EXCEPT !.pc = "store"] /\ worker.todo # <<>> /\ worker.due = <<>>
      BY <1>3 DEF DraftGood, Drafting
    <2>2. WorkerInv'
      BY <2>1 DEF WorkerInv, Worker
    <2> QED
      BY <1>3, <2>2 DEF DraftGood
  <1>4. CASE DraftBad
    BY <1>4, HoldBadInv DEF DraftBad
  <1>5. CASE DraftTimeout
    <2>1. Head(worker.todo).note \in Notes
      BY <1>5, HeadTail DEF DraftTimeout, Drafting, WorkerInv, Worker, Item
    <2>2. WorkerInv' /\ SavedType'
      <3>1. CASE saved.timed_out = Head(worker.todo).note
        BY <1>5, <3>1, HoldBadInv DEF DraftTimeout
      <3>2. CASE saved.timed_out # Head(worker.todo).note
        <4>1. EndRun(Head(worker.todo).note, worker.trips)
          BY <1>5, <3>2 DEF DraftTimeout
        <4> QED
          BY <4>1, <2>1, <1>1, EndRunInv
      <3> QED
        BY <3>1, <3>2
    <2> QED
      BY <1>5, <2>2 DEF DraftTimeout
  <1>6. CASE PostCheck
    <2>1. WorkerInv'
      <3>1. CASE Refused(Posted)
        BY <1>6, <3>1, AfterPostInv DEF PostCheck
      <3>2. CASE ~Refused(Posted)
        <4>1. worker' = [worker EXCEPT !.checked = TRUE]
          BY <1>6, <3>2 DEF PostCheck
        <4> QED
          BY <4>1 DEF WorkerInv, Worker
      <3> QED
        BY <3>1, <3>2
    <2> QED
      BY <1>6, <2>1 DEF PostCheck
  <1>7. CASE StoreDraft
    <2>1. Posting /\ worker.pc = "store" /\ set_draft(Posted)
      BY <1>7 DEF StoreDraft, Posting
    <2>2. RowType'
      BY <2>1, PostedItem, SetDraftType
    <2>3. WorkerInv' /\ CounterType'
      <3>1. CASE Lost
        BY <1>7, <2>1, <3>1, LostInv DEF StoreDraft, Lost
      <3>2. CASE worker' = (IF Refused(Posted) THEN AfterPost ELSE AfterStore) /\ UNCHANGED faults
        BY <1>7, <2>1, <3>2, AfterPostInv, AfterStoreInv DEF StoreDraft
      <3> QED
        BY <1>7, <3>1, <3>2 DEF StoreDraft
    <2> QED
      BY <1>7, <2>2, <2>3 DEF StoreDraft
  <1>8. CASE CountAttempt
    <2>1. Posting /\ note_draft_attempt(Posted, worker.final)
      BY <1>8 DEF CountAttempt, Posting
    <2>2. RowType'
      <3>1. worker.final \in BOOLEAN
        BY DEF WorkerInv, Worker
      <3> QED
        BY <2>1, <3>1, PostedItem, AttemptType
    <2>3. WorkerInv' /\ CounterType'
      <3>1. CASE Lost
        BY <1>8, <2>1, <3>1, LostInv DEF CountAttempt, Lost
      <3>2. CASE worker' = AfterPost /\ UNCHANGED faults
        BY <1>8, <2>1, <3>2, AfterPostInv DEF CountAttempt
      <3> QED
        BY <1>8, <3>1, <3>2 DEF CountAttempt
    <2> QED
      BY <1>8, <2>2, <2>3 DEF CountAttempt
  <1>9. CASE BatchDone
    <2>1. worker.held \in Seq(Item) /\ Len(worker.held) \in Nat /\ Len(worker.todo) \in Nat
      BY DEF WorkerInv, Worker
    <2>2. ASSUME NEW final \in BOOLEAN,
                 worker' = [worker EXCEPT !.pc = "end", !.trips = 0, !.final = final,
                                          !.due = worker.held, !.held = <<>>]
          PROVE  WorkerInv'
      <3>1. worker' \in Worker
        BY <2>1, <2>2, Zero DEF WorkerInv, Worker
      <3> QED
        BY <2>1, <2>2, <3>1, Zero, Limits, SMTT(40) DEF WorkerInv, Worker
    <2>3. CASE EndRun(NULL, worker.trips + 1) /\ ~GivesUp(worker.trips + 1)
      <3>1. worker.trips + 1 \in 0..BREAKER_MAX_TRIPS - 1
        BY <1>1, <2>3, Limits DEF GivesUp
      <3> QED
        BY <1>9, <2>3, <3>1, EndRunInv DEF BatchDone
    <2>4. CASE /\ worker' = [worker EXCEPT !.pc = "end", !.trips = 0, !.final = TRUE,
                                           !.due = worker.held, !.held = <<>>]
               /\ UNCHANGED saved
      BY <1>9, <2>2, <2>4 DEF BatchDone
    <2>5. CASE /\ worker' = [worker EXCEPT !.pc = "end", !.trips = 0,
                                           !.due = worker.held, !.held = <<>>]
               /\ UNCHANGED saved
      <3>1. worker' \in Worker
        BY <2>1, <2>5, Zero DEF WorkerInv, Worker
      <3>2. WorkerInv'
        BY <2>1, <2>5, <3>1, Zero, Limits, SMTT(40) DEF WorkerInv, Worker
      <3> QED
        BY <1>9, <2>5, <3>2 DEF BatchDone
    <2> QED
      BY <1>9, <2>3, <2>4, <2>5 DEF BatchDone
  <1>10. CASE RunEnds
    BY <1>10, <1>1, EndRunInv DEF RunEnds
  <1>11. CASE SystemicFailure
    BY <1>11, <1>1, EndRunInv DEF SystemicFailure
  <1>12. CASE WorkerDies
    BY <1>12, IdleInv DEF WorkerDies
  <1> QED
    BY <1>2, <1>3, <1>4, <1>5, <1>6, <1>7, <1>8, <1>9, <1>10, <1>11, <1>12 DEF Run

\* Every step keeps the types.
LEMMA NextTInv == TInv /\ [Next]_vars => TInv'
  <1> SUFFICES ASSUME TInv, [Next]_vars PROVE TInv'
    OBVIOUS
  <1>1. CASE UNCHANGED vars
    BY <1>1, SameRow, SameRequests, SameWorker, SameSaved, SameCounters DEF vars, TInv
  <1> QED
    BY <1>1, RequestsTInv, WorkerTInv DEF Next

\* The types, for every behaviour.
LEMMA TInvAlways == Spec => []TInv
  BY InitTInv, NextTInv, PTL DEF Spec

\* Rows, requests and the worker keep their types: no order of PATCHes, transcripts, reports,
\* repeats and deaths stores a draft of an empty body, lets a batch outgrow INBOX_DRAFT_LIMIT
\* or carries the breaker's count past the trip that gives up.
THEOREM TypeCorrect == Spec => []TypeOK
  BY TInvAlways, TInvImpliesTypeOK, PTL

-----------------------------------------------------------------------------
(* Whose draft it is.                                                      *)

\* What a step may do to the draft and to the tick of note n.
HandsOffStep(n) ==
    (row[n].reviewed \/ row[n].draft_edited_at) /\ patch' = patch => row'[n].draft = row[n].draft

TickStep(n) ==
    ~row[n].reviewed /\ row'[n].reviewed /\ row'[n].title # row[n].title
        => row'[n].title = row'[n].draft

\* Only a PATCH ticks; set_draft refuses a row that is Graham's.
LEMMA SetDraftStep ==
    ASSUME RowType, NEW item, set_draft(item), NEW n \in Notes
    PROVE  HandsOffStep(n) /\ TickStep(n)
  <1>1. row[n] \in Row
    BY DEF RowType
  <1>2. CASE row'[n] = row[n]
    BY <1>2 DEF HandsOffStep, TickStep
  <1>3. CASE row'[n] # row[n]
    <2>1. n = item.note /\ ~Refused(item) /\ row'[n] = Drafted(row[n], item.sha)
      BY <1>3 DEF set_draft, RowType
    <2>2. ~row[n].reviewed /\ ~row[n].draft_edited_at
      BY <2>1 DEF Refused
    <2>3. row'[n].reviewed = row[n].reviewed
      BY <1>1, <2>1 DEF Drafted, Row
    <2> QED
      BY <2>2, <2>3 DEF HandsOffStep, TickStep
  <1> QED
    BY <1>2, <1>3

\* A failure report touches neither the draft nor the title.
LEMMA AttemptStep ==
    ASSUME RowType, NEW item, NEW final, note_draft_attempt(item, final), NEW n \in Notes
    PROVE  HandsOffStep(n) /\ TickStep(n)
  <1>1. row[n] \in Row
    BY DEF RowType
  <1>2. CASE row'[n] = row[n]
    BY <1>2 DEF HandsOffStep, TickStep
  <1>3. CASE row'[n] # row[n]
    <2>1. row'[n] = Counted(row[n], final)
      BY <1>3 DEF note_draft_attempt, RowType
    <2>2. row'[n].reviewed = row[n].reviewed /\ row'[n].draft = row[n].draft
      BY <1>1, <2>1 DEF Counted, Row
    <2> QED
      BY <2>2 DEF HandsOffStep, TickStep
  <1> QED
    BY <1>2, <1>3

\* A transcript touches neither the draft nor the tick.
LEMMA TranscriptStep ==
    ASSUME RowType, TranscriptWrite, NEW n \in Notes
    PROVE  HandsOffStep(n) /\ TickStep(n)
  <1>1. row[n] \in Row
    BY DEF RowType
  <1>2. CASE row'[n] = row[n]
    BY <1>2 DEF HandsOffStep, TickStep
  <1>3. CASE row'[n] # row[n]
    <2>1. row'[n] = Transcribed(text.seen, row[n])
      BY <1>3 DEF TranscriptWrite, RowType
    <2>2. row'[n].reviewed = row[n].reviewed /\ row'[n].draft = row[n].draft
      BY <1>1, <2>1 DEF Transcribed, Row
    <2> QED
      BY <2>2 DEF HandsOffStep, TickStep
  <1> QED
    BY <1>2, <1>3

\* A tick that copies is conditional on the draft it has seen: what is copied is in the row.
LEMMA PatchStep ==
    ASSUME RowType, RequestType, PatchWrite, NEW n \in Notes
    PROVE  HandsOffStep(n) /\ TickStep(n)
  <1> DEFINE kind == patch.kind
             seen == patch.seen
  <1>1. row[n] \in Row /\ kind \in Kinds /\ seen \in Row
    BY PatchFields DEF RowType, PatchWrite
  <1>2. HandsOffStep(n)
    BY DEF HandsOffStep, PatchWrite
  <1>3. CASE row'[n] = row[n]
    BY <1>2, <1>3 DEF TickStep
  <1>4. CASE row'[n] # row[n]
    <2>1. update_where(kind, seen, row[n]) /\ row'[n] = updated(kind, seen, row[n])
      BY <1>4 DEF PatchWrite, RowType
    <2> HIDE DEF kind, seen
    <2>2. CASE kind = "tick"
      <3> DEFINE copy == ~seen.reviewed /\ seen.draft # NULL /\ seen.title_source # "manual"
      <3>1. row'[n] = [row[n] EXCEPT !.reviewed = TRUE,
                                     !.title = IF copy THEN seen.draft ELSE row[n].title,
                                     !.title_source = IF copy THEN "manual"
                                                      ELSE row[n].title_source]
        BY <2>1, <2>2 DEF updated
      <3>2. row'[n].draft = row[n].draft
        BY <3>1, <1>1 DEF Row
      <3>3. row'[n].title = IF copy THEN seen.draft ELSE row[n].title
        BY <3>1, <1>1 DEF Row
      <3>4. ~seen.reviewed => row[n].draft = seen.draft
        BY <2>1, <2>2 DEF update_where
      <3>5. TickStep(n)
        BY <3>2, <3>3, <3>4 DEF TickStep
      <3> QED
        BY <1>2, <3>5
    <2>3. CASE kind = "untick"
      <3>1. row'[n] = [row[n] EXCEPT !.reviewed = FALSE]
        BY <2>1, <2>3 DEF updated
      <3> QED
        BY <3>1, <1>1, <1>2 DEF TickStep, Row
    <2>4. CASE kind = "edit"
      <3>1. row'[n].reviewed = row[n].reviewed
        BY <2>1, <2>4, <1>1 DEF updated, Row
      <3> QED
        BY <3>1, <1>2 DEF TickStep
    <2>5. CASE kind = "body"
      <3>1. row'[n].reviewed = row[n].reviewed
        BY <2>1, <2>5, <1>1 DEF updated, Row
      <3> QED
        BY <3>1, <1>2 DEF TickStep
    <2> QED
      BY <1>1, <2>2, <2>3, <2>4, <2>5 DEF Kinds
  <1> QED
    BY <1>3, <1>4

\* What every step of the system does to a draft and to a title.
LEMMA EveryStep ==
    ASSUME TInv, [Next]_vars, NEW n \in Notes
    PROVE  HandsOffStep(n) /\ TickStep(n)
  <1> USE DEF TInv
  <1>1. CASE row' = row
    BY <1>1 DEF HandsOffStep, TickStep
  <1>2. CASE PatchWrite
    BY <1>2, PatchStep
  <1>3. CASE TranscriptWrite
    BY <1>3, TranscriptStep
  <1>4. CASE StoreDraft
    BY <1>4, SetDraftStep DEF StoreDraft
  <1>5. CASE CountAttempt
    BY <1>5, AttemptStep DEF CountAttempt
  <1>6. \/ row' = row \/ PatchWrite \/ TranscriptWrite \/ StoreDraft \/ CountAttempt
    BY DEF Next, Graham, Transcripts, Run, vars, PatchRead, UpdateRead, TranscriptRead, RunBegins,
           DraftGood, DraftBad, DraftTimeout, PostCheck, BatchDone, RunEnds, SystemicFailure, WorkerDies
  <1> QED
    BY <1>1, <1>2, <1>3, <1>4, <1>5, <1>6

\* What Graham wrote or reviewed is changed by no post of the worker, however late, often
\* repeated or mixed with transcripts and PATCHes.
THEOREM DraftsAreGrahams == Spec => HandsOff
  <1>1. TInv /\ [Next]_vars
        => [\A n \in Notes : (row[n].reviewed \/ row[n].draft_edited_at) /\ patch' = patch
                             => row'[n].draft = row[n].draft]_vars
    BY EveryStep DEF HandsOffStep
  <1> QED
    BY <1>1, TInvAlways, PTL DEF Spec, HandsOff

\* A tick of Reviewed copies the draft that is in the row when it is written, never one that
\* was replaced after the PATCH had read it.
THEOREM TicksCopyWhatIsThere == Spec => TickCopiesTheDraft
  <1>1. TInv /\ [Next]_vars
        => [\A n \in Notes : ~row[n].reviewed /\ row'[n].reviewed /\ row'[n].title # row[n].title
                             => row'[n].title = row'[n].draft]_vars
    BY EveryStep DEF TickStep
  <1> QED
    BY <1>1, TInvAlways, PTL DEF Spec, TickCopiesTheDraft
=============================================================================
