# A TLA+ model of hopper-dashboard

hopper-dashboard watches backups, containers, disks and background workers on two
machines, shows them on a board and pages a phone through ntfy when one of them has been
broken for too long. It also keeps an Inbox: notes, voice notes and mirrored GitHub issues.
This directory holds TLA+ modules translated from its source, TLC configurations that
check them on small instances and TLAPS proofs of what holds for every instance.

## 1. The system

| part | source | state | operations |
| --- | --- | --- | --- |
| registry | `dashboard/registry.py` | none after start | resolves `jobs.yml` into jobs with a threshold, a cadence, a kind |
| store | `dashboard/db.py` | `dashboard.db`: jobs, runs, probes, metrics, `state_changes` | one `BEGIN IMMEDIATE` transaction per pass |
| job state | `dashboard/state.py` | none | `compute_state`: facts of a job to one of six states |
| alert episodes | `dashboard/services.py` | alert columns of `jobs`, `_alert_attempted` in memory | recompute pass, page, escalate, recover, hand back |
| notifier | `dashboard/notify.py` | none | one POST per push, no queue |
| scheduler | `dashboard/scheduler.py` | four `last_*` times in memory | tick, probe cycle, issue mirror, audio prune |
| probe cycle | `services.py`, `dashboard/probes.py` | probe rows | lists destinations within a budget, damps flapping |
| ingest | `dashboard/ingest.py`, `web.py` | none | validates a ping, records it, runs a pass |
| inbox store | `dashboard/inbox_db.py`, `inbox.py` | `inbox.db`: items, drafts, mirror rows, ETags | notes, edits, filing, archiving |
| issue mirror | `dashboard/github_mirror.py` | ETags and mirrored issues | lists open issues, closes what is absent |
| voice notes | `dashboard/inbox_audio.py` | audio files beside the rows | upload, stream, prune, sweep |
| workers | `probes/inbox_transcribe.py`, `inbox_draft.py` | attempt counters | transcribe and draft on the Mac, post back |
| machine probes | `probes/*.py` | none | collect and ping |
| backup | `deploy/box/backup.sh` | snapshot, state files | snapshot, verify, upload, record |

Threads: the ingest process has one scheduler thread and several gunicorn threads, and
every one of them runs recompute passes. A pass is one transaction; what it decided is
POSTed after the commit, up to five seconds per push, and a page that did not land is
handed back in a second transaction. Nothing but the rows connects the three steps, so
everything that is hard about alerting happens between them: another thread's pass, a
restart, a lost answer, a clock that was read before a probe cycle of several minutes.
`PROJECT.json` lists these hazards at their lines.

## 2. Modules

| module | models | state |
| --- | --- | --- |
| `AlertPolicy` | the rules as operators: durations, ranks, the bar, cooldown, hold, the readings of the transition log | constants only |
| `AlertEpisodes` | the jobs table under recompute passes, the sends and hand-backs of each thread, restarts and the clock | see below |
| `TransitionLog` | `state_changes` of one job next to the timeline that really happened, on a clock that may be stepped back and forward | wall clock, rows, truth |
| `JobState` | `state.py`: facts of a job to its state, for every kind | constants only |
| `ProbeCycle` (extends `JobState`) | the scheduler thread, probe cycles and their verdict, heartbeats, the board recomputed from what is stored | see below |
| `InboxNotes` | notes as far as closing and reopening goes: create, review, hand close and reopen, `closed_by` | note rows, what was last decided by hand |
| `IssueMirror` (extends `InboxNotes`) | links to issues, mirrored rows, the scans of `github_mirror` and the boot repairs | see below |
| `BacklogMirror` (extends `InboxNotes`) | backlog.txt, its pushes from the Mac, filing, and the rule on filed notes, composed with the issues rule on the same note | see below |
| `VoiceNotes` | rows, audio files, uploads, the transcription worker, prune and sweep | see below |
| `Recording` | what `VoiceNotes` promises about a recording, without rows, files or requests | recordings, grounds |
| `Drafts` | draft columns, PATCHes and transcripts that race the drafting worker, its breaker and state file | see below |
| `MCAlerts`, `MCTransitionLog`, `MCProbes`, `MCIssues`, `MCBacklog`, `MCVoice`, `MCDrafts` | instances for TLC | |
| `AlertEpisodesProofs`, `TransitionLogProofs`, `ProbeCycleProofs`, `IssueMirrorProofs`, `BacklogMirrorProofs`, `VoiceNotesProofs`, `DraftsProofs` | TLAPS proofs about the module they are named after | |
| `OrderFacts` | facts on least and greatest elements and on counting that the proofs share | |

`AlertEpisodes` keeps `row[j]` (state, since and the four alert columns), `log[j]`
(`state_changes`), `attempted` (`Core._alert_attempted`), the clock, and per thread where
it stands (`pc`), the reading it works with (`read`), the passes its entry point still has
to run (`todo`), the intents still to be sent (`queue`) and the pages that failed
(`unsent`). `sent` is a history of what reached the phone. Its actions:

| action | code |
| --- | --- |
| `Enter` | `Scheduler.step` or a ping begins and reads the clock |
| `RecomputePass` | `_recompute_pass` with `_resolve_alerts` and `_page`, committed |
| `RecomputeFails` | the same with its transaction rolled back: the tries it had noted stay in memory, the thread goes on |
| `Dispatch` | one iteration of `_dispatch`: delivered, refused, or delivered with the answer lost |
| `ReturnUnsentPages`, `ReturnUnsentFails` | `_return_unsent_pages`, and its transaction failing |
| `Advance`, `ClockBack`, `Restart` | time, a clock step, the process dying |

A pass takes the verdict of `compute_state` for each job as an input from `Verdicts[j]`,
with the two flags an `Episode` carries. `to_iso` drops what is below a second; `AlertsThreads`
has a clock of half seconds (`ISO_S = 2`), so that two readings fall into one stored second;
the other instances count whole seconds, and the proofs hold for every `ISO_S`. The log of
`TransitionLog` is stamped in stored seconds, on which `to_iso` is exact.

`IssueMirror` keeps the store (`link[n][i]`: `inbox_issues.state`; `mirror[i]`: the mirrored
row of an issue and whether it is archived; `etag[r]`), GitHub (`upstream`, the open
issues), the configuration (`watched`), the sync of the scheduler thread (`todo`, the `scan`
in flight, `backoff`) and the deletes in flight. The content of an issue is left out, and an
ETag is the first page of the listing it was given for, which is what the server compares:
the model answers 304 at least as often as GitHub does. Pull requests, which the code
filters out of every page, are not in the listing. Its actions:

| action | code |
| --- | --- |
| `Upstream` | an issue is opened, closed or reopened on GitHub |
| `Create`, `PatchReviewed`, `PatchState` | `create_item`, `patch_item` with `update_item` |
| `link_issue` | `post_issues`, one transaction |
| `DeleteRead`, `DeleteRow`, `DeleteForget` | `delete_item`, three autocommitted statements |
| `SyncStart` | `sync` begins: `archive_unwatched`, which may fail |
| `ScanBegin`, `ScanPage`, `ScanUnchanged`, `ScanTruncated`, `ScanFails`, `ScanBackoff` | `_sync_repo` up to the end of the listing |
| `ScanCommit` | its transaction, whole |
| `Boot` | a restart, perhaps with another `INBOX_GITHUB_REPOS`: `startup_repairs` |

`agreed`, `paged`, `slipped` and `hand` are history: which scan vouches for which
repository, whether a repository outgrew the first page, which link a delete dropped
unread, and what was last decided by hand. No guard and no assignment to the store reads them.

### ProbeCycle

`facts[j]` is what `gather_facts` reads of a job (newest run, metrics, newest probe row),
`hist[j]` what the older probe rows say (streak, age of the newest success, order of
probing), `state` the column of the jobs table, `failed` a history flag (a transaction failed
or the process restarted since the last tick), `sched` the scheduler thread with the
results of a cycle that it has not written yet, `last_probe` its clock. Times are ages that
stop counting past the last limit they are compared with, so the model runs for ever and
still is finite. `board` chooses the registry at the start.

| action | code |
| --- | --- |
| `Heartbeat`, `BackupReports` | `record_ping`: run and metrics stored, the board recomputed |
| `StepProbe`, `StepTick` | `Scheduler.step` takes the probe branch or the tick branch |
| `probe_job`, `ProbeReturns` | state files read, then the listing: it answers, fails, or is killed at its timeout |
| `CycleEnd`, `recompute_all` | the cycle's transaction (rows, verdict, own run), then the pass |
| `StepFails` | either transaction fails: `step` logs it and goes on |
| `InboxDone` | the GitHub sync and the prune on the same thread |
| `Change`, `BackupPush`, `BackupDies` | external: the database that is backed up and its script, which may skip a push or record one that never arrives |
| `Restart`, `Tick` | memory is lost; one `TICK_INTERVAL_S` passes |

A metric is reduced to what its kind is judged by (`good`, `bad`, `other`); a run that was
skipped counts as a success in the code and is not told apart from an ok one.

### BacklogMirror

`file` is backlog.txt, `mirror` the rows keyed on its lines, `filed`, `absent` and `filing`
the columns and the request of filing, `push` the request the Mac is busy with and `late`
one it has given up on. A line is its own key: marking it done or rewording it makes another
line, as in `normalise_backlog_key`. A line is live, archived or was never there; its tag and
whether it is done are `TagOf` and `IsDone`. The Mac always sends complete pushes, so the
branch for partial ones is not modelled. Notes start reviewed, because how they become so
is the business of `Drafts`. `issue` is the state of one link, so that the issues rule and
the backlog rule work on the same row. `bound` and `hand` are history.

| action | code |
| --- | --- |
| `Edit` | the file changes on the Mac, also between a read and its push |
| `ReadWhole`, `ReadTruncated` | `read_backlog`: all of it, or a part that still parses |
| `Answered`, `Unanswered`, `Lost`, `TimesOut`, `LateLands` | `api_request` and `mirror_backlog` with `apply_backlog_push`, one transaction |
| `FileCheck`, `mark_filed_backlog` | `post_filed_backlog`, two statements |
| `PatchState`, `Delete`, `link_issue`, `IssueTransition` | hand decisions and the other rule |

### VoiceNotes and Recording

`inbox_db` connections are in autocommit mode, on which `with conn:` is no transaction, so
each statement and each unlink is an action: `SaveBegin`, `SaveReplace`, `InsertRow`,
`ReadBack` for an upload, with `InsertFails` and `ReadBackFails` for the two statements that
can fail in its `try`; `DeleteRow`, `DeleteFile`; `AttemptRead`, `AttemptWrite` for a failure report;
`PruneBegins` to `PruneEnds` for `prune_audio` with its reconciliation and `sweep_orphans`.
The worker takes the queue, posts a transcript or a failure report for each note and waits;
its POSTs (`reqs`) may be lost, be handled late or lose their answer, and it may die.

`Recording` states the promise: a recording is kept until there is a ground to let it go
(no note owns it, it is transcribed and reviewed and past retention, or it is past the
ceiling), and from then on it does go. `KeepsUntilGround` is its safety part and
`GoesOnGround` its liveness, both under a mapping computed from files, rows, ages and
history. The fourth ground, `slipped`, stands for two paths on which the code itself loses a
recording, both around the row of an upload. A file that was written before a prune read its
clock and whose row is committed after the prune read the rows is swept: `_in_flight` protects
only files newer than the prune's clock. And `create_item` removes the file of a committed row
when reading that row back fails (observations, below).

### Drafts

`row[n]` has the columns of a draft; a body is a number, a title is derived, by hand, or
drafted from the body of that number, so a stale copy can be told. `patch` and `text` are a
PATCH and a transcript between their reads and their write (a PATCH reads twice: `PatchRead` in
`patch_item` decides whether it is allowed, `UpdateRead` in `update_item` what it writes); the write of a PATCH is
conditional as in `update_item`, that of a transcript is not. `worker` is `run_drafting`:
what is left of the batch (`todo`), failures held until drafting is known to work (`held`),
reports to be sent (`due`), and the breaker; `saved` is its state file.

## 3. Runs

One unit of time is about five minutes in the alert runs; the durations keep the order they
have in `services.py`: retry spacing and dwell are the shortest, then the threshold, the
accumulator's window and the cooldown.

| run | instance | shows |
| --- | --- | --- |
| `AlertsSequential` | one job (OK in all three ways, BEHIND, FAIL), scheduler only, failing POSTs and lost answers, rows from before an upgrade, eight ticks | `TypeOK`, `StampIsSpokenFor`, `PagesCooldownApart`, `OnePagePerRank`, `NoSilentOutage`, `EpisodesEnd`, `NeverEndsUnpaged` |
| `AlertsMachine` | a machine's probe job and a sibling, nine ticks, cooldown six | `NoSilentOutage` with the machine-offline rule at work |
| `AlertsThreads` | scheduler and a gunicorn thread, passes that roll back, restarts, eight half seconds | `PagesCooldownApart`, `OnePagePerRank`, `OneSenderPerPage` under interleaving |
| `AlertsAnyOrder` | both threads, probe cycle plus heartbeat in one step, all faults but lost answers | `EpisodeShape` |
| `FindCooldownLost` | one thread, no fault, probe cycle plus heartbeat in one step | refutes `PagesCooldownApart` |
| `LogReadings` | every five-second timeline over three states, up to two clock steps, back or forward | `NotOkExact`, `NotOkCeiling`, `NotInvented`, `LastNonOkMonotone` |
| `Probes` | nine boards: three destinations sharing one budget, a backup with and without sha, one job of every other kind | `TypeOK`, `NoStarvation`, `OutageIsReported`, `SilenceIsSeen`, `UnsavedIsSeen` |
| `IssuesPages` | one note, one repository that may be unwatched, two issues, one per page, at most two pages | `TypeOK`, `OneCard`, `NoteFollowsIssues`, `HandDecisionsStick`, `ScanSettlesBoard` |
| `Backlog` | one note, its line open and done, a line of nobody, two edits, one repeat of a push | `TypeOK`, `HandDecisionsStick`, `NoteFollowsLine`, `BoardCatchesUp` |
| `VoiceNotes` | one note, two attempts, two POSTs at a time, every fault | `TypeOK`, `WordsSurvive`, `KeepsUntilGround`, `GoesOnGround`, `PendingSettles` |
| `Drafts` | two notes, one of them with two bodies and one sometimes too slow, one PATCH, one fault, three attempts | `TypeOK`, `HandsOff`, `TickCopiesTheDraft`, `QueueDrains` |
| `FindEmptyDestination` | a backup whose destination starts empty | refutes `SkippedPushIsSeen` |

Bounds. In the alert runs `MaxClock` leaves room for an episode to open, cross its
threshold, page, close, and for a second one to run into the first one's cooldown; `MaxLog`
bounds the transitions of a job; `TICK_GAP` is how far the clock outruns the scheduler (one
tick interval) and `READING_AGE` how old a reading is when its transaction begins. At the
horizon the clock stops and the scheduler goes on stepping, so no run deadlocks.

The issue run, `Probes` and `VoiceNotes` have no counters that end them: their state spaces
are finite and TLC exhausts them, so sequences of any length are covered. Two issues on pages
of one make every kind of listing: empty, torn by a change between the pages, ending at a
page boundary, and truncated. `Probes` has limits of one or two ticks, so that every age is
reached on both sides of its limit, a timeout of half a cycle, so that a budget really runs
out, and a job with an interval longer than a cycle, so that it is not always due.
`VoiceNotes` has no repeats inside `api_request` (`HTTP_RETRIES = 0`): two POSTs in flight,
of one run or of two, already interleave in the way a repeat and its original do.
`Backlog` allows two edits: away from a line and back. Two notes in `Drafts` are what the
breaker needs; three attempts and three trips are the values of the code.

Deadlock is not checked where the system may rest: a deleted note, a drained queue, an
unedited file.

### Fairness

* `ProbeCycle`: weak fairness of the scheduler thread (its loop catches every exception, and
  a listing is killed at its timeout) and of time; restarts and failing transactions stop at
  some time (`<>[]~failed`). That is said of the flag and not of the actions, because a failed
  recompute and one that finds nothing to change are the same pair of states, and a board that
  no longer changes is just where an outage or a silence must show. Nothing is assumed of heartbeats, of the backup script or of how listings end.
* `BacklogMirror`: launchd starts the probe again and again (`ReadWhole`), the network lets a
  push through now and then (strong fairness of `Answered`), a request in the server's hands
  ends, and reads are not truncated for ever. Nothing is assumed of edits and of Graham.
* `VoiceNotes`: an upload ends, time passes, the prune goes on, and
  neither a restart nor a failing unlink hits the same step for ever. The worker is not fair
  at all: `PendingSettles` and the end of a recording do not depend on the Mac.
* `Drafts`: launchd starts the worker again and a run goes on; a request that has read writes.

The alert modules assume no fairness: "the outage does not stay silent" and "the episode
ends" are bounds on the clock (`NoSilentOutage`, `EpisodesEnd`), which is what the code
promises and stronger than an eventuality; `ScanSettlesBoard` likewise says that one
undisturbed scan is enough. What the scheduling guarantees is in `Advance`: time does not
run more than `TICK_GAP` ahead of the scheduler thread.

### The refuted properties

`FindCooldownLost`: `Scheduler.step` reads the clock once. Its probe cycle stamps what it
pages with the cycle's end; the GitHub mirror that runs after it records its heartbeat with
the reading from before the cycle, and that pass takes the page's `last_paged_at` for one
from the future, heals it to NULL and with it the cooldown (`services.py:492`, `:1073`). The
next episode pages inside it. `DESIGN.md:1072` promises that after a page the next one waits
for the cooldown, "persisted in `jobs.last_paged_at`". `CooldownHolds` (section 4) shows that
this order of passes and a clock that goes back are the only ways for one thread to lose it.

`FindEmptyDestination`: a `db_snapshot` whose pushes are skipped from the first day has an
empty destination. Listing it succeeds and finds no newest object, `db_snapshot_stale` takes
that for "cannot judge", the card is OK on the strength of the heartbeat and the probe counts
as a success, for ever. `DEPLOY.md:1522` names the destination probe as what catches skipped
pushes. `UnsavedIsSeen` is the same property for a destination that holds some object.

### Observations

Behaviours TLC shows that no property above forbids. Each was found as a counterexample to a
stronger property.

Alerting:
* An escalation decided while the first page's POST is failing remembers the undelivered
  stamp as the pair to restore; when both POSTs fail, the row reads as paged with nothing on
  the phone. `StampIsSpokenFor` is therefore stated for one thread.
* A page whose POST fails in the pass that closes its episode is not handed back: `bad_since`
  is gone, and the next episode starts inside a cooldown nobody was paged for. In the same
  batch the recovery is sent whatever became of the page.
* Two threads whose POSTs fail in one whole second can erase an escalation's stamp: the
  hand-back of the first page compares stamps of that second. `OnePagePerRank` is therefore
  checked with failing POSTs for one thread and without them for two.
* When readings overtake each other (`READING_AGE` above 0) two threads can each hold a page
  of the same kind for one episode; `OneSenderPerPage` is checked for readings in order.
* A page held back by the cooldown is gone when the job serves its dwell first; hence the
  cooldown among what `NeverEndsUnpaged` excuses. `services.py:232` says the cooldown "can
  never cancel one".
* `db.py:610` says that a sawtooth clock can inflate the accumulator. Steps back alone never
  do (`NotInvented`): it takes a step forward as well.
* A recovery is suppressed when the machine's probe goes LATE in the pass that would announce
  it. `last_non_ok_state` orders by `changed_at`, so `LastNonOkMonotone` needs a clock that was
  never stepped.

Board:
* A matching sha vouches for a push through the script's own state file: content whose push
  was recorded and never arrived is not seen if the heartbeat carries the sha (`Unsaved`
  is defined accordingly).
* A gauge is as old as the newest metric of its job, whatever that metric is.

Issues and backlog:
* `ScanSettlesBoard` has two exceptions: a 304 although page two changed (`DESIGN.md` G-25),
  and a link made while `delete_item` is between reading the note's repositories and the
  DELETE, followed by a whole scan: that ETag is forgotten only by the next boot.
* A push whose answer is lost is repeated by `api_request`, so one truncated read can be
  applied twice and count as the two pushes that close a note. `inbox_db.py:1095` says that
  one truncated read closes nothing. The next whole push reopens the note.
* A note reopened by hand although its line is done is closed again when a truncated read
  misses the line and the next read finds it: done then looks new.
* The issues rule can reopen a note whose line is done; the backlog rule sees no edge and
  the note stays open. `post_filed_backlog` fails with an error if the note is deleted between
  its check and its write.

Notes:
* The `try` around the INSERT of a voice note also holds the `get_item` after it
  (`inbox.py:548`). The INSERT is committed by then, and when that read fails the handler deletes
  the recording (`:552`): the note stays, below the ceiling, with nothing to transcribe. The
  comment there means files without a row. `slipped`, without which `WordsSurvive` and
  `KeepsUntilGround` fail.
* `note_transcribe_attempt` writes back the status it read. Over a prune it leaves "pending"
  on a note without audio (`clobbered`, the exception in `PendingSettles`); over a transcript
  it puts the old status, and the note is transcribed again.
* A failure report that is repeated by `api_request` counts twice.
* A transcript written from an old read takes back a title that became manual meanwhile,
  though `set_transcript` says "a machine must never take it back".
* `note_draft_attempt` is not conditional on the body: a final report checked against an old
  transcript gives the new one up unread.
* Two notes for which claude is too slow in turn keep the two-run rule from ever counting;
  `QueueDrains` is checked with one such note.

## 4. Proofs

Every theorem below holds for all values of the constants that satisfy the named assumptions
of the modules (`RegistryAssumption`, `BoardAssumption`, ...), which TLC evaluates in the
runs: any jobs, destinations, notes, lines, issues, threads, durations, limits and faults,
unless the theorem names a further hypothesis.

### Alert episodes (`AlertEpisodesProofs`)

* `TypeCorrect`, `EpisodesWellShaped`: `TypeOK` and `EpisodeShape`. Neither is inductive alone:
  a hand-back writes the pair an intent remembered when it was decided, so the shape of rows
  rests on the shape of every queued and unsent intent, and that on the shape of the row the
  intent was taken from. `IInv == TypeOK /\ EpisodeShape` is inductive.
* `StampsAreSpokenFor` under `OneReliableThread` (only the scheduler runs passes, ntfy is
  configured, no restart and no failing hand-back; passes may roll back): `StampIsSpokenFor`. `SInv` adds that an
  intent in flight names the row's own stamp or an episode that is over, and that the pair it
  would restore is itself delivered. The observations above say why the thread assumption is
  needed; a restart between commit and POST is why that one is.
* `CooldownHolds` under `InOrderReadings` (one thread, a clock that is not stepped back, a probe
  cycle only as the last pass of a step, cooldowns of whole seconds): `PagesCooldownApart`,
  with failing POSTs, lost answers, failing passes and hand-backs and restarts anywhere. `CInv` says that
  every known page is stamped no later than `last_paged_at`, and no later than what a page in
  flight would put back there; that no stamp is ahead of the oldest reading a later pass can
  have, so nothing is healed away; and that the page of an open episode is a cooldown after
  the first pages of other episodes, which is what an escalation, exempt from the cooldown,
  inherits. Stamps are whole seconds and so are cooldowns: rounding a reading down cannot
  bring a page inside one (`WholeSecondsKeep`). The run `FindCooldownLost` drops one
  hypothesis, the place of the probe cycle, and the property with it.
* `EpisodesAlwaysEnd` under `SteadyClock` (no clock step, no restart, no pass that rolls back,
  holds longer than a reading is old): `EpisodesEnd`, for any set of threads. `EInv` bounds how far the scheduler's
  reading is past the start of an OK that still has its episode.
* `EpisodesNeverEndUnpaged`: the action property `NeverEndsUnpaged`, without any hypothesis.
* `PagesOncePerRank`, `PagesHaveOneSender` under `DistinctPages` and `StaysHeardFrom`:
  `OnePagePerRank` and `OneSenderPerPage`. An episode is named by the second it began in, so the
  proof has to know that two episodes of a job never share it: an OK ends one only after a dwell
  of at least a second (`ISO_S <= ok_dwell_s(j)`; the code's dwells are minutes), and
  `StaysHeardFrom` says that no verdict drops one by calling a job UNKNOWN that has been heard
  from. `compute_state` says so of a job without a run (`state.py:428`, `:493`), and of a disk gauge
  registered a short while ago whose metrics lack the figure (`:456`): a gauge that was FAIL or
  OK and then reports no figure within that grace is outside the theorem. The readings are
  those of one thread whose probe cycle is the last pass of its step (with failing POSTs, lost
  answers, failing passes and hand-backs and restarts), or those of any number of threads that use them
  before the clock moves on, where POSTs do not fail: the observations above are the
  counterexamples without each. `RInv` says that the row answers for every page of its open
  episode that was acknowledged or is on its way (`Covers`: a stamp no earlier, a rank no
  lower), that no page of a closed episode can meet a new one of the same name (`Over`), that
  what a hand-back restores still answers for the acknowledged pages, and that any two pages of
  an episode are a first page and its escalation (`Ranked`).
* `NoOutageStaysSilent` under `SteadyScheduler` (the hypotheses of `CooldownHolds`, no restart, no
  pass that rolls back, thresholds of whole seconds, a retry spacing above zero, and for rows of an older version a
  threshold above zero): `NoSilentOutage`, whichever POSTs, answers and hand-backs fail.
  A restart forgets `_alert_attempted`, so a job whose page was just handed back is unaccounted
  for until the next pass. `OInv` says that at some reading `at`, two tick gaps ago at most, a
  pass accounted for every job that was due at `at` (`HeardAt`): paged at its rank, tried within
  the retry spacing, or spoken for by a probe job that itself was paged, tried or not due yet.
  It adds that an episode began no later than the run of broken states the log ends with
  (`SpansRun`), so that whoever is past the threshold by the log is past it by `bad_since`, and
  that a page in flight was tried at `at` (`TriedLast`), so that its hand-back leaves a try
  behind. The probe job of a machine is never itself suppressed (`ProbeOnMachine`): the
  machine-offline rule cannot send the question round in a circle.

### Transition log (`TransitionLogProofs`)

`not_ok_seconds` is a recursive walk over the rows. That its recursive function exists is
proved with a least counterexample (`Least` in `OrderFacts`), and so is what it computes.

* `CeilingHolds`: `NotOkCeiling`, whatever the clock does: after any number of rows the sum is
  at most the distance from the end of the window.
* `ExactWhenMonotone`: `NotOkExact`, for logs that fit `BAD_SCAN_LIMIT`. `LInv`: on a clock that
  was never stepped the stamps ascend and every real second is covered by the row in force.
* `EpisodesAreNamedRight`: `LastNonOkMonotone`, from the same invariant.
* `NothingInvented`: `NotInvented`. `PInv`: the rows cut the real timeline into spans, in order,
  each at least as long as the difference of the stamps around it, which only a step forward
  could break. The walk, skipping what is out of order, then charges each row at most its span.

### Probe cycle (`ProbeCycleProofs`)

* `TypeCorrect`: `TypeOK`, and that a cycle stops within its budget and one timeout.
* `NoDestinationStarves`: `NoStarvation`. A job that was left out precedes in the next order every
  job probed since (`CycleInv`), so it is left out no more often than there are jobs probed
  later than it (`DeferInv`), which are fewer than the probed jobs.

### Inbox

* `IssueMirrorProofs`: `TypeCorrect`; `OneCardAlways` (whoever makes a link archives the row in the
  same transaction, whoever revives a row checks the links in its own);
  `NotesFollowTheirIssues` and `HandDecisionsStand`. The rule can reopen only what `closed_by`
  says it closed, and a hand reopen stands only because the listing in flight does not contain
  the note's issues: `NoteInv` adds both, and that a note without a row has no links.
  `ScansSettleTheBoard`: `ScanSettlesBoard`. `BoardInv` follows a listing page by page: what has
  been listed and what is still to come contain every issue that stayed open since the scan
  began (`ListingInv`, by counting positions: `NthFromTop`), and the repository a scan vouches for
  matches its ETag, its rows and its links until somebody disturbs it (`VouchInv`). The proof
  corrected the history variable `paged`: a repository whose listing exceeds one page from the
  start counts as outgrown, as one that grew later does, until a quiet scan stores its ETag.
* `BacklogMirrorProofs`: `TypeCorrect`, `HandDecisionsStand`, `NotesFollowTheirLine`. `CalmInv` says
  that nothing under way disagrees with the file about the lines of a note that was reopened
  by hand, neither the rows, nor the push, nor a late one; `BoundInv` ties a note to the status
  of its lines, to `closed_by` and to the count of pushes that missed it.
* `VoiceNotesProofs`: `TypeCorrect`, `WordsAlwaysSurvive` and `RecordingsAreKept`, the safety half of
  the refinement: the initial states map to initial states of `Recording`, and every step to a
  step or a stutter of it. Both hold with failing statements, up to `slipped`, whose two ways in
  are `SweepRemove` and `ReadBackFails`. `Inv` relates upload, row, file and prune of each note, and says what
  a request remembers of a row (`SeenInv`) and what a prune's list may contain (`PruneInv`).
* `DraftsProofs`: `TypeCorrect`, and the action properties `DraftsAreGrahams` (`HandsOff`) and
  `TicksCopyWhatIsThere` (`TickCopiesTheDraft`). The types need `WorkerInv`: the batch, what is
  held and what is due stay within `LIMIT`, because failures are moved and never copied.

### Model-checked only

* Every property under fairness (`GoesOnGround`, `PendingSettles`, `BoardCatchesUp`, `QueueDrains`,
  `OutageIsReported`, `SilenceIsSeen`, `UnsavedIsSeen`): the prover has no rules for fairness.

Every safety property of a passing run is stated by a theorem. Where a theorem has a further
hypothesis the runs satisfy it, with one exception: `PagesCooldownApart` with a second thread is
checked in `AlertsThreads` only.

## 5. What is left

Worth proving next: `PagesCooldownApart` and `NoSilentOutage` for several threads, which need a
bound on how far readings overtake each other, and the refinement of `ProbeCycle`'s three
eventualities to bounds on the clock, which would bring them within the prover's reach.

Not modelled, and why:

* `deploy/box/backup.sh` and its verifier: shell outside the process; its visible effects are the
  external actions of `ProbeCycle`.
* password gate and rate limit: they let a request in or refuse it before it reaches the store.
* `web.py`, `views.py`, `hub.py`, templates, `inbox.js`: rendering of what is stored.
* parsing of `jobs.yml`, payloads and tool output, install scripts: no state another step can disturb.
* renaming a note and setting its project; the boot's repair of repository spellings; `db.prune`,
  which keeps the newest 2000 rows of each job, more than the instances ever write.
