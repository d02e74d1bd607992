------------------------------ MODULE ProbeCycle ------------------------------
(***************************************************************************)
(* The board: the scheduler's probe cycles over the destinations, the      *)
(* verdict of the dashboard's own job on them, the heartbeats of the other *)
(* jobs, and the state of every job recomputed from what is stored.        *)
(*                                                                         *)
(* One thread does the probing, the recomputing and the Inbox's two jobs;  *)
(* a heartbeat is handled by a request thread and recomputes the whole     *)
(* board.  Probes are serial, a cycle has a budget, its rows are written   *)
(* when it ends, and a restart loses a cycle that has not ended.           *)
(*                                                                         *)
(* Time passes by Tick, one TICK_INTERVAL_S.  Times are kept as ages.      *)
(***************************************************************************)
EXTENDS JobState, FiniteSets, Sequences

CONSTANTS
    Boards,                     \* the registries to consider
    PROBE_INTERVAL,
    RCLONE_TIMEOUT,             \* rclone_timeout_s as configured
    PROBE_FAIL_THRESHOLD,
    PROBE_NO_SUCCESS,           \* 0: no backstop
    INBOX_MAX,                  \* bound: how long GitHub's sync and the prune take a step
    PUSH_SLACK,                 \* the hour in db_snapshot_stale
    EmptyAtFirst,               \* whether the backup's destination starts empty
    MAX_CHANGES                 \* bound: changes of the database that is backed up

Versions == 0..MAX_CHANGES
Outcomes == {"listed", "transient", "hard"}     \* a failure is classified by is_transient_error
Words == {"ok", "fail", "metric"} \X Verdicts
\* A job of jobs.yml: sha says whether its heartbeat carries db_sha256, and words what the
\* feeder of a job that is no db_snapshot may post: a status and what its metrics say; answers:
\* how listing its destination may end.
\* A skipped run counts as a success and is not told apart from an ok one.
Job == [kind : KINDS, probed : BOOLEAN, interval : Nat \cup {NULL}, sha : BOOLEAN, words : SUBSET Words, answers : SUBSET Outcomes]

\* registry.py: a db_snapshot is probed, no oftener than it must be to be judged; the model
\* has the world of one such job.
ASSUME BoardAssumption ==
    /\ \A b \in Boards :
          /\ b \in Seq(Job)
          /\ \A i, j \in DOMAIN b : b[i].kind = "db_snapshot" /\ b[j].kind = "db_snapshot" => i = j
          /\ \A i \in DOMAIN b :
                /\ b[i].kind = "db_snapshot" =>
                      b[i].probed /\ (b[i].interval # NULL => 2 * b[i].interval <= FRESH)
                /\ b[i].probed => b[i].kind \in {"db_snapshot", "rclone_copy_tree", "manual"}
    /\ {PROBE_INTERVAL, RCLONE_TIMEOUT, PROBE_FAIL_THRESHOLD} \subseteq Nat \ {0}
    /\ {PROBE_NO_SUCCESS, INBOX_MAX, PUSH_SLACK, MAX_CHANGES} \subseteq Nat
    /\ EmptyAtFirst \in BOOLEAN /\ NULL \notin ProbeRow(Versions)
    /\ PROBE_NO_SUCCESS < AGE_CAP /\ PUSH_SLACK < AGE_CAP /\ PROBE_INTERVAL <= AGE_CAP
    /\ \A b \in Boards : \A i \in DOMAIN b : b[i].interval # NULL => b[i].interval <= AGE_CAP

VARIABLES
    board,      \* the registry of this installation; never changes
    world,      \* the database, what of it is at the destination, and the script's state files
    script,     \* the backup script: NULL, or the sha its heartbeat will report
    facts,      \* facts[j]: runs, metrics and newest probe row of the job
    hist,       \* hist[j]: what the older probe rows of the job say
    state,      \* state[j]: jobs.state
    sched,      \* the scheduler thread
    last_probe, \* age of Scheduler.last_probe, NULL after a start
    deferred,   \* history: cycles in a row that left the job out though it was due
    failed      \* history: a transaction failed or the process restarted since the last tick

vars == <<board, world, script, facts, hist, state, sched, last_probe, deferred, failed>>

Jobs == DOMAIN board
SELF == 0                       \* SELF_JOB_ID
All == Jobs \cup {SELF}
Probed == {j \in Jobs : board[j].probed}
Kind(j) == IF j = SELF THEN "probe" ELSE board[j].kind

Snapshot == {j \in Jobs : Kind(j) = "db_snapshot"}

effective_rclone_timeout == IF RCLONE_TIMEOUT < PROBE_INTERVAL THEN RCLONE_TIMEOUT ELSE PROBE_INTERVAL
effective_no_success ==
    IF PROBE_NO_SUCCESS = 0 THEN 0
    ELSE IF PROBE_NO_SUCCESS < PROBE_INTERVAL THEN PROBE_INTERVAL ELSE PROBE_NO_SUCCESS
probe_cycle_budget ==
    IF effective_rclone_timeout < PROBE_INTERVAL THEN PROBE_INTERVAL ELSE effective_rclone_timeout

Older(age) == IF age = NULL \/ age = AGE_CAP THEN age ELSE age + 1
Aged(probe) == IF probe = NULL THEN NULL ELSE [probe EXCEPT !.newest = Older(@)]

\* streak: probe_fail_streak, up to the threshold; silent: age of the newest successful row, or
\* of the oldest row when there is none; rank: the order of probed_at (0: never probed, rows of
\* one cycle share one); age: of the newest row,
\* where the job has an interval.
Hist == [streak : 0..PROBE_FAIL_THRESHOLD, silent : Ages \cup {NULL}, rank : Nat, age : Ages]

\* The scheduler thread.  todo: the jobs of the cycle that are still to be probed, job: the one
\* whose listing runs; results: the rows of those that were listed; elapsed and busy: how long the cycle and this listing have taken.
Thread == [pc : {"asleep", "awake", "next", "probing", "recompute", "inbox"},
           todo : SUBSET Probed, job : Probed \cup {NULL},
           sha : Versions \cup {NULL}, ahead : BOOLEAN,
           results : [Jobs -> ProbeRow(Versions) \cup {NULL}],
           elapsed : Nat, busy : Nat]

World == [db : Versions, state_sha : Versions \cup {NULL}, newest : Ages \cup {NULL}, ahead : BOOLEAN]

\* Facts, probe rows and the thread have their types; no listing outlasts its timeout, and a
\* cycle overruns its budget by less than one listing (probe_cycle_budget_s).
TypeOK ==
    /\ board \in Boards /\ world \in World /\ script \in Versions \cup {NULL}
    /\ facts \in [All -> Facts(Versions)]
    /\ hist \in [Jobs -> Hist]
    /\ state \in [All -> STATES]
    /\ sched \in Thread
    /\ sched.elapsed < probe_cycle_budget + effective_rclone_timeout
    /\ sched.busy <= (IF sched.pc = "inbox" THEN INBOX_MAX ELSE effective_rclone_timeout)
    /\ last_probe \in 0..PROBE_INTERVAL \cup {NULL}
    /\ deferred \in [Jobs -> Nat] /\ failed \in BOOLEAN

NoFacts == [last_run |-> NULL, run_age |-> NULL, success_age |-> NULL, metrics |-> "none",
            metrics_age |-> NULL, reading_newer |-> FALSE, db_sha256 |-> NULL, created |-> 0, probe |-> NULL]

NoResults == [j \in Jobs |-> NULL]
Returned(results) == {j \in Jobs : results[j] # NULL}
Sleeping == [pc |-> "asleep", todo |-> {}, job |-> NULL, sha |-> NULL, ahead |-> FALSE,
             results |-> NoResults, elapsed |-> 0, busy |-> 0]

Init ==
    /\ board \in Boards
    /\ LET pushed == IF Snapshot = {} \/ EmptyAtFirst THEN NULL ELSE 0 IN
       world = [db |-> 0, state_sha |-> pushed, newest |-> pushed, ahead |-> FALSE]
    /\ script = NULL
    /\ facts = [j \in All |-> NoFacts]
    /\ hist = [j \in Jobs |-> [streak |-> 0, silent |-> NULL, rank |-> 0, age |-> 0]]
    /\ state = [j \in All |-> "UNKNOWN"]
    /\ sched = Sleeping /\ last_probe = NULL
    /\ deferred = [j \in Jobs |-> 0] /\ failed = FALSE

recompute(fs) == [j \in All |-> compute_state(Kind(j), fs[j])]

-----------------------------------------------------------------------------
(* Heartbeats: POST /api/v1/ping.                                          *)

\* What record_ping stores.  A "metric" is not a run.  The age of the last success is only kept
\* for a manual job and that of the metrics for a gauge: no other kind is judged by them.
Pinged(k, f, status, verdict, sha) ==
    LET isRun == status # "metric"
        reading == k = "disk" /\ verdict # "none"
    IN  [f EXCEPT !.last_run = IF isRun THEN status ELSE @,
                  !.run_age = IF isRun THEN 0 ELSE @,
                  !.success_age = IF k = "manual" /\ status = "ok" THEN 0 ELSE @,
                  !.metrics = IF verdict \in {"good", "bad"} \/ @ = "none" THEN verdict ELSE @,
                  !.metrics_age = IF reading THEN 0 ELSE @,
                  !.reading_newer = IF isRun THEN FALSE ELSE IF reading THEN f.run_age # 0 ELSE @,
                  !.db_sha256 = IF sha # NULL THEN sha ELSE @]

record_ping(j, status, verdict, sha) ==
    /\ facts' = [facts EXCEPT ![j] = Pinged(Kind(j), @, status, verdict, sha)]
    /\ state' = recompute(facts')

Heartbeat(j, word) ==
    /\ j \in Jobs /\ word \in board[j].words
    /\ record_ping(j, word[1], word[2], NULL)
    /\ UNCHANGED <<board, world, script, hist, sched, last_probe, deferred, failed>>

-----------------------------------------------------------------------------
(* The backup of a db_snapshot, outside this repository: the database      *)
(* changes; the script pushes unless its state file says this content was  *)
(* pushed, and then reports.  A push may be skipped with exit code 0, or be *)
(* recorded and never show up.                                             *)

Change ==
    /\ Snapshot # {} /\ world.db < MAX_CHANGES
    /\ world' = [world EXCEPT !.db = @ + 1]
    /\ UNCHANGED <<board, script, facts, hist, state, sched, last_probe, deferred, failed>>

BackupPush ==
    /\ Snapshot # {} /\ script = NULL
    /\ script' = world.db
    /\ \/ UNCHANGED world
       \/ /\ world.state_sha # world.db
          /\ \/ world' = [world EXCEPT !.state_sha = world.db, !.newest = 0, !.ahead = FALSE]
             \/ world' = [world EXCEPT !.state_sha = world.db,
                                       !.ahead = @ \/ Over(world.newest, PUSH_SLACK)]
    /\ UNCHANGED <<board, facts, hist, state, sched, last_probe, deferred, failed>>

BackupReports ==
    /\ script # NULL
    /\ script' = NULL
    /\ \E j \in Snapshot, status \in {"ok", "fail"} :
          record_ping(j, status, "other", IF board[j].sha THEN script ELSE NULL)
    /\ UNCHANGED <<board, world, hist, sched, last_probe, deferred, failed>>

BackupDies ==
    /\ script # NULL
    /\ script' = NULL
    /\ UNCHANGED <<board, world, facts, hist, state, sched, last_probe, deferred, failed>>

-----------------------------------------------------------------------------
(* The scheduler thread.                                                   *)

due_probes == {j \in Probed : \/ board[j].interval = NULL
                              \/ hist[j].rank = 0
                              \/ hist[j].age >= board[j].interval}

\* Mutant: the registry's order.
ProbedBefore_in_order(i, j) == i < j

\* The order of the cycle: least recently probed first, the registry's order breaks ties.  No
\* row is written before the cycle ends, so that it is the same throughout.
ProbedBefore(i, j) == hist[i].rank < hist[j].rank \/ (hist[i].rank = hist[j].rank /\ i < j)

ProbeDue == last_probe # NULL => last_probe >= PROBE_INTERVAL

StepProbe ==
    /\ sched.pc = "awake" /\ ProbeDue
    /\ sched' = [Sleeping EXCEPT !.pc = "next", !.todo = due_probes]
    /\ UNCHANGED <<board, world, script, facts, hist, state, last_probe, deferred, failed>>

StepTick ==
    /\ sched.pc = "awake" /\ ~ ProbeDue
    /\ sched' = [sched EXCEPT !.pc = "recompute"]
    /\ UNCHANGED <<board, world, script, facts, hist, state, last_probe, deferred, failed>>

\* Mutant: no budget.
BudgetSpent_never == FALSE

\* The first probe of a cycle always runs.
BudgetSpent == sched.results # NoResults /\ sched.elapsed >= probe_cycle_budget

\* probe_job reads the state files, then lists.
probe_job ==
    /\ sched.pc = "next" /\ ~ BudgetSpent
    /\ \E j \in sched.todo :
          /\ \A k \in sched.todo \ {j} : ProbedBefore(j, k)
          /\ sched' = [sched EXCEPT !.pc = "probing", !.todo = @ \ {j}, !.job = j, !.busy = 0,
                                    !.sha = IF j \in Snapshot THEN world.state_sha ELSE NULL,
                                    !.ahead = j \in Snapshot /\ world.ahead]
    /\ UNCHANGED <<board, world, script, facts, hist, state, last_probe, deferred, failed>>

ProbeReturns(how) ==
    /\ sched.pc = "probing"
    /\ IF sched.busy = effective_rclone_timeout THEN how = "transient" ELSE how \in board[sched.job].answers
    /\ LET ok == how = "listed"
           row == [ok |-> ok, transient |-> how = "transient",
                   newest |-> IF ok /\ sched.job \in Snapshot THEN world.newest ELSE NULL,
                   state_sha |-> sched.sha,
                   ahead |-> ok /\ sched.ahead /\ world.ahead]
       IN  sched' = [sched EXCEPT !.pc = "next", !.job = NULL, !.sha = NULL, !.ahead = FALSE, !.busy = 0,
                                  !.results = [@ EXCEPT ![sched.job] = row]]
    /\ UNCHANGED <<board, world, script, facts, hist, state, last_probe, deferred, failed>>

\* The rows of a cycle are stamped with its end.
insert_probe(results) ==
    LET kept == {hist[j].rank : j \in Jobs \ Returned(results)} \ {0}
        Below(r) == Cardinality({k \in kept : k <= r})
    IN  [j \in Jobs |->
           IF j \notin Returned(results) THEN [hist[j] EXCEPT !.rank = Below(@)]
           ELSE [streak |-> IF results[j].ok THEN 0
                            ELSE IF hist[j].streak < PROBE_FAIL_THRESHOLD THEN hist[j].streak + 1
                            ELSE hist[j].streak,
                 silent |-> IF results[j].ok \/ hist[j].silent = NULL THEN 0 ELSE hist[j].silent,
                 rank |-> Cardinality(kept) + 1,
                 age |-> 0]]

\* Failing jobs: the newest row is a failure.
probe_trouble(fs) == {j \in Probed : fs[j].probe # NULL /\ ~ fs[j].probe.ok}

\* hard, streak or silence.
_classify_trouble(j, fs, h) ==
    \/ ~ fs[j].probe.transient
    \/ h[j].streak >= PROBE_FAIL_THRESHOLD
    \/ effective_no_success # 0 /\ Over(h[j].silent, effective_no_success)

\* Mutant: the verdict looks at this cycle's jobs only.
run_probe_cycle_now(results) ==
    LET fs == [j \in All |-> IF j \in Returned(results) THEN [facts[j] EXCEPT !.probe = results[j]]
                             ELSE facts[j]]
        tripped == \E j \in Returned(results) \cap probe_trouble(fs) : _classify_trouble(j, fs, hist')
    IN  /\ hist' = insert_probe(results)
        /\ facts' = [fs EXCEPT ![SELF] = Pinged("probe", @, IF tripped THEN "fail" ELSE "ok", "other", NULL)]

\* Rows, then the verdict over the rows of every job, then the run of the dashboard's own job.
run_probe_cycle(results) ==
    LET fs == [j \in All |-> IF j \in Returned(results) THEN [facts[j] EXCEPT !.probe = results[j]]
                             ELSE facts[j]]
        tripped == \E j \in probe_trouble(fs) : _classify_trouble(j, fs, hist')
    IN  /\ hist' = insert_probe(results)
        /\ facts' = [fs EXCEPT ![SELF] = Pinged("probe", @, IF tripped THEN "fail" ELSE "ok", "other", NULL)]

CycleEnd ==
    /\ sched.pc = "next" /\ (sched.todo = {} \/ BudgetSpent)
    /\ run_probe_cycle(sched.results)
    /\ deferred' = [j \in Jobs |-> IF j \in sched.todo THEN deferred[j] + 1 ELSE 0]
    /\ last_probe' = 0
    /\ sched' = [Sleeping EXCEPT !.pc = "recompute"]
    /\ UNCHANGED <<board, world, script, state, failed>>

\* A transaction fails (a locked database): the cycle's rows are lost and its clock is not
\* re-armed, or the states stay as they are; step goes on with the Inbox's jobs.
StepFails ==
    /\ \/ sched.pc = "next" /\ (sched.todo = {} \/ BudgetSpent)
       \/ sched.pc = "recompute"
    /\ sched' = [Sleeping EXCEPT !.pc = "inbox"]
    /\ failed' = TRUE
    /\ UNCHANGED <<board, world, script, facts, hist, state, last_probe, deferred>>

recompute_all ==
    /\ sched.pc = "recompute"
    /\ state' = recompute(facts)
    /\ sched' = [sched EXCEPT !.pc = "inbox"]
    /\ UNCHANGED <<board, world, script, facts, hist, last_probe, deferred, failed>>

\* GitHub's sync and the prune, on the same thread.
InboxDone ==
    /\ sched.pc = "inbox"
    /\ sched' = Sleeping
    /\ UNCHANGED <<board, world, script, facts, hist, state, last_probe, deferred, failed>>

-----------------------------------------------------------------------------
\* Everything in memory is lost; rows and states stay.
Restart ==
    /\ sched' = Sleeping /\ last_probe' = NULL
    /\ failed' = TRUE
    /\ UNCHANGED <<board, world, script, facts, hist, state, deferred>>

\* The thread's sleep ends with a tick; its own work takes no time except a listing and the
\* Inbox's jobs.
Tick ==
    /\ sched.pc \in {"asleep", "probing", "inbox"}
    /\ sched.pc = "probing" => sched.busy < effective_rclone_timeout
    /\ sched.pc = "inbox" => sched.busy < INBOX_MAX
    /\ sched' = CASE sched.pc = "asleep" -> [sched EXCEPT !.pc = "awake"]
                  [] sched.pc = "probing" -> [sched EXCEPT !.busy = @ + 1, !.elapsed = @ + 1,
                                                          !.results = [j \in Jobs |-> Aged(@[j])]]
                  [] OTHER -> [sched EXCEPT !.busy = @ + 1]
    /\ world' = [world EXCEPT !.newest = Older(@)]
    /\ facts' = [j \in All |->
                   [facts[j] EXCEPT !.run_age = Older(@), !.success_age = Older(@), !.metrics_age = Older(@),
                                    !.created = Older(@),
                                    !.probe = Aged(@)]]
    /\ hist' = [j \in Jobs |-> [hist[j] EXCEPT !.silent = Older(@),
                                                !.age = IF board[j].interval = NULL THEN @ ELSE Older(@)]]
    /\ last_probe' = IF last_probe = PROBE_INTERVAL THEN last_probe ELSE Older(last_probe)
    /\ failed' = FALSE
    /\ UNCHANGED <<board, script, state, deferred>>

Scheduler ==
    \/ StepProbe \/ StepTick \/ probe_job \/ CycleEnd \/ recompute_all \/ InboxDone
    \/ \E how \in Outcomes : ProbeReturns(how)

Next ==
    \/ Scheduler
    \/ \E j \in Jobs : \E word \in board[j].words : Heartbeat(j, word)
    \/ Change \/ BackupPush \/ BackupReports \/ BackupDies
    \/ StepFails \/ Restart \/ Tick

\* The thread's loop outlives every exception, a listing is killed at its timeout, time passes,
\* and neither restarts nor a locked database go on for ever.  (A formula about failed, because
\* a recompute that finds nothing new is the same pair of states as one that fails.)
Fairness == WF_vars(Scheduler) /\ WF_vars(Tick) /\ <>[]~failed

Spec == Init /\ [][Next]_vars /\ Fairness

-----------------------------------------------------------------------------
\* A cycle that runs out of budget leaves the tail of its list to the next one; taking the least
\* recently probed first, no job is left out as often as there are probed jobs (due_probes:
\* "what stops the same slow job at the tail being starved forever").
NoStarvation == \A j \in Probed : deferred[j] < Cardinality(Probed)

MaxJob == CHOOSE n \in {Len(b) : b \in Boards} : \A b \in Boards : Len(b) <= n
Listed(j) == facts[j].probe # NULL /\ facts[j].probe.ok

\* A destination that is not listed successfully any more, however its failures fall between
\* cycles in which the job was not due, deferred cycles and restarts, turns the dashboard's own
\* job to FAIL and never back to OK (_classify_trouble: damping may delay an alert, it may
\* never cancel one).
OutageIsReported ==
    \A j \in 1..MaxJob :
        <>[](j \in Probed /\ ~ Listed(j)) =>
            /\ []<>(state[SELF] = "FAIL")
            /\ <>[](state[SELF] # "OK")

\* The dead-man's switch: a job nobody hears from any more ends up, and stays, in a state that
\* is alerted on, whatever its kind and whether or not it was ever heard from; a manual job if
\* it was done once (compute_state, _never_pinged_late, the two limits of a disk gauge).
SilenceIsSeen ==
    \A j \in 1..MaxJob :
        <>[](/\ j \in Jobs /\ facts[j].run_age # 0 /\ facts[j].metrics_age # 0
             /\ Kind(j) = "manual" => facts[j].success_age # NULL)
            => <>[](j \in Jobs /\ state[j] \in ALERTABLE_STATES)

\* What the state files say is not safe: the content was never pushed, or (heartbeats without
\* a sha) the recorded push never arrived.
Unsaved == \E j \in Snapshot : IF board[j].sha THEN world.db # world.state_sha ELSE world.ahead

Shown == state[SELF] = "FAIL" \/ \E j \in Snapshot : state[j] \in ALERTABLE_STATES
VerifiedOk == \E j \in Snapshot : compute_state(Kind(j), facts[j]) = "OK" /\ ~ ok_is_unverified(Kind(j), TRUE, facts[j])

\* A database whose content stays unsaved is shown again and again, on its own card or as a
\* failing probe, and is in the end never reported OK on evidence, whatever the script's
\* heartbeats claim (db_snapshot_stale, ok_is_unverified), as long as the destination holds
\* some older object.
UnsavedIsSeen == <>[](Unsaved /\ world.newest # NULL) => []<>Shown /\ <>[]~VerifiedOk

\* DEPLOY.md on a script that exits 0 on a skipped push: the destination probe is what catches
\* it.  Without the exception made in UnsavedIsSeen for an empty destination.
SkippedPushIsSeen == <>[]Unsaved => []<>Shown
=============================================================================
