---------------------------- MODULE AlertEpisodes ----------------------------
(***************************************************************************)
(* The alert episodes of dashboard/services.py: what a recompute pass does *)
(* to the jobs table, which pushes it decides, how they are sent to ntfy   *)
(* after the transaction and how an undelivered page is handed back.       *)
(*                                                                         *)
(* One row per job lives in dashboard.db; every pass and every hand-back   *)
(* is one BEGIN IMMEDIATE transaction, so each is one step.  Between them  *)
(* the threads of the ingest process interleave: the scheduler thread,     *)
(* whose step runs a tick or a probe cycle and then possibly the GitHub    *)
(* mirror's heartbeat, and the gunicorn threads, which run one pass per    *)
(* ping.  A thread reads the clock before its transaction begins.          *)
(*                                                                         *)
(* The state a job is found in is an input here: each pass picks one       *)
(* verdict per job from Verdicts[j].                                       *)
(***************************************************************************)
EXTENDS AlertPolicy, FiniteSets

CONSTANTS
    Threads, SCHEDULER,     \* threads of the ingest process
    StepPlans,              \* the pass sequences one scheduler step may run
    Verdicts,               \* Verdicts[j]: what compute_state may answer
    Upgraded,               \* jobs whose row may date from an older version
    NotifierEnabled,        \* NTFY_URL and NTFY_TOPIC are both set
    Faults,                 \* which failures of the surroundings may happen
    TICK_GAP,               \* the clock outruns the scheduler by at most this
    READING_AGE,            \* how old a reading is at most when it is used
    MaxClock, MaxLog        \* bounds of the model

VARIABLES
    clock,      \* time.time()
    row,        \* row[j]: the alert columns of table jobs
    log,        \* log[j]: table state_changes
    attempted,  \* Core._alert_attempted, lost by a restart
    pc,         \* pc[t]: where thread t stands
    read,       \* read[t]: the clock reading thread t works with
    todo,       \* todo[t]: the passes its entry point still has to run
    queue,      \* queue[t][j]: intents of its last pass still to be sent
    unsent,     \* unsent[t]: pages whose POST reported failure
    sent        \* sent[j]: the pushes that reached the phone (history)

thread == <<pc, read, todo, queue, unsent>>
vars == <<clock, row, log, attempted, thread, sent>>

AllFaults ==
    {"pass_fails", "post_fails", "answer_lost", "restart", "db_error", "clock_back"}
Passes == {"tick", "probe", "github", "ping"}
Verdict == [state : STATES, dest_unverified : BOOLEAN, damped_failure : BOOLEAN]

ASSUME ThreadAssumption ==
    /\ SCHEDULER \in Threads
    /\ StepPlans \subseteq Seq(Passes) /\ <<>> \notin StepPlans
    /\ Verdicts \in [Jobs -> SUBSET Verdict]
    /\ Upgraded \subseteq Jobs
    /\ NotifierEnabled \in BOOLEAN
    /\ Faults \subseteq AllFaults
    /\ TICK_GAP \in Nat \ {0} /\ READING_AGE \in Nat /\ MaxClock \in Nat /\ MaxLog \in Nat

Row == [state : STATES, since : Time, bad_since : MaybeTime,
        alerted_at : MaybeTime, alerted_state : STATES \cup {None},
        last_paged_at : MaybeTime]

PageKinds == {"alert", "escalation"}
AlertIntent == [job : Jobs, kind : PageKinds \cup {"recovery"}, state : STATES,
                bad_since : MaybeTime, alerted_at : MaybeTime,
                prev_paged_at : MaybeTime, prev_alerted_at : MaybeTime,
                prev_alerted_state : STATES \cup {None}]

Attempt == [bad_since : MaybeTime, when : [0..2 -> MaybeTime]]
NoAttempt == [bad_since |-> None, when |-> [r \in 0..2 |-> None]]

NoIntents == [j \in Jobs |-> <<>>]

-----------------------------------------------------------------------------
(* The recompute half of a pass                                            *)

\* db.set_state for one job: a transition is logged only when state changes.
set_state(j, v, now) ==
    IF row[j].state = v[j].state THEN log[j]
    ELSE Append(log[j], [at |-> to_iso(now), to |-> v[j].state])

\* Mutant: an unchanged state loses its start.
since_after_dropped(j, v, now) ==
    IF row[j].state = v[j].state THEN None ELSE to_iso(now)

since_after(j, v, now) ==
    IF row[j].state = v[j].state THEN row[j].since ELSE to_iso(now)

-----------------------------------------------------------------------------
(* The machine-offline rule                                                *)

\* The state an episode is about: the job's own, or, once it reads OK, the
\* last one that was not.
about_of(j, changes) ==
    IF row[j].state # "OK" \/ last_non_ok_state(changes) = None
    THEN row[j].state ELSE last_non_ok_state(changes)

returning(p, changes) ==
    /\ row[p].bad_since # None
    /\ IF row[p].state # "OK" THEN row[p].state = "LATE"
       ELSE last_non_ok_state(changes) = "LATE"

cooled(p, now) ==
    row[p].alerted_at = None /\ cooling(p, row[p].last_paged_at, now)

\* Mutant: hides behind a probe whose own page the cooldown holds back.
suppressed_offline_uncooled(j, about, v, changes, now) ==
    LET p == machine_probe(Machine[j])
    IN  /\ p # None /\ p # j
        /\ ~alert_never[p]
        /\ \/ v[j].state = "LATE" /\ v[p].state = "LATE"
           \/ /\ about = "LATE" /\ v[j].state = "OK"
              /\ \/ v[p].state = "LATE"
                 \/ row[p].state = "LATE"
                 \/ returning(p, changes[p])

suppressed_offline(j, about, v, changes, now) ==
    LET p == machine_probe(Machine[j])
    IN  /\ p # None /\ p # j
        /\ ~alert_never[p] /\ ~cooled(p, now)
        /\ \/ v[j].state = "LATE" /\ v[p].state = "LATE"
           \/ /\ about = "LATE" /\ v[j].state = "OK"
              /\ \/ v[p].state = "LATE"
                 \/ row[p].state = "LATE"
                 \/ returning(p, changes[p])

-----------------------------------------------------------------------------
(* Core._page: spend the episode's page if everything says so              *)

retry_due(j, bad_since, rank, now) ==
    LET a == attempted[j]
    IN  \/ a.bad_since # bad_since
        \/ a.when[rank] = None
        \/ now - a.when[rank] >= ALERT_RETRY_MIN_S
        \/ now < a.when[rank]

note_attempt(j, bad_since, rank, now) ==
    LET a == attempted[j]
        when == IF a.bad_since = bad_since THEN a.when ELSE NoAttempt.when
    IN  [bad_since |-> bad_since, when |-> [when EXCEPT ![rank] = now]]

\* Mutant: every page waits for the cooldown, an escalation too.
MayPage_flat_cooldown(j, about, e, v, changes, now) ==
    /\ ~alert_never[j]
    /\ \/ e.alerted_at = None
       \/ /\ e.alerted_state # None
          /\ alert_severity(about) > alert_severity(e.alerted_state)
    /\ past_bar(j, about, e.began, changes[j], now)
    /\ ~cooling(j, row[j].last_paged_at, now)
    /\ ~suppressed_offline(j, about, v, changes, now)
    /\ retry_due(j, e.bad_since, alert_severity(about), now)

\* Mutant: a state as bad as the paged one counts as worse.
MayPage_no_worse(j, about, e, v, changes, now) ==
    /\ ~alert_never[j]
    /\ \/ e.alerted_at = None
       \/ /\ e.alerted_state # None
          /\ alert_severity(about) >= alert_severity(e.alerted_state)
    /\ past_bar(j, about, e.began, changes[j], now)
    /\ e.alerted_at = None => ~cooling(j, row[j].last_paged_at, now)
    /\ ~suppressed_offline(j, about, v, changes, now)
    /\ retry_due(j, e.bad_since, alert_severity(about), now)

\* e is the episode as the pass found it, healed or just opened.
MayPage(j, about, e, v, changes, now) ==
    /\ ~alert_never[j]
    /\ \/ e.alerted_at = None
       \/ /\ e.alerted_state # None
          /\ alert_severity(about) > alert_severity(e.alerted_state)
    /\ past_bar(j, about, e.began, changes[j], now)
    /\ e.alerted_at = None => ~cooling(j, row[j].last_paged_at, now)
    /\ ~suppressed_offline(j, about, v, changes, now)
    /\ retry_due(j, e.bad_since, alert_severity(about), now)

\* An episode paged before the column existed: record, do not page again.
RecordsPagedState(j, e) ==
    ~alert_never[j] /\ e.alerted_at # None /\ e.alerted_state = None

page(j, about, e, v, changes, now) ==
    IF MayPage(j, about, e, v, changes, now)
    THEN [e EXCEPT !.alerted_at = to_iso(now), !.alerted_state = about]
    ELSE IF RecordsPagedState(j, e) THEN [e EXCEPT !.alerted_state = about]
    ELSE e

-----------------------------------------------------------------------------
(* Core._resolve_alerts for one job                                        *)

NoEpisode == [bad_since |-> None, began |-> None,
              alerted_at |-> None, alerted_state |-> None]

\* Mutant: the start in the future is dropped, the page it carried is not.
healed_half(r, now) ==
    IF r.bad_since = None THEN NoEpisode
    ELSE [bad_since |-> IF r.bad_since > now THEN None ELSE r.bad_since,
          began |-> IF r.bad_since > now THEN None ELSE r.bad_since,
          alerted_at |-> r.alerted_at, alerted_state |-> r.alerted_state]

\* A start in the future, or a page with no episode, is dropped.
healed_episode(r, now) ==
    IF r.bad_since = None \/ r.bad_since > now THEN NoEpisode
    ELSE [bad_since |-> r.bad_since, began |-> r.bad_since,
          alerted_at |-> r.alerted_at, alerted_state |-> r.alerted_state]

healed_paged_at(r, now) ==
    IF r.last_paged_at # None /\ r.last_paged_at > now THEN None
    ELSE r.last_paged_at

open_episode(e, now) ==
    IF e.bad_since # None THEN e
    ELSE [NoEpisode EXCEPT !.bad_since = to_iso(now), !.began = now]

\* What the pass leaves of job j: its episode, the state a page or recovery
\* would name, whether it paged and whether it announces a recovery.
Unmoved(e) == [ep |-> e, about |-> "OK", paged |-> FALSE, recovers |-> FALSE]

\* Mutant: an OK that cannot be verified holds the episode for ever.
resolve_ok_unbounded(j, e, v, changes, now) ==
    LET about == about_of(j, changes[j])
        held  == ok_held_s(row[j].state, row[j].since, now)
        out   == [ep |-> page(j, about, e, v, changes, now), about |-> about,
                  recovers |-> FALSE,
                  paged |-> MayPage(j, about, e, v, changes, now)]
    IN  IF holding(v[j], about) \/ held < ok_dwell_s(j) THEN out
        ELSE [out EXCEPT !.ep = NoEpisode,
                         !.recovers = /\ out.ep.alerted_at # None /\ ~alert_never[j]
                                      /\ ~suppressed_offline(j, about, v, changes, now)]

\* Mutant: the page is decided only while the dwell is being served.
resolve_ok_in_dwell(j, e, v, changes, now) ==
    LET about == about_of(j, changes[j])
        held  == ok_held_s(row[j].state, row[j].since, now)
        out   == [ep |-> page(j, about, e, v, changes, now), about |-> about,
                  recovers |-> FALSE,
                  paged |-> MayPage(j, about, e, v, changes, now)]
        over  == [ep |-> NoEpisode, about |-> about, recovers |-> FALSE,
                  paged |-> FALSE]
    IN  CASE holding(v[j], about) ->
                IF held < ok_hold_s(j) THEN out ELSE over
          [] OTHER ->
                IF held < ok_dwell_s(j) THEN out
                ELSE [over EXCEPT !.recovers =
                        /\ e.alerted_at # None /\ ~alert_never[j]
                        /\ ~suppressed_offline(j, about, v, changes, now)]

resolve_ok(j, e, v, changes, now) ==
    LET about == about_of(j, changes[j])
        held  == ok_held_s(row[j].state, row[j].since, now)
        e2    == page(j, about, e, v, changes, now)
        out   == [ep |-> e2, about |-> about, recovers |-> FALSE,
                  paged |-> MayPage(j, about, e, v, changes, now)]
        over  == [out EXCEPT !.ep = NoEpisode]
    IN  CASE holding(v[j], about) ->
                IF held < ok_hold_s(j) THEN out ELSE over
          [] OTHER ->
                IF held < ok_dwell_s(j) THEN out
                ELSE [over EXCEPT !.recovers =
                        /\ e2.alerted_at # None /\ ~alert_never[j]
                        /\ ~suppressed_offline(j, about, v, changes, now)]

resolve_bad(j, e, v, changes, now) ==
    LET e1 == open_episode(e, now)
    IN  [ep |-> page(j, v[j].state, e1, v, changes, now),
         about |-> v[j].state, recovers |-> FALSE,
         paged |-> MayPage(j, v[j].state, e1, v, changes, now)]

resolve_alerts(j, v, changes, now) ==
    LET e == healed_episode(row[j], now)
    IN  CASE v[j].state \in ALERTABLE_STATES ->
                resolve_bad(j, e, v, changes, now)
          [] v[j].state = "OK" /\ e.bad_since # None ->
                resolve_ok(j, e, v, changes, now)
          [] v[j].state = "OK" /\ e.bad_since = None -> Unmoved(e)
          [] OTHER -> Unmoved(NoEpisode)

\* The episode a pass over job j works on, opened if need be.
episode_at(j, now) == open_episode(healed_episode(row[j], now), now)

\* Mutant: only a first page starts the cooldown, an escalation does not.
row_after_first_only(j, v, out, now) ==
    [state |-> v[j].state, since |-> since_after(j, v, now),
     bad_since |-> out.ep.bad_since, alerted_at |-> out.ep.alerted_at,
     alerted_state |-> out.ep.alerted_state,
     last_paged_at |-> IF out.paged /\ episode_at(j, now).alerted_at = None
                       THEN to_iso(now) ELSE healed_paged_at(row[j], now)]

\* Mutant: the page is not stamped in the transaction that decides it.
row_after_unstamped(j, v, out, now) ==
    [state |-> v[j].state, since |-> since_after(j, v, now),
     bad_since |-> out.ep.bad_since,
     alerted_at |-> IF out.paged THEN row[j].alerted_at ELSE out.ep.alerted_at,
     alerted_state |-> IF out.paged THEN row[j].alerted_state ELSE out.ep.alerted_state,
     last_paged_at |-> healed_paged_at(row[j], now)]

row_after(j, v, out, now) ==
    [state |-> v[j].state, since |-> since_after(j, v, now),
     bad_since |-> out.ep.bad_since, alerted_at |-> out.ep.alerted_at,
     alerted_state |-> out.ep.alerted_state,
     last_paged_at |-> IF out.paged THEN to_iso(now)
                       ELSE healed_paged_at(row[j], now)]

\* The intents of job j, the page before its recovery.  A page carries the
\* episode it belongs to and the values its failure has to put back.
intents_of(j, v, out, now) ==
    LET e  == episode_at(j, now)
        pg == [job |-> j, kind |-> IF e.alerted_at = None THEN "alert"
                                   ELSE "escalation",
               state |-> out.about, bad_since |-> e.bad_since,
               alerted_at |-> to_iso(now),
               prev_paged_at |-> row[j].last_paged_at,
               prev_alerted_at |-> e.alerted_at,
               prev_alerted_state |-> e.alerted_state]
        named == IF out.paged THEN out.about
                 ELSE IF e.alerted_state # None THEN e.alerted_state
                 ELSE out.about
        rc == [job |-> j, kind |-> "recovery", state |-> named,
               bad_since |-> None, alerted_at |-> None,
               prev_paged_at |-> None, prev_alerted_at |-> None,
               prev_alerted_state |-> None]
    IN  (IF out.paged THEN <<pg>> ELSE <<>>)
            \o (IF out.recovers THEN <<rc>> ELSE <<>>)

\* What a pass leaves in memory of the pages tried for job j.
attempted_after(j, out, now) ==
    IF out.paged
    THEN note_attempt(j, episode_at(j, now).bad_since, alert_severity(out.about), now)
    ELSE attempted[j]

-----------------------------------------------------------------------------
(* Threads                                                                 *)

FreshRow == [state |-> "UNKNOWN", since |-> 0, bad_since |-> None,
             alerted_at |-> None, alerted_state |-> None,
             last_paged_at |-> None]

\* A row whose episode was paged by a version without alerted_state: what
\* that page said, or that it was acknowledged, is not on record.
UpgradedRow(state, paged_at) ==
    [FreshRow EXCEPT !.state = state, !.bad_since = 0, !.alerted_at = 0,
                     !.last_paged_at = paged_at]

InitialRows(j) ==
    {FreshRow} \cup
    {UpgradedRow(w.state, p) :
        w \in {u \in Verdicts[j] : j \in Upgraded /\ u.state \in ALERTABLE_STATES},
        p \in {None, 0}}

Init ==
    /\ clock = 0
    /\ row \in [Jobs -> UNION {InitialRows(j) : j \in Jobs}]
    /\ \A j \in Jobs : row[j] \in InitialRows(j)
    /\ log = [j \in Jobs |-> IF row[j] = FreshRow THEN <<>>
                             ELSE <<[at |-> 0, to |-> row[j].state]>>]
    /\ sent = [j \in Jobs |-> IF row[j] = FreshRow THEN <<>>
                  ELSE <<[kind |-> "alert", state |-> "UNKNOWN",
                          bad_since |-> 0, at |-> 0, known |-> FALSE]>>]
    /\ attempted = [j \in Jobs |-> NoAttempt]
    /\ pc = [t \in Threads |-> "idle"]
    /\ read = [t \in Threads |-> 0]
    /\ todo = [t \in Threads |-> <<>>]
    /\ queue = [t \in Threads |-> NoIntents]
    /\ unsent = [t \in Threads |-> {}]

\* Scheduler.step begins, or a ping reaches record_ping: the clock is read.
\* The scheduler waits out its tick interval between two steps (at the
\* horizon MaxClock, where time stops, it goes on stepping).
Enter(t) ==
    /\ pc[t] = "idle"
    /\ t = SCHEDULER => clock # read[t] \/ clock = MaxClock
    /\ \E plan \in (IF t = SCHEDULER THEN StepPlans ELSE {<<"ping">>}) :
          todo' = [todo EXCEPT ![t] = plan]
    /\ read' = [read EXCEPT ![t] = clock]
    /\ pc' = [pc EXCEPT ![t] = "begin"]
    /\ UNCHANGED <<clock, row, log, attempted, queue, unsent, sent>>

\* The clock a pass works with: run_probe_cycle advances the reading by the
\* time it measured, every other pass uses the reading of the entry point.
pass_clock(t) == IF Head(todo[t]) = "probe" THEN clock ELSE read[t]

\* Where thread t goes when a pass has nothing (more) to send or give back.
after_pass(t, rest) == IF rest = <<>> THEN "idle" ELSE "begin"

\* Core._recompute_pass inside its transaction, committed.
RecomputePass(t) ==
    /\ pc[t] = "begin"
    /\ \E v \in [Jobs -> UNION {Verdicts[j] : j \in Jobs}] :
          LET now == pass_clock(t)
              changes == [j \in Jobs |-> set_state(j, v, now)]
              out == [j \in Jobs |-> resolve_alerts(j, v, changes, now)]
              rest == Tail(todo[t])
          IN  /\ \A j \in Jobs : v[j] \in Verdicts[j] /\ Len(changes[j]) <= MaxLog
              /\ log' = changes
              /\ row' = [j \in Jobs |-> row_after(j, v, out[j], now)]
              /\ attempted' = [j \in Jobs |-> attempted_after(j, out[j], now)]
              /\ queue' = [queue EXCEPT ![t] =
                              [j \in Jobs |-> intents_of(j, v, out[j], now)]]
              /\ pc' = [pc EXCEPT ![t] = IF queue'[t] = NoIntents
                                        THEN after_pass(t, rest) ELSE "post"]
              /\ todo' = [todo EXCEPT ![t] = rest]
    /\ UNCHANGED <<clock, read, unsent, sent>>

\* ... whose transaction fails: on its lock, in a statement or on its commit.
\* The tables are rolled back and nothing is sent; the attempts that had been
\* noted by then, in the registry's order, stay in memory.  The caller logs
\* it (Scheduler.step goes on to its next pass) or answers the ping with 500.
RecomputeFails(t) ==
    /\ "pass_fails" \in Faults
    /\ pc[t] = "begin"
    /\ \E v \in [Jobs -> UNION {Verdicts[j] : j \in Jobs}], done \in SUBSET Jobs :
          LET now == pass_clock(t)
              changes == [j \in Jobs |-> set_state(j, v, now)]
              out == [j \in Jobs |-> resolve_alerts(j, v, changes, now)]
          IN  /\ \A j \in Jobs : v[j] \in Verdicts[j]
              /\ \A j \in done, k \in Jobs : Order[k] <= Order[j] => k \in done
              /\ attempted' = [j \in Jobs |-> IF j \in done
                                  THEN attempted_after(j, out[j], now) ELSE attempted[j]]
    /\ todo' = [todo EXCEPT ![t] = Tail(@)]
    /\ pc' = [pc EXCEPT ![t] = after_pass(t, Tail(todo[t]))]
    /\ UNCHANGED <<clock, row, log, read, queue, unsent, sent>>

\* Job j's intents are next in the order _resolve_alerts appended them.
is_next(t, j) ==
    /\ queue[t][j] # <<>>
    /\ \A k \in Jobs : queue[t][k] # <<>> => Order[j] <= Order[k]

\* What Notifier.send can come to: delivered and answered 2xx, refused or
\* timed out before delivery, delivered with the answer lost, or, with ntfy
\* switched off, nothing at all.
Outcomes ==
    {o \in [landed : BOOLEAN, ok : BOOLEAN] :
        \/ ~NotifierEnabled /\ ~o.landed /\ ~o.ok
        \/ NotifierEnabled /\ o.landed /\ o.ok
        \/ NotifierEnabled /\ ~o.landed /\ ~o.ok /\ "post_fails" \in Faults
        \/ NotifierEnabled /\ o.landed /\ ~o.ok /\ "answer_lost" \in Faults}

\* One iteration of the loop in Core._dispatch.
Dispatch(t) ==
    /\ pc[t] = "post"
    /\ \E j \in Jobs, o \in Outcomes :
          LET i == Head(queue[t][j])
          IN  /\ is_next(t, j)
              /\ queue' = [queue EXCEPT ![t][j] = Tail(queue[t][j])]
              /\ unsent' = [unsent EXCEPT ![t] =
                    IF i.kind \in PageKinds /\ ~o.ok /\ NotifierEnabled
                    THEN @ \cup {i} ELSE @]
              /\ sent' = IF ~o.landed THEN sent
                         ELSE [sent EXCEPT ![j] = Append(@,
                            [kind |-> i.kind, state |-> i.state,
                             bad_since |-> i.bad_since, at |-> i.alerted_at,
                             known |-> o.ok])]
              /\ pc' = [pc EXCEPT ![t] =
                    IF queue'[t] # NoIntents THEN "post"
                    ELSE IF unsent'[t] # {} THEN "give_back"
                    ELSE after_pass(t, todo[t])]
    /\ UNCHANGED <<clock, row, log, attempted, read, todo>>

\* Does the row still belong to the page this intent stamped?
same_episode(i) ==
    row[i.job].bad_since = i.bad_since /\ row[i.job].alerted_at = i.alerted_at

\* Mutant: only the cooldown is returned.
row_given_back_half(r, i) == [r EXCEPT !.last_paged_at = i.prev_paged_at]

\* Mutant: a failed escalation clears the page it escalated.
row_given_back_cleared(r, i) ==
    [r EXCEPT !.alerted_at = None, !.alerted_state = None,
              !.last_paged_at = i.prev_paged_at]

row_given_back(r, i) ==
    [r EXCEPT !.alerted_at = i.prev_alerted_at,
              !.alerted_state = i.prev_alerted_state,
              !.last_paged_at = i.prev_paged_at]

\* Core._return_unsent_pages; a pass pages for a job at most once.
ReturnUnsentPages(t) ==
    /\ pc[t] = "give_back"
    /\ row' = [j \in Jobs |->
          IF \E i \in unsent[t] : i.job = j /\ same_episode(i)
          THEN row_given_back(row[j],
                  CHOOSE i \in unsent[t] : i.job = j /\ same_episode(i))
          ELSE row[j]]
    /\ unsent' = [unsent EXCEPT ![t] = {}]
    /\ pc' = [pc EXCEPT ![t] = after_pass(t, todo[t])]
    /\ UNCHANGED <<clock, log, attempted, read, todo, queue, sent>>

\* ... whose transaction fails (the lock was not had in 10 s): logged only.
ReturnUnsentFails(t) ==
    /\ "db_error" \in Faults
    /\ pc[t] = "give_back"
    /\ unsent' = [unsent EXCEPT ![t] = {}]
    /\ pc' = [pc EXCEPT ![t] = after_pass(t, todo[t])]
    /\ UNCHANGED <<clock, row, log, attempted, read, todo, queue, sent>>

-----------------------------------------------------------------------------
(* The surroundings                                                        *)

\* Time passes, at most TICK_GAP beyond the scheduler's last reading and
\* READING_AGE beyond one that waits for its transaction.
Advance ==
    /\ clock < MaxClock
    /\ clock - read[SCHEDULER] < TICK_GAP
    /\ \A t \in Threads : pc[t] = "begin" => clock - read[t] < READING_AGE
    /\ clock' = clock + 1
    /\ UNCHANGED <<row, log, attempted, thread, sent>>

\* The system clock is stepped back.  Not while a probe cycle runs: its end
\* is measured with the monotonic clock.
ClockBack ==
    /\ "clock_back" \in Faults
    /\ clock > 0
    /\ \A t \in Threads : pc[t] = "begin" => Head(todo[t]) # "probe"
    /\ clock' = clock - 1
    /\ UNCHANGED <<row, log, attempted, thread, sent>>

\* The process dies and is started again: memory is lost, the store is not.
Restart ==
    /\ "restart" \in Faults
    /\ attempted' = [j \in Jobs |-> NoAttempt]
    /\ pc' = [t \in Threads |-> "idle"]
    /\ todo' = [t \in Threads |-> <<>>]
    /\ queue' = [t \in Threads |-> NoIntents]
    /\ unsent' = [t \in Threads |-> {}]
    /\ UNCHANGED <<clock, row, log, read, sent>>

Next ==
    \/ \E t \in Threads : \/ Enter(t)
                          \/ RecomputePass(t)
                          \/ RecomputeFails(t)
                          \/ Dispatch(t)
                          \/ ReturnUnsentPages(t)
                          \/ ReturnUnsentFails(t)
    \/ Advance
    \/ ClockBack
    \/ Restart

Spec == Init /\ [][Next]_vars

-----------------------------------------------------------------------------
(* Properties                                                              *)

Push == [kind : PageKinds \cup {"recovery"}, state : STATES,
         bad_since : MaybeTime, at : MaybeTime, known : BOOLEAN]

\* Every column, intent and history entry has its type, and a thread about
\* to begin a pass has one to run.
TypeOK ==
    /\ clock \in Nat
    /\ row \in [Jobs -> Row]
    /\ log \in [Jobs -> Seq(Change)]
    /\ attempted \in [Jobs -> Attempt]
    /\ pc \in [Threads -> {"idle", "begin", "post", "give_back"}]
    /\ read \in [Threads -> Nat]
    /\ todo \in [Threads -> Seq(Passes)]
    /\ queue \in [Threads -> [Jobs -> Seq(AlertIntent)]]
    /\ unsent \in [Threads -> SUBSET AlertIntent]
    /\ sent \in [Jobs -> Seq(Push)]
    /\ \A t \in Threads : pc[t] = "begin" => todo[t] # <<>>

\* The pages of job j thread t has decided and not settled yet.
InFlight(t, j) ==
    {i \in {queue[t][j][n] : n \in DOMAIN queue[t][j]} \cup unsent[t] :
        i.job = j /\ i.kind \in PageKinds}

\* The pushes about job j that are pages and reached the phone.
Delivered(j) ==
    {p \in {sent[j][n] : n \in DOMAIN sent[j]} : p.kind \in PageKinds}

ShapedRow(r) ==
    /\ r.alerted_at # None => r.bad_since # None
    /\ r.alerted_state # None => r.alerted_at # None

ShapedIntent(i) ==
    i.kind \in PageKinds =>
        /\ i.bad_since # None /\ i.alerted_at # None
        /\ i.prev_alerted_state # None => i.prev_alerted_at # None

\* _resolve_alerts heals "an alerted_at with no open episode", saying that
\* nothing here ever writes that pair: no interleaving of passes, sends,
\* hand-backs and restarts leaves a page without its episode or a paged
\* state without its page, in a row or in what a hand-back will restore.
EpisodeShape ==
    /\ \A j \in Jobs : ShapedRow(row[j])
    /\ \A t \in Threads, j \in Jobs :
          \A n \in DOMAIN queue[t][j] : ShapedIntent(queue[t][j][n])
    /\ \A t \in Threads : \A i \in unsent[t] :
          i.kind \in PageKinds /\ ShapedIntent(i)

\* A page of the episode, stamped at that time, reached the phone.
Told(j, bad_since, at) ==
    \E p \in Delivered(j) : p.bad_since = bad_since /\ p.at = at

\* A row marked as paged was paged: the push it names was delivered, or the
\* thread that stamped it still has to send it or to hand it back.
StampIsSpokenFor ==
    \A j \in Jobs : row[j].alerted_at # None =>
        \/ Told(j, row[j].bad_since, row[j].alerted_at)
        \/ \E t \in Threads : \E i \in InFlight(t, j) :
              i.bad_since = row[j].bad_since /\ i.alerted_at = row[j].alerted_at

\* The rate the cooldown promises: once a page was acknowledged, the first
\* page of another episode of that job is stamped a whole cooldown later.
PagesCooldownApart ==
    \A j \in Jobs : \A p, q \in Delivered(j) :
        /\ p.known /\ q.known
        /\ q.kind = "alert" /\ p.bad_since # q.bad_since /\ p.at <= q.at
        => q.at - p.at >= cooldown_s(j)

\* One page per episode plus one escalation: of two acknowledged pages of an
\* episode one is its first page and the other an escalation, about a worse
\* state and stamped no earlier.
OnePagePerRank ==
    \A j \in Jobs : \A m, n \in DOMAIN sent[j] :
        LET p == sent[j][m]
            q == sent[j][n]
        IN  /\ m # n /\ p.bad_since = q.bad_since
            /\ p.kind \in PageKinds /\ p.known
            /\ q.kind \in PageKinds /\ q.known
            => /\ {p.kind, q.kind} = PageKinds
               /\ q.kind = "escalation" =>
                    /\ alert_severity(q.state) > alert_severity(p.state)
                    /\ q.at >= p.at

\* Start of the unbroken run of states of rank r or worse that job j is in.
RunStart(j, r) ==
    LET milder == {n \in DOMAIN log[j] : alert_severity(log[j][n].to) < r}
        first  == IF milder = {} THEN 1 ELSE Max(milder) + 1
    IN  log[j][first].at

\* Job j has been in states of rank r or worse for its whole threshold, no
\* cooldown of an earlier page is running, and the scheduler has since had
\* time to start a pass and commit it.
Overdue(j, r) ==
    /\ ~alert_never[j]
    /\ alert_severity(row[j].state) >= r
    /\ clock >= RunStart(j, r) + alert_after_s[j] + 2 * TICK_GAP
    /\ \/ row[j].alerted_at # None
       \/ row[j].last_paged_at = None
       \/ clock >= row[j].last_paged_at + cooldown_s(j) + 2 * TICK_GAP

PagedAt(j, r) ==
    /\ row[j].alerted_at # None
    /\ row[j].alerted_state # None
    /\ alert_severity(row[j].alerted_state) >= r

\* A POST was tried recently enough that the next is still spaced out.
JustTried(j) ==
    \E k \in 0..2 : /\ attempted[j].when[k] # None
                    /\ clock - attempted[j].when[k] < ALERT_RETRY_MIN_S + 2 * TICK_GAP

\* The machine's probe job speaks, or will, for a sibling that is LATE.
ProbeSpeaksFor(j) ==
    LET p == machine_probe(Machine[j])
    IN  /\ p # None /\ p # j
        /\ row[j].state = "LATE"
        /\ \/ PagedAt(p, 1)
           \/ JustTried(p)
           \/ /\ row[p].bad_since # None
              /\ clock < row[p].bad_since + alert_after_s[p] + 2 * TICK_GAP

\* The hard ceiling, end to end: a job broken for longer than its threshold
\* has been paged at the rank it is broken at, or a POST was just tried, or
\* its machine's probe speaks for it.
NoSilentOutage ==
    \A j \in Jobs : \A r \in 1..2 :
        Overdue(j, r) => PagedAt(j, r) \/ JustTried(j) \/ ProbeSpeaksFor(j)

\* "It is what stops the 60 s ticker paging again mid-batch": the stamp in
\* the transaction leaves each page of an episode with one sender, however
\* the threads interleave.
OneSenderPerPage ==
    \A j \in Jobs : \A t, u \in Threads :
        \A i \in InFlight(t, j) : \A k \in InFlight(u, j) :
            i.kind = k.kind /\ i.bad_since = k.bad_since => t = u /\ i = k

\* Keeping an episode alive is bounded: however unverifiable its OK, a job
\* that has read OK for its hold has no episode left to mute its next one.
EpisodesEnd ==
    \A j \in Jobs :
        row[j].state = "OK" /\ clock >= row[j].since + ok_hold_s(j) + 2 * TICK_GAP
        => row[j].bad_since = None

\* Nothing holds back a page for job j in a pass at time now: it has not
\* opted out, no cooldown is running, no POST about the episode was tried
\* within the retry spacing, and no other job speaks for its machine.
Unhindered(j, now) ==
    /\ ~alert_never[j]
    /\ ~cooling(j, row[j].last_paged_at, now)
    /\ machine_probe(Machine[j]) \in {None, j}
    /\ attempted[j].bad_since = row[j].bad_since =>
          \A k \in 0..2 : attempted[j].when[k] # None =>
             now - attempted[j].when[k] \notin 0..(ALERT_RETRY_MIN_S - 1)

\* "An episode must never end unpaged after it crossed the bar": a pass that
\* ends an episode on an OK, a whole threshold after it began, finds it
\* paged or pages for it, unless its page is held back.
NeverEndsUnpaged ==
    [][\A j \in Jobs :
          (/\ row[j].bad_since # None /\ row'[j].bad_since = None
           /\ row[j].alerted_at = None /\ row'[j].state = "OK"
           /\ \A t \in Threads : pc[t] = "begin" /\ todo'[t] # todo[t] =>
                 /\ Unhindered(j, pass_clock(t))
                 /\ pass_clock(t) - row[j].bad_since >= alert_after_s[j])
          => \E t \in Threads : \E i \in InFlight(t, j)' :
                i.bad_since = row[j].bad_since
      ]_vars
=============================================================================
