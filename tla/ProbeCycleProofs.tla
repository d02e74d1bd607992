--------------------------- MODULE ProbeCycleProofs ---------------------------
(***************************************************************************)
(* Theorems about ProbeCycle, for every registry, every interval, timeout  *)
(* and threshold, and every way the listings may end.                      *)
(***************************************************************************)
EXTENDS ProbeCycle, OrderFacts

-----------------------------------------------------------------------------
(* The limits.                                                             *)

\* The age at which counting stops is a number.
LEMMA CapIsNat == AGE_CAP \in Nat
  <1> DEFINE b == DEADLINE + FRESH + MAX_AGE + DISK_METRIC_MAX_AGE + DISK_FIRST_READING_GRACE
  <1>1. /\ DEADLINE \in Nat /\ FRESH \in Nat /\ MAX_AGE \in Nat
        /\ DISK_METRIC_MAX_AGE \in Nat /\ DISK_FIRST_READING_GRACE \in Nat
    BY JobStateAssumption DEF LIMITS
  <1>2. LIMITS \subseteq Nat /\ LIMITS # {}
    BY JobStateAssumption DEF LIMITS
  <1>3. b \in Nat /\ \A x \in LIMITS : x <= b
    BY <1>1 DEF LIMITS
  <1> HIDE DEF b
  <1>4. \E m \in LIMITS : \A k \in LIMITS : k <= m
    BY <1>2, <1>3, Greatest
  <1> DEFINE m == CHOOSE m \in LIMITS : \A k \in LIMITS : k <= m
  <1>5. m \in LIMITS
    BY <1>4
  <1>6. AGE_CAP = 1 + m
    BY DEF AGE_CAP
  <1> HIDE DEF m
  <1> QED
    BY <1>2, <1>5, <1>6

\* The limits are numbers, and the ones that must be are not zero.
LEMMA Limits ==
    /\ PROBE_INTERVAL \in Nat \ {0} /\ RCLONE_TIMEOUT \in Nat \ {0}
    /\ PROBE_FAIL_THRESHOLD \in Nat \ {0}
    /\ INBOX_MAX \in Nat /\ MAX_CHANGES \in Nat
    /\ PROBE_INTERVAL <= AGE_CAP
  BY BoardAssumption

\* The timeout and the budget derived from them are not zero.
LEMMA Derived ==
    /\ effective_rclone_timeout \in Nat \ {0}
    /\ probe_cycle_budget \in Nat \ {0}
  BY Limits DEF effective_rclone_timeout, probe_cycle_budget

-----------------------------------------------------------------------------
(* The registry.                                                           *)

\* A board is a sequence of jobs, and its positions are the jobs' names.
LEMMA BoardFacts ==
    ASSUME board \in Boards
    PROVE  /\ board \in Seq(Job) /\ Len(board) \in Nat
           /\ Jobs = 1..Len(board) /\ SELF \notin Jobs
           /\ IsFiniteSet(Jobs)
           /\ \A j \in Jobs : board[j] \in Job
  <1>1. board \in Seq(Job)
    BY BoardAssumption
  <1>2. Len(board) \in Nat /\ Jobs = 1..Len(board)
    BY <1>1 DEF Jobs
  <1>3. IsFiniteSet(Jobs)
    BY <1>2, FS_Interval
  <1> QED
    BY <1>1, <1>2, <1>3 DEF SELF

\* The jobs with a destination are finitely many.
LEMMA ProbedFacts ==
    ASSUME board \in Boards
    PROVE  IsFiniteSet(Probed) /\ Probed \subseteq Jobs /\ Cardinality(Probed) \in Nat
  BY BoardFacts, FS_Subset, FS_CardinalityType DEF Probed

\* What is derived from the board stays while the board does.
LEMMA SameBoard ==
    ASSUME UNCHANGED board
    PROVE  /\ Jobs' = Jobs /\ All' = All /\ Probed' = Probed /\ Snapshot' = Snapshot
           /\ \A j : Kind(j)' = Kind(j)
  BY DEF Jobs, All, Probed, Snapshot, Kind, SELF

-----------------------------------------------------------------------------
(* Facts and probe rows.                                                   *)

Fact == Facts(Versions)
ProbeRows == ProbeRow(Versions) \cup {NULL}
MaybeAge == Ages \cup {NULL}

\* An age that grows stays an age.
LEMMA OlderType ==
    /\ 0 \in Ages
    /\ \A age \in MaybeAge : Older(age) \in MaybeAge
    /\ \A age \in Ages : Older(age) \in Ages
  BY CapIsNat DEF MaybeAge, Ages, Older

\* A probe row that grows older stays one.
LEMMA AgedType ==
    ASSUME NEW probe \in ProbeRows
    PROVE  Aged(probe) \in ProbeRows
  <1>1. CASE probe = NULL
    BY <1>1 DEF Aged, ProbeRows
  <1>2. CASE probe # NULL
    <2>1. probe \in ProbeRow(Versions)
      BY <1>2 DEF ProbeRows
    <2>2. Older(probe.newest) \in MaybeAge
      BY <2>1, OlderType DEF ProbeRow, MaybeAge
    <2>3. Aged(probe) = [probe EXCEPT !.newest = Older(probe.newest)]
      BY <1>2 DEF Aged
    <2> QED
      BY <2>1, <2>2, <2>3 DEF ProbeRow, ProbeRows, MaybeAge
  <1> QED
    BY <1>1, <1>2

\* Every branch of compute_state names a state, whatever is known of the job.
LEMMA StateType == \A k, f : compute_state(k, f) \in STATES
  <1> TAKE k, f
  <1>1. DiskState(k, f) \in STATES
    BY DEF DiskState, STATES
  <1>2. ManualState(f) \in STATES
    BY DEF ManualState, STATES
  <1>3. KindState(k, f) \in STATES
    BY DEF KindState, STATES
  <1>4. ScheduledState(k, f) \in STATES
    BY <1>3 DEF ScheduledState, STATES
  <1>5. "LATE" \in STATES /\ "UNKNOWN" \in STATES
    BY DEF STATES
  <1> QED
    BY <1>1, <1>2, <1>4, <1>5 DEF compute_state

\* A recorded ping leaves facts of a job.
LEMMA PingedType ==
    ASSUME NEW k, NEW f \in Fact, NEW status \in {"ok", "fail", "metric"}, NEW verdict \in Verdicts,
           NEW sha \in Versions \cup {NULL}
    PROVE  Pinged(k, f, status, verdict, sha) \in Fact
  <1> DEFINE isRun == status # "metric"
             reading == k = "disk" /\ verdict # "none"
             last_run == IF isRun THEN status ELSE f.last_run
             run_age == IF isRun THEN 0 ELSE f.run_age
             success_age == IF k = "manual" /\ status = "ok" THEN 0 ELSE f.success_age
             metrics == IF verdict \in {"good", "bad"} \/ f.metrics = "none" THEN verdict ELSE f.metrics
             metrics_age == IF reading THEN 0 ELSE f.metrics_age
             newer == IF isRun THEN FALSE ELSE IF reading THEN f.run_age # 0 ELSE f.reading_newer
             sha256 == IF sha # NULL THEN sha ELSE f.db_sha256
  <1>1. last_run \in {"ok", "skipped", "fail", NULL}
    BY DEF Fact, Facts
  <1>2. run_age \in Ages \cup {NULL} /\ success_age \in Ages \cup {NULL}
    BY OlderType DEF Fact, Facts
  <1>3. metrics \in Verdicts /\ metrics_age \in Ages \cup {NULL}
    BY OlderType DEF Fact, Facts
  <1>4. newer \in BOOLEAN
    BY DEF Fact, Facts
  <1>5. sha256 \in Versions \cup {NULL}
    BY DEF Fact, Facts
  <1>6. Pinged(k, f, status, verdict, sha) =
           [f EXCEPT !.last_run = last_run, !.run_age = run_age, !.success_age = success_age,
                     !.metrics = metrics, !.metrics_age = metrics_age, !.reading_newer = newer,
                     !.db_sha256 = sha256]
    BY DEF Pinged
  <1> HIDE DEF last_run, run_age, success_age, metrics, metrics_age, newer, sha256
  <1> QED
    BY <1>1, <1>2, <1>3, <1>4, <1>5, <1>6 DEF Fact, Facts

\* A new probe row leaves facts of a job.
LEMMA ProbedType ==
    ASSUME NEW f \in Fact, NEW p \in ProbeRows
    PROVE  [f EXCEPT !.probe = p] \in Fact
  BY DEF Fact, Facts, ProbeRows

\* Facts that grow older stay facts.
LEMMA TickFactType ==
    ASSUME NEW f \in Fact
    PROVE  [f EXCEPT !.run_age = Older(f.run_age), !.success_age = Older(f.success_age),
                     !.metrics_age = Older(f.metrics_age), !.created = Older(f.created),
                     !.probe = Aged(f.probe)] \in Fact
  <1>1. /\ Older(f.run_age) \in MaybeAge /\ Older(f.success_age) \in MaybeAge
        /\ Older(f.metrics_age) \in MaybeAge /\ Older(f.created) \in Ages
    BY OlderType DEF Fact, Facts, MaybeAge
  <1>2. Aged(f.probe) \in ProbeRows
    BY AgedType DEF Fact, Facts, ProbeRows
  <1> QED
    BY <1>1, <1>2 DEF Fact, Facts, MaybeAge, ProbeRows

-----------------------------------------------------------------------------
(* The inductive invariant of the types: what is stored, and the thread.   *)
(* That a cycle overruns its budget by less than one listing takes what    *)
(* was elapsed when the listing began; that it begins at all, that the     *)
(* first job of a cycle is never refused.                                  *)

BoardType == board \in Boards
WorldType == world \in World /\ script \in Versions \cup {NULL}
FactsType == facts \in [All -> Fact]
HistType == hist \in [Jobs -> Hist]
StatesType == state \in [All -> STATES]
ClockType == last_probe \in 0..PROBE_INTERVAL \cup {NULL}
DeferType == deferred \in [Jobs -> Nat]
FlagType == failed \in BOOLEAN

ThreadInv ==
    /\ sched \in Thread
    /\ sched.pc = "next" =>
          /\ sched.elapsed < probe_cycle_budget + effective_rclone_timeout
          /\ sched.results = NoResults => sched.elapsed = 0
    /\ sched.pc = "probing" =>
          /\ sched.job \in Probed
          /\ sched.elapsed < probe_cycle_budget + sched.busy
          /\ sched.busy <= effective_rclone_timeout
    /\ sched.pc \notin {"next", "probing"} => sched.elapsed = 0
    /\ sched.pc \notin {"probing", "inbox"} => sched.busy = 0
    /\ sched.pc = "inbox" => sched.busy <= INBOX_MAX

TInv ==
    /\ BoardType /\ WorldType /\ FactsType /\ HistType /\ StatesType
    /\ ClockType /\ DeferType /\ FlagType /\ ThreadInv

\* The strengthened types imply the types the run checks.
LEMMA TInvImpliesTypeOK == TInv => TypeOK
  <1> SUFFICES ASSUME TInv PROVE TypeOK
    OBVIOUS
  <1>1. sched.elapsed \in Nat /\ sched.busy \in Nat
    BY DEF TInv, ThreadInv, Thread
  <1>2. sched.elapsed < probe_cycle_budget + effective_rclone_timeout
    BY <1>1, Derived DEF TInv, ThreadInv
  <1>3. sched.busy <= (IF sched.pc = "inbox" THEN INBOX_MAX ELSE effective_rclone_timeout)
    BY <1>1, Derived, Limits DEF TInv, ThreadInv
  <1> QED
    BY <1>2, <1>3
       DEF TInv, ThreadInv, BoardType, WorldType, FactsType, HistType, StatesType, ClockType, DeferType,
           FlagType, Fact, TypeOK

\* The scheduler thread between two steps.
LEMMA SleepingType ==
    ASSUME BoardType
    PROVE  /\ Sleeping \in Thread
           /\ Sleeping.elapsed = 0 /\ Sleeping.busy = 0 /\ Sleeping.results = NoResults
           /\ Sleeping.pc = "asleep" /\ Sleeping.todo = {}
  <1>1. NoResults \in [Jobs -> ProbeRow(Versions) \cup {NULL}]
    BY DEF NoResults
  <1>2. Sleeping \in Thread
    BY <1>1 DEF Sleeping, Thread
  <1> QED
    BY <1>2 DEF Sleeping

\* A recomputed board has a state for every job.
LEMMA RecomputeType == \A fs : recompute(fs) \in [All -> STATES]
  BY StateType DEF recompute

\* A board, nothing reported and nothing probed.
LEMMA InitTInv == Init => TInv
  <1> SUFFICES ASSUME Init PROVE TInv
    OBVIOUS
  <1>1. BoardType
    BY DEF Init, BoardType
  <1>2. 0 \in Versions /\ 0 \in Ages
    BY Limits, OlderType DEF Versions
  <1>3. WorldType
    <2> DEFINE pushed == IF Snapshot = {} \/ EmptyAtFirst THEN NULL ELSE 0
    <2>1. pushed \in Versions \cup {NULL} /\ pushed \in Ages \cup {NULL}
      BY <1>2
    <2>2. world = [db |-> 0, state_sha |-> pushed, newest |-> pushed, ahead |-> FALSE]
      BY DEF Init
    <2> HIDE DEF pushed
    <2>3. world \in World
      BY <1>2, <2>1, <2>2 DEF World
    <2> QED
      BY <2>3 DEF Init, WorldType
  <1>4. FactsType
    <2>1. NoFacts \in Fact
      BY <1>2 DEF NoFacts, Fact, Facts, Verdicts
    <2> QED
      BY <2>1 DEF Init, FactsType
  <1>5. HistType
    BY <1>2, Limits DEF Init, HistType, Hist
  <1>6. StatesType
    BY DEF Init, StatesType, STATES
  <1>7. ThreadInv
    <2>1. sched = Sleeping
      BY DEF Init
    <2> QED
      BY <1>1, <2>1, SleepingType, Derived, Limits DEF ThreadInv
  <1> QED
    BY <1>1, <1>3, <1>4, <1>5, <1>6, <1>7 DEF Init, ClockType, DeferType, FlagType, TInv

-----------------------------------------------------------------------------
(* What a step leaves alone keeps its type.                                *)

\* The parts of the invariant in steps that leave their variables alone: the facts,
LEMMA SameFacts == FactsType /\ UNCHANGED <<board, facts>> => FactsType'
  BY SameBoard DEF FactsType, Fact
\* the probe history,
LEMMA SameHist == HistType /\ UNCHANGED <<board, hist>> => HistType'
  BY SameBoard DEF HistType, Hist
\* the states of the board,
LEMMA SameStates == StatesType /\ UNCHANGED <<board, state>> => StatesType'
  BY SameBoard DEF StatesType
\* the counts of deferrals,
LEMMA SameDefer == DeferType /\ UNCHANGED <<board, deferred>> => DeferType'
  BY SameBoard DEF DeferType
\* the database and its backup script,
LEMMA SameWorld == WorldType /\ UNCHANGED <<world, script>> => WorldType'
  BY DEF WorldType, World
\* the time of the last cycle,
LEMMA SameClock == ClockType /\ UNCHANGED last_probe => ClockType'
  BY DEF ClockType
\* what a thread and its results can be,
LEMMA SameThreadType == UNCHANGED board => Thread' = Thread /\ NoResults' = NoResults
  BY SameBoard DEF Thread, NoResults
\* and the scheduler thread.
LEMMA SameThread == ThreadInv /\ UNCHANGED <<board, sched>> => ThreadInv'
  BY SameBoard, SameThreadType DEF ThreadInv

\* What the thread's own actions change, apart from the thread, is written at the end of a
\* cycle and by recompute_all.
Stored == <<board, world, script, facts, hist, state, last_probe, deferred>>
StoredType ==
    BoardType /\ WorldType /\ FactsType /\ HistType /\ StatesType /\ ClockType /\ DeferType

\* A step that leaves all that is stored alone keeps its types.
LEMMA SameStored == StoredType /\ UNCHANGED Stored => StoredType'
  BY SameFacts, SameHist, SameStates, SameDefer, SameWorld, SameClock
     DEF Stored, StoredType, BoardType

-----------------------------------------------------------------------------
(* The thread's own steps.                                                 *)

\* What is to be shown of a thread that is not in the middle of a cycle.
LEMMA RestInv ==
    ASSUME UNCHANGED board, sched' \in Thread, sched'.pc \notin {"next", "probing"},
           sched'.elapsed = 0, sched'.busy = 0
    PROVE  ThreadInv'
  BY SameThreadType, Limits DEF ThreadInv

\* A thread that has finished a branch of its step has no results and no time spent.
LEMMA SleepInv ==
    ASSUME BoardType, UNCHANGED board,
           NEW pc \in {"asleep", "recompute", "inbox"}, sched' = [Sleeping EXCEPT !.pc = pc]
    PROVE  ThreadInv'
  <1>1. Sleeping \in Thread /\ Sleeping.elapsed = 0 /\ Sleeping.busy = 0
    BY SleepingType
  <1>2. sched' \in Thread /\ sched'.pc = pc /\ sched'.elapsed = 0 /\ sched'.busy = 0
    BY <1>1 DEF Thread
  <1> QED
    BY <1>2, RestInv

\* A cycle starts with no results and no time spent.
LEMMA StepProbeInv ==
    ASSUME BoardType, StepProbe
    PROVE  ThreadInv'
  <1>1. /\ Sleeping \in Thread /\ Sleeping.elapsed = 0 /\ Sleeping.busy = 0
        /\ Sleeping.results = NoResults
    BY SleepingType
  <1>2. due_probes \in SUBSET Probed
    BY DEF due_probes
  <1>3. sched' = [Sleeping EXCEPT !.pc = "next", !.todo = due_probes]
    BY DEF StepProbe
  <1>4. /\ sched' \in Thread /\ sched'.pc = "next" /\ sched'.elapsed = 0 /\ sched'.busy = 0
        /\ sched'.results = NoResults
    BY <1>1, <1>2, <1>3 DEF Thread
  <1>5. Thread' = Thread
    BY SameThreadType DEF StepProbe
  <1> QED
    BY <1>4, <1>5, Derived DEF ThreadInv

\* A listing starts only within the budget.
LEMMA ProbeJobInv ==
    ASSUME BoardType, WorldType, ThreadInv, probe_job
    PROVE  ThreadInv'
  <1>1. sched.elapsed < probe_cycle_budget
    BY Derived DEF ThreadInv, Thread, probe_job, BudgetSpent
  <1>2. PICK j \in sched.todo :
           sched' = [sched EXCEPT !.pc = "probing", !.todo = @ \ {j}, !.job = j, !.busy = 0,
                                  !.sha = IF j \in Snapshot THEN world.state_sha ELSE NULL,
                                  !.ahead = j \in Snapshot /\ world.ahead]
    BY DEF probe_job
  <1> DEFINE sha == IF j \in Snapshot THEN world.state_sha ELSE NULL
             ahead == j \in Snapshot /\ world.ahead
  <1>3. sha \in Versions \cup {NULL} /\ ahead \in BOOLEAN
    BY DEF WorldType, World
  <1>4. j \in Probed /\ sched.todo \ {j} \in SUBSET Probed
    BY DEF ThreadInv, Thread
  <1>5. sched' = [sched EXCEPT !.pc = "probing", !.todo = sched.todo \ {j}, !.job = j, !.busy = 0,
                               !.sha = sha, !.ahead = ahead]
    BY <1>2
  <1> HIDE DEF sha, ahead
  <1>6. /\ sched' \in Thread /\ sched'.pc = "probing" /\ sched'.elapsed = sched.elapsed
        /\ sched'.busy = 0 /\ sched'.job = j
    BY <1>3, <1>4, <1>5 DEF ThreadInv, Thread
  <1>7. Thread' = Thread /\ Probed' = Probed
    BY SameThreadType, SameBoard DEF probe_job
  <1>8. sched.elapsed \in Nat
    BY DEF ThreadInv, Thread
  <1> QED
    BY <1>1, <1>4, <1>6, <1>7, <1>8, Derived DEF ThreadInv

\* A listing ends at its timeout at the latest.
LEMMA ProbeReturnsInv ==
    ASSUME BoardType, WorldType, ThreadInv, NEW how \in Outcomes, ProbeReturns(how)
    PROVE  ThreadInv'
  <1> DEFINE ok == how = "listed"
             newest == IF ok /\ sched.job \in Snapshot THEN world.newest ELSE NULL
             ahead == ok /\ sched.ahead /\ world.ahead
             transient == how = "transient"
             row == [ok |-> ok, transient |-> transient, newest |-> newest,
                     state_sha |-> sched.sha, ahead |-> ahead]
             results == [sched.results EXCEPT ![sched.job] = row]
  <1>1. row \in ProbeRow(Versions)
    <2>1. newest \in Ages \cup {NULL}
      BY DEF WorldType, World
    <2>2. sched.sha \in Versions \cup {NULL}
      BY DEF ThreadInv, Thread
    <2>3. ok \in BOOLEAN /\ transient \in BOOLEAN /\ ahead \in BOOLEAN
      OBVIOUS
    <2> HIDE DEF ok, newest, ahead, transient
    <2> QED
      BY <2>1, <2>2, <2>3 DEF ProbeRow
  <1>2. sched' = [sched EXCEPT !.pc = "next", !.job = NULL, !.sha = NULL, !.ahead = FALSE, !.busy = 0,
                               !.results = results]
    BY DEF ProbeReturns
  <1> HIDE DEF row
  <1>3. sched.job \in Jobs
    BY ProbedFacts DEF ThreadInv, ProbeReturns, BoardType
  <1>4. results \in [Jobs -> ProbeRow(Versions) \cup {NULL}]
    BY <1>1 DEF ThreadInv, Thread
  <1>5. results # NoResults
    <2>1. results[sched.job] = row
      BY <1>3 DEF ThreadInv, Thread
    <2>2. row # NULL
      BY <1>1, BoardAssumption
    <2> QED
      BY <2>1, <2>2, <1>3 DEF NoResults
  <1> HIDE DEF results
  <1>6. /\ sched' \in Thread /\ sched'.pc = "next" /\ sched'.elapsed = sched.elapsed
        /\ sched'.busy = 0 /\ sched'.results = results
    BY <1>2, <1>4 DEF ThreadInv, Thread
  <1>7. Thread' = Thread /\ NoResults' = NoResults
    BY SameThreadType DEF ProbeReturns
  <1>8. /\ sched.elapsed \in Nat /\ sched.busy \in Nat
        /\ sched.elapsed < probe_cycle_budget + sched.busy /\ sched.busy <= effective_rclone_timeout
    BY DEF ThreadInv, Thread, ProbeReturns
  <1>9. sched.elapsed < probe_cycle_budget + effective_rclone_timeout
    BY <1>8, Derived
  <1> QED
    BY <1>5, <1>6, <1>7, <1>9 DEF ThreadInv

\* Time passes for a cycle, at most to the timeout of the listing in hand.
LEMMA TickThreadInv ==
    ASSUME BoardType, ThreadInv, Tick
    PROVE  ThreadInv'
  <1>1. UNCHANGED board /\ Thread' = Thread /\ Probed' = Probed
    BY SameThreadType, SameBoard DEF Tick
  <1>2. sched.elapsed \in Nat /\ sched.busy \in Nat
    BY DEF ThreadInv, Thread
  <1>3. CASE sched.pc = "asleep"
    <2>1. sched' = [sched EXCEPT !.pc = "awake"]
      BY <1>3 DEF Tick
    <2>2. sched' \in Thread /\ sched'.pc = "awake" /\ sched'.elapsed = 0 /\ sched'.busy = 0
      BY <1>3, <2>1 DEF ThreadInv, Thread
    <2> QED
      BY <1>1, <2>2, RestInv
  <1>4. CASE sched.pc = "probing"
    <2> DEFINE results == [j \in Jobs |-> Aged(sched.results[j])]
    <2>1. sched' = [sched EXCEPT !.busy = sched.busy + 1, !.elapsed = sched.elapsed + 1,
                                 !.results = results]
      BY <1>4 DEF Tick
    <2>2. results \in [Jobs -> ProbeRow(Versions) \cup {NULL}]
      BY AgedType DEF ThreadInv, Thread, ProbeRows
    <2> HIDE DEF results
    <2> DEFINE busy == sched.busy + 1
               elapsed == sched.elapsed + 1
    <2>5. busy \in Nat /\ elapsed \in Nat
      BY <1>2
    <2>6. sched' = [sched EXCEPT !.busy = busy, !.elapsed = elapsed, !.results = results]
      BY <2>1
    <2> HIDE DEF busy, elapsed
    <2>7. /\ sched' \in Thread /\ sched'.pc = "probing" /\ sched'.elapsed = elapsed
          /\ sched'.busy = busy /\ sched'.job = sched.job
      BY <1>4, <2>2, <2>5, <2>6 DEF ThreadInv, Thread
    <2>3. /\ sched' \in Thread /\ sched'.pc = "probing" /\ sched'.elapsed = sched.elapsed + 1
          /\ sched'.busy = sched.busy + 1 /\ sched'.job = sched.job
      BY <2>7 DEF busy, elapsed
    <2>4. /\ sched.job \in Probed /\ sched.busy < effective_rclone_timeout
          /\ sched.elapsed < probe_cycle_budget + sched.busy
      BY <1>4 DEF ThreadInv, Tick
    <2> QED
      BY <1>1, <1>2, <2>3, <2>4, Derived DEF ThreadInv
  <1>5. CASE sched.pc = "inbox"
    <2>1. sched' = [sched EXCEPT !.busy = sched.busy + 1]
      BY <1>5 DEF Tick
    <2>2. /\ sched' \in Thread /\ sched'.pc = "inbox" /\ sched'.elapsed = 0
          /\ sched'.busy = sched.busy + 1
      BY <1>2, <1>5, <2>1 DEF ThreadInv, Thread
    <2>3. sched.busy < INBOX_MAX
      BY <1>5 DEF Tick
    <2> QED
      BY <1>1, <1>2, <2>2, <2>3, Limits DEF ThreadInv
  <1> QED
    BY <1>3, <1>4, <1>5 DEF Tick

-----------------------------------------------------------------------------
(* What the steps write.                                                   *)

\* A recorded ping keeps the types of all facts.
LEMMA PingType ==
    ASSUME BoardType, FactsType, UNCHANGED board, NEW j \in All,
           NEW status \in {"ok", "fail", "metric"}, NEW verdict \in Verdicts,
           NEW sha \in Versions \cup {NULL}, record_ping(j, status, verdict, sha)
    PROVE  FactsType' /\ StatesType'
  <1>1. facts[j] \in Fact
    BY DEF FactsType
  <1>2. Pinged(Kind(j), facts[j], status, verdict, sha) \in Fact
    BY <1>1, PingedType
  <1>3. facts' = [facts EXCEPT ![j] = Pinged(Kind(j), facts[j], status, verdict, sha)]
    BY DEF record_ping
  <1>4. facts' \in [All -> Fact]
    BY <1>2, <1>3 DEF FactsType
  <1>5. All' = All
    BY SameBoard
  <1>6. state' \in [All -> STATES]
    BY RecomputeType DEF record_ping
  <1> QED
    BY <1>4, <1>5, <1>6 DEF FactsType, StatesType, Fact

\* Time passes for all that is stored.
LEMMA TickStoreType ==
    ASSUME StoredType, Tick
    PROVE  StoredType'
  <1> USE DEF StoredType
  <1>1. Jobs' = Jobs /\ All' = All /\ BoardType'
    BY SameBoard DEF Tick, BoardType
  <1>2. WorldType'
    <2>1. Older(world.newest) \in Ages \cup {NULL}
      BY OlderType DEF WorldType, World, MaybeAge
    <2>2. world' = [world EXCEPT !.newest = Older(world.newest)] /\ script' = script
      BY DEF Tick
    <2> QED
      BY <2>1, <2>2 DEF WorldType, World
  <1>3. FactsType'
    <2>1. facts' \in [All -> Fact]
      BY TickFactType DEF Tick, FactsType
    <2> QED
      BY <1>1, <2>1 DEF FactsType, Fact
  <1>4. HistType'
    <2>1. ASSUME NEW j \in Jobs
          PROVE  hist'[j] \in Hist
      <3> DEFINE age == IF board[j].interval = NULL THEN hist[j].age ELSE Older(hist[j].age)
      <3>1. hist[j] \in Hist
        BY DEF HistType
      <3>2. Older(hist[j].silent) \in Ages \cup {NULL} /\ age \in Ages
        BY <3>1, OlderType DEF Hist, MaybeAge
      <3>3. hist'[j] = [hist[j] EXCEPT !.silent = Older(hist[j].silent), !.age = age]
        BY DEF Tick
      <3> HIDE DEF age
      <3> QED
        BY <3>1, <3>2, <3>3 DEF Hist
    <2>2. hist' = [j \in Jobs |-> hist'[j]]
      BY DEF Tick
    <2> QED
      BY <1>1, <2>1, <2>2 DEF HistType, Hist
  <1>5. ClockType'
    <2>1. CASE last_probe \in 0..PROBE_INTERVAL /\ last_probe # PROBE_INTERVAL
      <3>1. last_probe' = Older(last_probe)
        BY <2>1 DEF Tick
      <3>2. last_probe' \in {last_probe, last_probe + 1}
        BY <3>1 DEF Older
      <3> QED
        BY <2>1, <3>2, Limits DEF ClockType
    <2>2. CASE last_probe = PROBE_INTERVAL
      BY <2>2, Limits DEF ClockType, Tick
    <2>3. CASE last_probe = NULL /\ last_probe # PROBE_INTERVAL
      BY <2>3 DEF ClockType, Tick, Older
    <2> QED
      BY <2>1, <2>2, <2>3 DEF ClockType
  <1>6. StatesType' /\ DeferType'
    BY SameStates, SameDefer DEF Tick
  <1> QED
    BY <1>1, <1>2, <1>3, <1>4, <1>5, <1>6

\* insert_probe puts the rows of a cycle behind every other and leaves the order of the others
\* as it was.
LEMMA RanksAfter ==
    ASSUME BoardType, HistType, NEW results,
           NEW h, h = insert_probe(results)
    PROVE  /\ \A j \in Jobs : h[j].rank \in Nat
           /\ \A j \in Jobs \ Returned(results), i \in Returned(results) : h[j].rank < h[i].rank
           /\ \A j, k \in Jobs \ Returned(results) :
                 hist[j].rank < hist[k].rank => h[j].rank < h[k].rank
  <1> DEFINE others == Jobs \ Returned(results)
             ranks == [j \in Jobs |-> hist[j].rank]
             kept == {hist[j].rank : j \in others} \ {0}
             Below(r) == Cardinality({k \in kept : k <= r})
  <1>1. ranks \in [Jobs -> Nat]
    BY DEF HistType, Hist
  <1>2. IsFiniteSet(kept) /\ kept \subseteq Nat /\ Cardinality(kept) \in Nat
    <2>1. IsFiniteSet(others) /\ others \subseteq Jobs
      BY BoardFacts, FS_Subset DEF BoardType
    <2>2. IsFiniteSet({ranks[j] : j \in others})
      BY <2>1, ImageFinite
    <2>3. kept \subseteq {ranks[j] : j \in others} /\ kept \subseteq Nat
      BY <1>1, <2>1
    <2> HIDE DEF kept, ranks, others
    <2> QED
      BY <2>2, <2>3, FS_Subset, FS_CardinalityType
  <1>3. ASSUME NEW j \in others
        PROVE  h[j].rank = Below(ranks[j])
    <2>1. h[j] = [hist[j] EXCEPT !.rank = Below(hist[j].rank)]
      BY <1>3 DEF insert_probe
    <2>2. hist[j] \in Hist
      BY DEF HistType
    <2> HIDE DEF Below
    <2>3. h[j].rank = Below(hist[j].rank)
      BY <2>1, <2>2 DEF Hist
    <2> QED
      BY <2>3
  <1>4. ASSUME NEW i \in Returned(results)
        PROVE  h[i].rank = Cardinality(kept) + 1
    BY DEF insert_probe, Returned
  <1>5. ASSUME NEW r \in Nat
        PROVE  Below(r) \in Nat /\ Below(r) <= Cardinality(kept)
    <2> HIDE DEF kept
    <2>1. {k \in kept : k <= r} \in SUBSET kept
      OBVIOUS
    <2> QED
      BY <1>2, <2>1, FS_Subset, FS_CardinalityType
  <1>6. ASSUME NEW j \in others, NEW k \in others, ranks[j] < ranks[k]
        PROVE  Below(ranks[j]) < Below(ranks[k])
    <2>1. ranks[k] \in kept /\ ranks[j] \in Nat /\ ranks[k] \in Nat
      BY <1>1, <1>6
    <2> HIDE DEF kept, ranks
    <2>2. IsFiniteSet({x \in kept : x <= ranks[k]})
      BY <1>2, FS_Subset
    <2>3. {x \in kept : x <= ranks[j]} \subseteq {x \in kept : x <= ranks[k]}
      <3>1. \A x \in kept : x <= ranks[j] => x <= ranks[k]
        BY <1>2, <1>6, <2>1
      <3> QED
        BY <3>1
    <2>4. ranks[k] \in {x \in kept : x <= ranks[k]} /\ ranks[k] \notin {x \in kept : x <= ranks[j]}
      BY <1>6, <2>1
    <2> QED
      BY <2>2, <2>3, <2>4, SmallerPart
  <1>7. \A j \in others : ranks[j] = hist[j].rank /\ ranks[j] \in Nat
    BY <1>1
  <1>8. \A j \in Jobs : j \in others \/ j \in Returned(results)
    OBVIOUS
  <1> HIDE DEF others, ranks, kept, Below
  <1>9. \A j \in Jobs : h[j].rank \in Nat
    BY <1>2, <1>3, <1>4, <1>5, <1>7, <1>8
  <1>10. \A j \in others, i \in Returned(results) : h[j].rank < h[i].rank
    BY <1>2, <1>3, <1>4, <1>5, <1>7
  <1>11. \A j, k \in others : hist[j].rank < hist[k].rank => h[j].rank < h[k].rank
    BY <1>3, <1>6, <1>7
  <1> QED
    BY <1>9, <1>10, <1>11 DEF others

\* The rows a cycle inserts leave a history of every job.
LEMMA InsertType ==
    ASSUME BoardType, HistType, NEW results
    PROVE  insert_probe(results) \in [Jobs -> Hist]
  <1> DEFINE h == insert_probe(results)
  <1>1. \A j \in Jobs : h[j].rank \in Nat
    BY RanksAfter
  <1>2. ASSUME NEW j \in Jobs
        PROVE  h[j] \in Hist
    <2>1. hist[j] \in Hist
      BY DEF HistType
    <2>2. CASE j \notin Returned(results)
      <3> DEFINE rank == Cardinality({k \in {hist[i].rank : i \in Jobs \ Returned(results)} \ {0} :
                                           k <= hist[j].rank})
      <3>1. h[j] = [hist[j] EXCEPT !.rank = rank]
        BY <2>2 DEF insert_probe
      <3>2. h[j].rank = rank
        <4> HIDE DEF rank, h
        <4> QED
          BY <3>1, <2>1 DEF Hist
      <3>3. rank \in Nat
        BY <1>1, <3>2
      <3> HIDE DEF rank, h
      <3> QED
        BY <3>1, <3>3, <2>1 DEF Hist
    <2>3. CASE j \in Returned(results)
      <3> DEFINE streak == IF results[j].ok THEN 0
                           ELSE IF hist[j].streak < PROBE_FAIL_THRESHOLD THEN hist[j].streak + 1
                           ELSE hist[j].streak
                 silent == IF results[j].ok \/ hist[j].silent = NULL THEN 0 ELSE hist[j].silent
                 rank == Cardinality({hist[i].rank : i \in Jobs \ Returned(results)} \ {0}) + 1
      <3>1. h[j] = [streak |-> streak, silent |-> silent, rank |-> rank, age |-> 0]
        BY <2>3 DEF insert_probe
      <3>2. streak \in 0..PROBE_FAIL_THRESHOLD
        BY <2>1, Limits DEF Hist
      <3>3. silent \in Ages \cup {NULL} /\ 0 \in Ages
        BY <2>1, OlderType DEF Hist
      <3>4. rank \in Nat
        <4> HIDE DEF rank, h
        <4> QED
          BY <1>1, <3>1
      <3> HIDE DEF rank, h, silent, streak
      <3> QED
        BY <3>1, <3>2, <3>3, <3>4 DEF Hist
    <2> QED
      BY <2>2, <2>3
  <1>3. h = [j \in Jobs |-> h[j]]
    BY DEF insert_probe
  <1> HIDE DEF h
  <1>4. h \in [Jobs -> Hist]
    BY <1>2, <1>3
  <1> QED
    BY <1>4 DEF h

\* The transaction that ends a cycle.
LEMMA CycleEndType ==
    ASSUME StoredType, ThreadInv, CycleEnd
    PROVE  StoredType' /\ ThreadInv'
  <1> USE DEF StoredType
  <1>1. Jobs' = Jobs /\ All' = All /\ BoardType' /\ UNCHANGED board
    BY SameBoard DEF CycleEnd, BoardType
  <1>2. HistType'
    <2>1. hist' \in [Jobs -> Hist]
      BY InsertType DEF CycleEnd, run_probe_cycle
    <2> QED
      BY <1>1, <2>1 DEF HistType, Hist
  <1>3. FactsType'
    <2> DEFINE results == sched.results
               fs == [j \in All |-> IF j \in Returned(results)
                                    THEN [facts[j] EXCEPT !.probe = results[j]] ELSE facts[j]]
               tripped == \E j \in probe_trouble(fs) : _classify_trouble(j, fs, hist')
               status == IF tripped THEN "fail" ELSE "ok"
    <2>1. \A j \in Jobs : results[j] \in ProbeRows
      BY DEF ThreadInv, Thread, ProbeRows
    <2>2. fs \in [All -> Fact]
      <3>1. ASSUME NEW j \in All
            PROVE  (IF j \in Returned(results)
                    THEN [facts[j] EXCEPT !.probe = results[j]] ELSE facts[j]) \in Fact
        <4>1. facts[j] \in Fact
          BY DEF FactsType
        <4>2. CASE j \in Returned(results)
          <5>1. results[j] \in ProbeRows
            BY <2>1, <4>2 DEF Returned
          <5>2. [facts[j] EXCEPT !.probe = results[j]] \in Fact
            BY <4>1, <5>1, ProbedType
          <5> QED
            BY <4>2, <5>2
        <4>3. CASE j \notin Returned(results)
          BY <4>1, <4>3
        <4> QED
          BY <4>2, <4>3
      <3> QED
        BY <3>1
    <2>3. facts' = [fs EXCEPT ![SELF] = Pinged("probe", fs[SELF], status, "other", NULL)]
      BY DEF CycleEnd, run_probe_cycle
    <2>4. status \in {"ok", "fail", "metric"} /\ "other" \in Verdicts /\ NULL \in Versions \cup {NULL}
      BY DEF Verdicts
    <2>5. SELF \in All
      BY DEF All
    <2> HIDE DEF fs, status
    <2>6. Pinged("probe", fs[SELF], status, "other", NULL) \in Fact
      BY <2>2, <2>4, <2>5, PingedType
    <2>7. facts' \in [All -> Fact]
      BY <2>2, <2>3, <2>6
    <2> QED
      BY <1>1, <2>7 DEF FactsType, Fact
  <1>4. ClockType'
    BY Limits DEF CycleEnd, ClockType
  <1>5. DeferType'
    <2>1. \A j \in Jobs : deferred[j] \in Nat
      BY DEF DeferType
    <2>2. deferred' \in [Jobs -> Nat]
      BY <2>1 DEF CycleEnd
    <2> QED
      BY <1>1, <2>2 DEF DeferType
  <1>6. StatesType' /\ WorldType'
    BY SameStates, SameWorld DEF CycleEnd
  <1>7. ThreadInv'
    BY <1>1, SleepInv DEF CycleEnd
  <1> QED
    BY <1>1, <1>2, <1>3, <1>4, <1>5, <1>6, <1>7

\* The database changes, and its backup pushes or dies.
LEMMA BackupType ==
    ASSUME StoredType, Change \/ BackupPush \/ BackupDies
    PROVE  StoredType'
  <1> USE DEF StoredType
  <1>1. UNCHANGED <<board, facts, hist, state, last_probe, deferred>>
    BY DEF Change, BackupPush, BackupDies
  <1>2. WorldType'
    <2>1. CASE Change
      <3>1. world.db + 1 \in Versions
        BY <2>1, Limits DEF Change, WorldType, World, Versions
      <3>2. world' = [world EXCEPT !.db = world.db + 1] /\ script' = script
        BY <2>1 DEF Change
      <3> QED
        BY <3>1, <3>2 DEF WorldType, World
    <2>2. CASE BackupPush
      <3> DEFINE ahead == world.ahead \/ Over(world.newest, PUSH_SLACK)
      <3>1. script' = world.db /\ world.db \in Versions /\ 0 \in Ages /\ ahead \in BOOLEAN
        BY <2>2, OlderType DEF BackupPush, WorldType, World
      <3>2. CASE UNCHANGED world
        BY <3>1, <3>2 DEF WorldType, World
      <3>3. CASE world' = [world EXCEPT !.state_sha = world.db, !.newest = 0, !.ahead = FALSE]
        BY <3>1, <3>3 DEF WorldType, World
      <3>4. CASE world' = [world EXCEPT !.state_sha = world.db, !.ahead = ahead]
        <4> HIDE DEF ahead
        <4> QED
          BY <3>1, <3>4 DEF WorldType, World
      <3> QED
        BY <2>2, <3>2, <3>3, <3>4 DEF BackupPush
    <2>3. CASE BackupDies
      BY <2>3 DEF BackupDies, WorldType, World
    <2> QED
      BY <2>1, <2>2, <2>3
  <1> QED
    BY <1>1, <1>2, SameFacts, SameHist, SameStates, SameDefer, SameClock DEF BoardType

\* A job reports.
LEMMA HeartbeatType ==
    ASSUME StoredType, NEW j \in Jobs, NEW word \in board[j].words, Heartbeat(j, word)
    PROVE  StoredType'
  <1> USE DEF StoredType
  <1>1. word[1] \in {"ok", "fail", "metric"} /\ word[2] \in Verdicts
    <2>1. word \in Words
      BY BoardFacts DEF BoardType, Job
    <2> QED
      BY <2>1 DEF Words
  <1>2. j \in All /\ NULL \in Versions \cup {NULL}
    BY DEF All
  <1>3. FactsType' /\ StatesType'
    BY <1>1, <1>2, PingType DEF Heartbeat
  <1> QED
    BY <1>3, SameHist, SameDefer, SameWorld, SameClock DEF Heartbeat, BoardType

\* The backup script reports.
LEMMA BackupReportsType ==
    ASSUME StoredType, BackupReports
    PROVE  StoredType'
  <1> USE DEF StoredType
  <1>1. PICK j \in Snapshot, status \in {"ok", "fail"} :
           record_ping(j, status, "other", IF board[j].sha THEN script ELSE NULL)
    BY DEF BackupReports
  <1> DEFINE sha == IF board[j].sha THEN script ELSE NULL
  <1>2. sha \in Versions \cup {NULL} /\ "other" \in Verdicts /\ j \in All
    BY DEF WorldType, Verdicts, Snapshot, All
  <1>3. record_ping(j, status, "other", sha)
    BY <1>1
  <1> HIDE DEF sha
  <1>4. FactsType' /\ StatesType'
    BY <1>2, <1>3, PingType DEF BackupReports
  <1>5. WorldType'
    BY DEF BackupReports, WorldType, World
  <1> QED
    BY <1>4, <1>5, SameHist, SameDefer, SameClock DEF BackupReports, BoardType

\* A failure sets the flag, a tick clears it, and nothing else touches it.
LEMMA NextFlag == FlagType /\ [Next]_vars => FlagType'
  <1> SUFFICES ASSUME FlagType, [Next]_vars PROVE failed' \in {failed, TRUE, FALSE}
    BY DEF FlagType
  <1> QED
    BY DEF Next, Scheduler, StepProbe, StepTick, probe_job, CycleEnd, recompute_all, InboxDone, ProbeReturns,
           Heartbeat, Change, BackupPush, BackupReports, BackupDies, StepFails, Restart, Tick, vars

\* Every step keeps the types.
LEMMA NextTInv == TInv /\ [Next]_vars => TInv'
  <1> SUFFICES ASSUME TInv, [Next]_vars PROVE TInv'
    OBVIOUS
  <1>1. StoredType /\ ThreadInv
    BY DEF TInv, StoredType
  <1>2. SUFFICES StoredType' /\ ThreadInv'
    BY NextFlag DEF TInv, StoredType
  <1>3. BoardType /\ WorldType
    BY DEF TInv
  <1>4. CASE StepProbe
    BY <1>1, <1>3, <1>4, StepProbeInv, SameStored DEF StepProbe, Stored
  <1>5. CASE StepTick
    <2>1. sched' = [sched EXCEPT !.pc = "recompute"] /\ sched.pc = "awake"
      BY <1>5 DEF StepTick
    <2>2. sched' \in Thread /\ sched'.pc = "recompute" /\ sched'.elapsed = 0 /\ sched'.busy = 0
      BY <1>1, <2>1 DEF ThreadInv, Thread
    <2> QED
      BY <1>1, <1>5, <2>2, RestInv, SameStored DEF StepTick, Stored
  <1>6. CASE probe_job
    BY <1>1, <1>3, <1>6, ProbeJobInv, SameStored DEF probe_job, Stored
  <1>7. CASE CycleEnd
    BY <1>1, <1>7, CycleEndType
  <1>8. CASE recompute_all
    <2>1. sched' = [sched EXCEPT !.pc = "inbox"] /\ sched.pc = "recompute"
      BY <1>8 DEF recompute_all
    <2>2. sched' \in Thread /\ sched'.pc = "inbox" /\ sched'.elapsed = 0 /\ sched'.busy = 0
      BY <1>1, <2>1 DEF ThreadInv, Thread
    <2>3. ThreadInv'
      BY <1>8, <2>2, RestInv DEF recompute_all
    <2>4. StatesType'
      BY <1>8, RecomputeType, SameBoard DEF recompute_all, StatesType
    <2> QED
      BY <1>1, <1>8, <2>3, <2>4, SameFacts, SameHist, SameDefer, SameWorld, SameClock
         DEF recompute_all, StoredType, BoardType
  <1>9. CASE InboxDone
    <2>1. sched' = Sleeping
      BY <1>9 DEF InboxDone
    <2> QED
      BY <1>1, <1>3, <1>9, <2>1, SleepingType, RestInv, SameStored DEF InboxDone, Stored
  <1>10. ASSUME NEW how \in Outcomes, ProbeReturns(how)
         PROVE  StoredType' /\ ThreadInv'
    BY <1>1, <1>3, <1>10, ProbeReturnsInv, SameStored DEF ProbeReturns, Stored
  <1>11. ASSUME NEW j \in Jobs, NEW word \in board[j].words, Heartbeat(j, word)
         PROVE  StoredType' /\ ThreadInv'
    BY <1>1, <1>11, HeartbeatType, SameThread DEF Heartbeat
  <1>12. CASE Change \/ BackupPush \/ BackupDies
    BY <1>1, <1>12, BackupType, SameThread DEF Change, BackupPush, BackupDies
  <1>13. CASE BackupReports
    BY <1>1, <1>13, BackupReportsType, SameThread DEF BackupReports
  <1>14. CASE StepFails
    BY <1>1, <1>3, <1>14, SleepInv, SameStored DEF StepFails, Stored
  <1>15. CASE Restart
    <2>1. sched' = Sleeping
      BY <1>15 DEF Restart
    <2>2. ThreadInv'
      BY <1>3, <1>15, <2>1, SleepingType, RestInv DEF Restart
    <2>3. ClockType'
      BY <1>15 DEF Restart, ClockType
    <2> QED
      BY <1>1, <1>15, <2>2, <2>3, SameFacts, SameHist, SameStates, SameDefer, SameWorld
         DEF Restart, StoredType, BoardType
  <1>16. CASE Tick
    BY <1>1, <1>3, <1>16, TickStoreType, TickThreadInv
  <1>17. CASE UNCHANGED vars
    BY <1>1, <1>17, SameStored, SameThread DEF vars, Stored
  <1> QED
    BY <1>4, <1>5, <1>6, <1>7, <1>8, <1>9, <1>10, <1>11, <1>12, <1>13, <1>14, <1>15, <1>16, <1>17
       DEF Next, Scheduler

\* The types, for every behaviour.
LEMMA TInvAlways == Spec => []TInv
  BY InitTInv, NextTInv, PTL DEF Spec

\* Facts, rows and the thread keep their types; no listing outlasts its timeout, and no cycle
\* its budget by a whole listing, whatever is due, fails, hangs or is restarted.
THEOREM TypeCorrect == Spec => []TypeOK
  BY TInvAlways, TInvImpliesTypeOK, PTL

-----------------------------------------------------------------------------
(* No starvation.  Within a cycle, whatever was taken was last probed no   *)
(* later than what is left; so a job that is left out sees at least one    *)
(* other job pass behind it, and those behind it already stay there.  The  *)
(* number of jobs probed after it bounds how often it was left out.        *)

\* What the cycle has taken from its list.
Taken == Returned(sched.results) \cup (IF sched.pc = "probing" THEN {sched.job} ELSE {})

CycleInv ==
    sched.pc \in {"next", "probing"} =>
        /\ Taken \subseteq Probed
        /\ \A i \in Taken, k \in sched.todo : i # k /\ hist[i].rank <= hist[k].rank

\* The destinations probed after job j.
Newer(j) == {k \in Probed : hist[j].rank < hist[k].rank}

DeferInv == \A j \in Jobs : deferred[j] <= Cardinality(Newer(j))

\* The jobs probed later than a job are finitely many.
LEMMA NewerFinite ==
    ASSUME BoardType, NEW j
    PROVE  IsFiniteSet(Newer(j)) /\ Cardinality(Newer(j)) \in Nat
  BY ProbedFacts, FS_Subset, FS_CardinalityType DEF Newer, BoardType

\* The jobs probed later than a job are fewer than all probed jobs.
LEMMA DeferImpliesNoStarvation == TInv /\ DeferInv => NoStarvation
  <1> SUFFICES ASSUME TInv, DeferInv, NEW j \in Probed
               PROVE  deferred[j] < Cardinality(Probed)
    BY DEF NoStarvation
  <1>1. IsFiniteSet(Probed) /\ j \in Jobs
    BY ProbedFacts DEF TInv, BoardType
  <1>2. Newer(j) \subseteq Probed /\ j \notin Newer(j)
    <2>1. hist[j].rank \in Nat
      BY <1>1 DEF TInv, HistType, Hist
    <2> QED
      BY <2>1 DEF Newer
  <1>3. /\ Cardinality(Newer(j)) < Cardinality(Probed)
        /\ Cardinality(Newer(j)) \in Nat /\ Cardinality(Probed) \in Nat
    BY <1>1, <1>2, SmallerPart
  <1>4. deferred[j] \in Nat /\ deferred[j] <= Cardinality(Newer(j))
    BY <1>1 DEF TInv, DeferType, DeferInv
  <1> QED
    BY <1>3, <1>4

\* Nothing is probed or deferred yet.
LEMMA InitCycle == Init => CycleInv /\ DeferInv
  <1> SUFFICES ASSUME Init PROVE CycleInv /\ DeferInv
    OBVIOUS
  <1>1. BoardType /\ TInv
    BY InitTInv DEF TInv
  <1>2. sched.pc = "asleep"
    BY DEF Init, Sleeping
  <1>3. CycleInv
    BY <1>2 DEF CycleInv
  <1>4. ASSUME NEW j \in Jobs
        PROVE  deferred[j] <= Cardinality(Newer(j))
    <2>1. deferred[j] = 0
      BY DEF Init
    <2> QED
      BY <1>1, <2>1, NewerFinite
  <1> QED
    BY <1>3, <1>4 DEF DeferInv

\* A step that changes no rank leaves the bound as it is.
LEMMA SameRanks ==
    ASSUME DeferInv, UNCHANGED <<board, deferred>>, \A j \in Jobs : hist'[j].rank = hist[j].rank
    PROVE  DeferInv'
  <1>1. Jobs' = Jobs /\ Probed' = Probed /\ Probed \subseteq Jobs
    BY SameBoard DEF Probed
  <1>2. ASSUME NEW j \in Jobs
        PROVE  Newer(j)' = Newer(j)
    BY <1>1, <1>2 DEF Newer
  <1>3. ASSUME NEW j \in Jobs
        PROVE  deferred'[j] <= Cardinality(Newer(j)')
    BY <1>2, <1>3 DEF DeferInv
  <1> QED
    BY <1>1, <1>3 DEF DeferInv

\* The end of a cycle: a job that was left out was left to at least one other.
LEMMA CycleEndDefer ==
    ASSUME TInv, CycleInv, DeferInv, CycleEnd
    PROVE  DeferInv'
  <1>1. /\ BoardType /\ BoardType' /\ HistType
        /\ Jobs' = Jobs /\ Probed' = Probed /\ Probed \subseteq Jobs
    BY SameBoard DEF TInv, CycleEnd, BoardType, Probed
  <1> DEFINE results == sched.results
             h == insert_probe(results)
  <1>2. hist' = h
    BY DEF CycleEnd, run_probe_cycle
  <1>3. /\ \A j \in Jobs \ Returned(results), i \in Returned(results) : h[j].rank < h[i].rank
        /\ \A j, k \in Jobs \ Returned(results) :
              hist[j].rank < hist[k].rank => h[j].rank < h[k].rank
    BY <1>1, RanksAfter
  <1>4. SUFFICES ASSUME NEW j \in Jobs
                 PROVE  deferred'[j] <= Cardinality(Newer(j)')
    BY <1>1 DEF DeferInv
  <1>5. IsFiniteSet(Newer(j)') /\ Cardinality(Newer(j)') \in Nat
    <2>1. Newer(j)' \subseteq Probed
      BY <1>1 DEF Newer
    <2> QED
      BY <1>1, <2>1, ProbedFacts, FS_Subset, FS_CardinalityType DEF BoardType
  <1>6. CASE j \notin sched.todo
    <2>1. deferred'[j] = 0
      BY <1>6 DEF CycleEnd
    <2> QED
      BY <1>5, <2>1
  <1>7. CASE j \in sched.todo
    <2>1. PICK i \in Jobs : results[i] # NULL
      <3>1. results # NoResults
        BY <1>7 DEF CycleEnd, BudgetSpent
      <3>2. results \in [Jobs -> ProbeRows]
        BY DEF TInv, ThreadInv, Thread, ProbeRows
      <3> QED
        BY <3>1, <3>2 DEF NoResults
    <2>2. i \in Returned(results)
      BY <2>1 DEF Returned
    <2>3. \A x \in Returned(results) : x # j /\ hist[x].rank <= hist[j].rank
      BY <1>7 DEF CycleInv, CycleEnd, Taken
    <2>4. j \notin Returned(results)
      BY <2>3
    <2>5. i \in Probed
      BY <2>2 DEF CycleInv, CycleEnd, Taken
    <2>6. Newer(j) \subseteq Newer(j)'
      <3>1. ASSUME NEW k \in Newer(j)
            PROVE  k \in Newer(j)'
        <4>1. k \in Probed /\ k \in Jobs /\ hist[j].rank < hist[k].rank
          BY <1>1 DEF Newer
        <4>2. hist[j].rank \in Nat /\ hist[k].rank \in Nat
          BY <4>1, <1>1 DEF HistType, Hist
        <4>3. k \notin Returned(results)
          BY <2>3, <4>1, <4>2
        <4>4. h[j].rank < h[k].rank
          BY <1>3, <2>4, <4>1, <4>3
        <4> QED
          BY <1>1, <1>2, <4>1, <4>4 DEF Newer
      <3> QED
        BY <3>1
    <2>7. i \in Newer(j)'
      BY <1>1, <1>2, <1>3, <2>2, <2>4, <2>5 DEF Newer
    <2>8. i \notin Newer(j)
      <3>1. hist[i].rank <= hist[j].rank /\ hist[i].rank \in Nat /\ hist[j].rank \in Nat
        BY <2>1, <2>2, <2>3, <1>1 DEF HistType, Hist
      <3> QED
        BY <3>1 DEF Newer
    <2>9. Cardinality(Newer(j)) < Cardinality(Newer(j)') /\ Cardinality(Newer(j)) \in Nat
      BY <1>5, <2>6, <2>7, <2>8, SmallerPart
    <2>10. deferred'[j] = deferred[j] + 1 /\ deferred[j] \in Nat
      BY <1>7 DEF CycleEnd, TInv, DeferType
    <2>11. deferred[j] <= Cardinality(Newer(j))
      BY DEF DeferInv
    <2> QED
      BY <1>5, <2>9, <2>10, <2>11
  <1> QED
    BY <1>6, <1>7

\* While neither the ranks nor what is left change, only what is taken matters.
LEMMA SameCycle ==
    ASSUME TInv, CycleInv, UNCHANGED board, \A j \in Jobs : hist'[j].rank = hist[j].rank,
           sched.pc \in {"next", "probing"}, Taken' \subseteq Taken, sched'.todo = sched.todo
    PROVE  CycleInv'
  <1>1. Probed' = Probed /\ Probed \subseteq Jobs /\ sched.todo \subseteq Probed
    BY SameBoard DEF Probed, TInv, ThreadInv, Thread
  <1> QED
    BY <1>1 DEF CycleInv

\* The job that is taken is one of those probed longest ago.
LEMMA ProbeJobCycle ==
    ASSUME TInv, CycleInv, probe_job
    PROVE  CycleInv'
  <1>1. PICK j \in sched.todo :
           /\ \A k \in sched.todo \ {j} : ProbedBefore(j, k)
           /\ sched' = [sched EXCEPT !.pc = "probing", !.todo = @ \ {j}, !.job = j, !.busy = 0,
                                     !.sha = IF j \in Snapshot THEN world.state_sha ELSE NULL,
                                     !.ahead = j \in Snapshot /\ world.ahead]
    BY DEF probe_job
  <1>2. /\ sched'.pc = "probing" /\ sched'.todo = sched.todo \ {j} /\ sched'.job = j
        /\ sched'.results = sched.results
    BY <1>1 DEF TInv, ThreadInv, Thread
  <1>3. Jobs' = Jobs /\ Probed' = Probed /\ hist' = hist
    BY SameBoard DEF probe_job
  <1>4. Taken' = Returned(sched.results) \cup {j}
    BY <1>2, <1>3 DEF Taken, Returned
  <1>5. Returned(sched.results) = Taken /\ sched.pc = "next"
    BY DEF probe_job, Taken
  <1>6. sched.todo \subseteq Probed /\ Probed \subseteq Jobs
    BY DEF TInv, ThreadInv, Thread, Probed
  <1>7. ASSUME NEW k \in sched.todo \ {j}
        PROVE  hist[j].rank <= hist[k].rank
    <2>1. hist[j].rank \in Nat /\ hist[k].rank \in Nat
      BY <1>6 DEF TInv, HistType, Hist
    <2>2. ProbedBefore(j, k)
      BY <1>1
    <2> QED
      BY <2>1, <2>2 DEF ProbedBefore
  <1>8. Taken' \subseteq Probed
    BY <1>4, <1>5, <1>6 DEF CycleInv
  <1>9. ASSUME NEW i \in Taken', NEW k \in sched'.todo
        PROVE  i # k /\ hist[i].rank <= hist[k].rank
    <2>1. k \in sched.todo /\ k # j
      BY <1>2
    <2>2. CASE i = j
      BY <1>7, <2>1, <2>2
    <2>3. CASE i # j
      BY <1>4, <1>5, <2>1, <2>3 DEF CycleInv
    <2> QED
      BY <2>2, <2>3
  <1> QED
    BY <1>3, <1>8, <1>9 DEF CycleInv

\* Every step keeps the order of a cycle and the bound on deferrals.
LEMMA NextCycle ==
    ASSUME TInv, CycleInv, DeferInv, [Next]_vars
    PROVE  CycleInv' /\ DeferInv'
  <1>1. CASE StepProbe
    <2>1. sched' = [Sleeping EXCEPT !.pc = "next", !.todo = due_probes]
      BY <1>1 DEF StepProbe
    <2>2. sched'.pc = "next" /\ sched'.results = NoResults
      BY <2>1 DEF Sleeping
    <2>3. Taken' = {}
      BY <1>1, <2>2, SameBoard DEF Taken, Returned, NoResults, StepProbe
    <2>4. CycleInv'
      BY <2>3 DEF CycleInv
    <2> QED
      BY <1>1, <2>4, SameRanks DEF StepProbe
  <1>2. CASE probe_job
    BY <1>2, ProbeJobCycle, SameRanks DEF probe_job
  <1>3. ASSUME NEW how \in Outcomes, ProbeReturns(how)
        PROVE  CycleInv' /\ DeferInv'
    <2>1. PICK row : sched' = [sched EXCEPT !.pc = "next", !.job = NULL, !.sha = NULL, !.ahead = FALSE,
                                            !.busy = 0, !.results = [@ EXCEPT ![sched.job] = row]]
      BY <1>3 DEF ProbeReturns
    <2>2. /\ sched'.pc = "next" /\ sched'.todo = sched.todo
          /\ sched'.results = [sched.results EXCEPT ![sched.job] = row]
      BY <2>1 DEF TInv, ThreadInv, Thread
    <2>3. Jobs' = Jobs /\ UNCHANGED <<board, hist, deferred>> /\ sched.pc = "probing"
      BY <1>3, SameBoard DEF ProbeReturns
    <2>4. Taken' \subseteq Taken
      BY <2>2, <2>3 DEF Taken, Returned, TInv, ThreadInv, Thread
    <2>5. CycleInv'
      BY <2>2, <2>3, <2>4, SameCycle
    <2> QED
      BY <2>3, <2>5, SameRanks
  <1>4. CASE CycleEnd
    <2>1. sched'.pc = "recompute"
      BY <1>4 DEF CycleEnd, Sleeping
    <2>2. CycleInv'
      BY <2>1 DEF CycleInv
    <2> QED
      BY <1>4, <2>2, CycleEndDefer
  <1>5. CASE Tick
    <2>1. Jobs' = Jobs /\ UNCHANGED <<board, deferred>>
      BY <1>5, SameBoard DEF Tick
    <2>2. ASSUME NEW j \in Jobs PROVE hist'[j].rank = hist[j].rank
      <3>1. hist[j] \in Hist
        BY DEF TInv, HistType
      <3>2. hist'[j] = [hist[j] EXCEPT !.silent = Older(hist[j].silent),
                                       !.age = IF board[j].interval = NULL THEN hist[j].age
                                               ELSE Older(hist[j].age)]
        BY <1>5 DEF Tick
      <3> QED
        BY <3>1, <3>2 DEF Hist
    <2>3. CycleInv'
      <3>1. CASE sched.pc = "probing"
        <4>1. sched' = [sched EXCEPT !.busy = @ + 1, !.elapsed = @ + 1,
                                     !.results = [j \in Jobs |-> Aged(@[j])]]
          BY <1>5, <3>1 DEF Tick
        <4>2. /\ sched'.pc = "probing" /\ sched'.todo = sched.todo /\ sched'.job = sched.job
              /\ sched'.results = [j \in Jobs |-> Aged(sched.results[j])]
          BY <3>1, <4>1 DEF TInv, ThreadInv, Thread
        <4>3. Taken' \subseteq Taken
          BY <2>1, <3>1, <4>2 DEF Taken, Returned, Aged
        <4> QED
          BY <2>1, <2>2, <3>1, <4>2, <4>3, SameCycle
      <3>2. CASE sched.pc # "probing"
        <4>1. sched'.pc \in {"awake", "inbox"}
          BY <1>5, <3>2 DEF Tick, TInv, ThreadInv, Thread
        <4> QED
          BY <4>1 DEF CycleInv
      <3> QED
        BY <3>1, <3>2
    <2> QED
      BY <2>1, <2>2, <2>3, SameRanks
  <1>6. CASE StepTick \/ recompute_all \/ InboxDone \/ StepFails \/ Restart
    <2>1. sched'.pc \in {"recompute", "inbox", "asleep"}
      BY <1>6 DEF StepTick, recompute_all, InboxDone, StepFails, Restart, Sleeping, TInv, ThreadInv, Thread
    <2>2. CycleInv'
      BY <2>1 DEF CycleInv
    <2>3. UNCHANGED <<board, hist, deferred>>
      BY <1>6 DEF StepTick, recompute_all, InboxDone, StepFails, Restart
    <2> QED
      BY <2>2, <2>3, SameRanks
  <1>7. CASE UNCHANGED <<board, hist, sched, deferred>>
    <2>1. CycleInv'
      BY <1>7, SameBoard DEF CycleInv, Taken, Returned
    <2> QED
      BY <1>7, <2>1, SameRanks
  <1>8. \/ UNCHANGED <<board, hist, sched, deferred>>
        \/ StepProbe \/ probe_job \/ CycleEnd \/ Tick
        \/ StepTick \/ recompute_all \/ InboxDone \/ StepFails \/ Restart
        \/ \E how \in Outcomes : ProbeReturns(how)
    BY DEF Next, Scheduler, Heartbeat, Change, BackupPush, BackupReports, BackupDies, vars
  <1> QED
    BY <1>1, <1>2, <1>3, <1>4, <1>5, <1>6, <1>7, <1>8

\* The least recently probed go first, so that no destination is left out as often as there
\* are destinations, for every number of jobs, budget, interval and outcome of the listings.
THEOREM NoDestinationStarves == Spec => []NoStarvation
  <1>1. TInv /\ CycleInv /\ DeferInv /\ [Next]_vars => CycleInv' /\ DeferInv'
    BY NextCycle
  <1>2. Spec => [](CycleInv /\ DeferInv)
    BY <1>1, InitCycle, TInvAlways, PTL DEF Spec
  <1> QED
    BY <1>2, TInvAlways, DeferImpliesNoStarvation, PTL
=============================================================================
