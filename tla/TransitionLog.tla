---------------------------- MODULE TransitionLog ----------------------------
(***************************************************************************)
(* The transition log (table state_changes) of one job against what really *)
(* happened.  Every step is one real second spent in some state; db.set_   *)
(* state stamps a transition with the wall clock, which may be stepped     *)
(* back or forward.  The history variable truth keeps the state of each    *)
(* real second, the reference for the two readings of the log: db.not_ok_  *)
(* seconds, the accumulator's input, and db.last_non_ok_state, which names *)
(* an episode.                                                             *)
(***************************************************************************)
EXTENDS AlertPolicy, FiniteSets

CONSTANTS
    Observed,       \* the states the job can be found in
    MaxSeconds,     \* how long the job is watched
    MaxSteps        \* how often its clock is stepped

VARIABLES
    wall,           \* the wall clock
    steps,          \* how often it has been stepped
    ahead,          \* was it ever stepped forward?
    changes,        \* the job's rows of state_changes, oldest first
    truth           \* truth[n]: the state of the n-th real second

logvars == <<wall, steps, ahead, changes, truth>>

ASSUME ObservedAssumption ==
    /\ Observed \subseteq STATES \ {"UNKNOWN"}
    /\ MaxSeconds \in Nat /\ MaxSteps \in Nat

LogInit ==
    /\ wall = MaxSeconds /\ steps = 0 /\ ahead = FALSE
    /\ changes = <<>> /\ truth = <<>>

\* db.set_state: a row only when the state differs from the stored one.  The
\* unit of wall is the second state_changes stores, in which to_iso is exact;
\* AlertEpisodes has the fractions it drops.
record_change(state) ==
    LET stored == IF changes = <<>> THEN "UNKNOWN" ELSE changes[Len(changes)].to
    IN  IF state = stored THEN changes
        ELSE Append(changes, [at |-> wall, to |-> state])

Second(state) ==
    /\ Len(truth) < MaxSeconds
    /\ changes' = record_change(state)
    /\ truth' = Append(truth, state)
    /\ wall' = wall + 1
    /\ UNCHANGED <<steps, ahead>>

StepBack ==
    /\ steps < MaxSteps
    /\ \E w \in 0..(wall - 1) : wall' = w
    /\ steps' = steps + 1
    /\ UNCHANGED <<ahead, changes, truth>>

StepAhead ==
    /\ steps < MaxSteps
    /\ \E w \in (wall + 1)..(wall + MaxSeconds) : wall' = w
    /\ steps' = steps + 1
    /\ ahead' = TRUE
    /\ UNCHANGED <<changes, truth>>

\* The watch is over.
Watched == Len(truth) = MaxSeconds /\ UNCHANGED logvars

LogNext == (\E s \in Observed : Second(s)) \/ StepBack \/ StepAhead \/ Watched

LogSpec == LogInit /\ [][LogNext]_logvars

-----------------------------------------------------------------------------
\* Of the last w real seconds, how many were spent in the state.
TrueSeconds(w, state) ==
    Cardinality({n \in DOMAIN truth : n > Len(truth) - w /\ truth[n] = state})

Measured(w, state) == not_ok_seconds(changes, wall - w, wall, {state})

\* "For a monotone timeline it is exact": on a clock that was never stepped
\* the sum over the log is the time really spent in the state, whatever the
\* window and wherever its edge cuts a span.
NotOkExact ==
    steps = 0 =>
        \A w \in 0..(MaxSeconds + 1), s \in Observed :
            Measured(w, s) = TrueSeconds(w, s)

\* "The hard ceiling in every case is end - start": however the clock
\* sawtooths, the states of a window never add up to more than the window.
NotOkCeiling ==
    \A w \in 0..(MaxSeconds + 1), S \in SUBSET Observed :
        not_ok_seconds(changes, wall - w, wall, S) \in 0..w

\* "One poisoned row must not be able to invent hours of badness": a clock
\* that is only ever stepped back, however often and far, can move bad time
\* into the window but never invent any; the sum is at most the time the
\* job ever spent in the state.
NotInvented ==
    ~ahead =>
        \A w \in 0..(MaxSeconds + 1), s \in Observed :
            Measured(w, s) <= TrueSeconds(Len(truth), s)

TrueLastNonOk ==
    LET bad == {n \in DOMAIN truth : truth[n] # "OK"}
    IN  IF bad = {} THEN None ELSE truth[Max(bad)]

\* On a clock that was never stepped, an episode that outlives the return to
\* OK is named after the last state that was really seen before it.
LastNonOkMonotone == steps = 0 => last_non_ok_state(changes) = TrueLastNonOk
=============================================================================
