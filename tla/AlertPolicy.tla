----------------------------- MODULE AlertPolicy -----------------------------
(***************************************************************************)
(* The alerting rules of dashboard/services.py as pure operators: the      *)
(* resolved per-job policy of the registry, the durations derived from it  *)
(* (dwell, cooldown, accumulator window, hold), the severity ranks, and    *)
(* the two readings of the transition log the episode rules are built on   *)
(* (db.last_non_ok_state and db.not_ok_seconds).                           *)
(*                                                                         *)
(* Times are natural numbers.  ISO_S of them make the one second that      *)
(* db.to_iso keeps, so an instance with ISO_S = 1 has a clock of whole     *)
(* seconds and one with ISO_S = 2 a clock of half seconds.                 *)
(***************************************************************************)
EXTENDS Integers, Sequences, FiniteSetsExt

CONSTANTS
    Jobs,                   \* the job ids jobs.yml declares
    Order,                  \* Order[j]: position of j in the file
    Kind, Machine,          \* Kind[j], Machine[j]: registry fields
    alert_after_s,          \* alert_after_s[j]: the job's own threshold
    alert_never,            \* alert_never[j]: the job opted out of paging
    cadence_s,              \* cadence_s[j]: reporting cadence, 0 for none
    SELF_JOB_ID,            \* "dashboard-probes", or None when undeclared
    None                    \* SQL NULL

CONSTANTS
    ISO_S, MAX_OK_DWELL_S, DWELL_DIVISOR, CADENCE_DWELL_SAMPLES,
    MAX_CADENCE_DWELL_S, COOLDOWN_FLOOR_S, BAD_WINDOW_MULTIPLE,
    BAD_SCAN_LIMIT, ALERT_RETRY_MIN_S

STATES == {"OK", "LATE", "FAIL", "STALE_DEST", "BEHIND", "UNKNOWN"}
ALERTABLE_STATES == {"LATE", "FAIL", "STALE_DEST", "BEHIND"}
HIGH_PRIORITY_STATES == {"FAIL", "STALE_DEST"}
DEST_DRIVEN_STATES == {"STALE_DEST", "BEHIND"}

Time == Nat
MaybeTime == Time \cup {None}
Change == [at : Time, to : STATES]

ASSUME RegistryAssumption ==
    /\ Order \in [Jobs -> Nat]
    /\ \A i, j \in Jobs : Order[i] = Order[j] => i = j
    /\ DOMAIN Kind = Jobs /\ DOMAIN Machine = Jobs
    /\ alert_after_s \in [Jobs -> Nat]
    /\ alert_never \in [Jobs -> BOOLEAN]
    /\ cadence_s \in [Jobs -> Nat]

ASSUME NoneAssumption == None \notin Nat /\ None \notin STATES /\ None \notin Jobs

ASSUME DurationAssumption ==
    /\ ISO_S \in Nat \ {0} /\ DWELL_DIVISOR \in Nat \ {0}
    /\ MAX_OK_DWELL_S \in Nat /\ CADENCE_DWELL_SAMPLES \in Nat
    /\ MAX_CADENCE_DWELL_S \in Nat /\ COOLDOWN_FLOOR_S \in Nat
    /\ BAD_WINDOW_MULTIPLE \in Nat /\ BAD_SCAN_LIMIT \in Nat \ {0}
    /\ ALERT_RETRY_MIN_S \in Nat

-----------------------------------------------------------------------------
(* Durations                                                               *)

\* What storing a clock reading keeps of it: whole seconds, rounded down.
to_iso(t) == t - (t % ISO_S)

ok_dwell_s(j) ==
    LET dwell == Min({MAX_OK_DWELL_S, alert_after_s[j] \div DWELL_DIVISOR})
    IN  IF cadence_s[j] = 0 THEN dwell
        ELSE Max({dwell, Min({CADENCE_DWELL_SAMPLES * cadence_s[j],
                              MAX_CADENCE_DWELL_S})})

cooldown_s(j) == Max({alert_after_s[j], COOLDOWN_FLOOR_S})

bad_window_s(j) == BAD_WINDOW_MULTIPLE * alert_after_s[j]

ok_hold_s(j) == Max({MAX_OK_DWELL_S, ok_dwell_s(j), alert_after_s[j]})

alert_severity(state) ==
    CASE state \in HIGH_PRIORITY_STATES -> 2
      [] state \in ALERTABLE_STATES \ HIGH_PRIORITY_STATES -> 1
      [] OTHER -> 0

-----------------------------------------------------------------------------
(* The registry                                                            *)

IsMachineProbe(j) == Kind[j] = "probe" /\ j # SELF_JOB_ID

\* The first probe-kind job of the machine in file order, or None.
machine_probe(machine) ==
    LET probes == {p \in Jobs : IsMachineProbe(p) /\ Machine[p] = machine}
    IN  IF probes = {} THEN None
        ELSE CHOOSE p \in probes : \A q \in probes : Order[p] <= Order[q]

-----------------------------------------------------------------------------
(* The transition log (table state_changes, oldest row first)              *)

\* Mutant: ascending order, the oldest bad row of the log.
last_non_ok_state_oldest(changes) ==
    LET bad == {i \in DOMAIN changes : changes[i].to # "OK"}
    IN  IF bad = {} THEN None ELSE changes[Min(bad)].to

last_non_ok_state(changes) ==
    LET bad == {i \in DOMAIN changes : changes[i].to # "OK"}
        newest == {i \in bad : \A k \in bad :
                      \/ changes[k].at < changes[i].at
                      \/ changes[k].at = changes[i].at /\ k <= i}
    IN  IF newest = {} THEN None ELSE changes[CHOOSE i \in newest : TRUE].to

\* Mutant: a span that reaches back past the window is counted whole.
not_ok_seconds_unclamped(changes, start, end, bad_states) ==
    LET rows == Min({Len(changes), BAD_SCAN_LIMIT})
        walk[n \in 0..rows] ==
            IF n = 0 THEN [upper |-> end, total |-> 0, stop |-> FALSE]
            ELSE LET w == walk[n - 1]
                     r == changes[Len(changes) - n + 1]
                 IN  IF w.stop \/ r.at >= w.upper THEN w
                     ELSE [upper |-> r.at,
                           total |-> w.total + (IF r.to \in bad_states
                                                THEN w.upper - r.at ELSE 0),
                           stop  |-> r.at <= start]
    IN  IF end <= start THEN 0 ELSE walk[rows].total

\* Mutant: a row that is out of order is used as a boundary.
not_ok_seconds_no_skip(changes, start, end, bad_states) ==
    LET rows == Min({Len(changes), BAD_SCAN_LIMIT})
        walk[n \in 0..rows] ==
            IF n = 0 THEN [upper |-> end, total |-> 0, stop |-> FALSE]
            ELSE LET w == walk[n - 1]
                     r == changes[Len(changes) - n + 1]
                     lower == Max({r.at, start})
                 IN  IF w.stop THEN w
                     ELSE [upper |-> lower,
                           total |-> w.total + (IF r.to \in bad_states
                                                THEN w.upper - lower ELSE 0),
                           stop  |-> r.at <= start]
    IN  IF end <= start THEN 0 ELSE walk[rows].total

\* Mutant: only a bad row ends the span of the row before it.
not_ok_seconds_no_close(changes, start, end, bad_states) ==
    LET rows == Min({Len(changes), BAD_SCAN_LIMIT})
        walk[n \in 0..rows] ==
            IF n = 0 THEN [upper |-> end, total |-> 0, stop |-> FALSE]
            ELSE LET w == walk[n - 1]
                     r == changes[Len(changes) - n + 1]
                     lower == Max({r.at, start})
                 IN  IF w.stop \/ r.at >= w.upper \/ r.to \notin bad_states THEN w
                     ELSE [upper |-> lower, total |-> w.total + w.upper - lower,
                           stop  |-> r.at <= start]
    IN  IF end <= start THEN 0 ELSE walk[rows].total

\* Seconds of [start, end] spent in bad_states.  walk[n] is the sum after
\* the n newest rows: upper is where the span being closed ends.
not_ok_seconds(changes, start, end, bad_states) ==
    LET rows == Min({Len(changes), BAD_SCAN_LIMIT})
        walk[n \in 0..rows] ==
            IF n = 0 THEN [upper |-> end, total |-> 0, stop |-> FALSE]
            ELSE LET w == walk[n - 1]
                     r == changes[Len(changes) - n + 1]
                     lower == Max({r.at, start})
                 IN  IF w.stop \/ r.at >= w.upper THEN w
                     ELSE [upper |-> lower,
                           total |-> w.total + (IF r.to \in bad_states
                                                THEN w.upper - lower ELSE 0),
                           stop  |-> r.at <= start]
    IN  IF end <= start THEN 0 ELSE walk[rows].total

-----------------------------------------------------------------------------
(* What the episode rules ask of a row                                     *)

\* Core._past_bar: the episode ran long enough, or the state it is about
\* filled enough of the recent window.
past_bar(j, about, began, changes, now) ==
    \/ now - began >= alert_after_s[j]
    \/ /\ bad_window_s(j) > 0
       /\ alert_severity(about) # 0
       /\ not_ok_seconds(changes, now - bad_window_s(j), now, {about})
            >= alert_after_s[j]

\* Mutant: the threshold alone is the cooldown, its floor is forgotten.
cooling_no_floor(j, last_paged_at, now) ==
    /\ ~alert_never[j]
    /\ last_paged_at # None
    /\ last_paged_at <= now
    /\ last_paged_at + alert_after_s[j] > now

\* Core._cooling_until is not None.
cooling(j, last_paged_at, now) ==
    /\ ~alert_never[j]
    /\ last_paged_at # None
    /\ last_paged_at <= now
    /\ last_paged_at + cooldown_s(j) > now

\* Core._ok_held_s
ok_held_s(prev, since, now) ==
    IF prev # "OK" \/ since = None \/ since > now THEN 0 ELSE now - since

\* Core._holding
holding(verdict, about) ==
    \/ verdict.damped_failure
    \/ verdict.dest_unverified /\ about \in DEST_DRIVEN_STATES
=============================================================================
