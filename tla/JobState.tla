------------------------------- MODULE JobState -------------------------------
(***************************************************************************)
(* The state of a job as a function of what is known of it (state.py): the *)
(* dead-man's switch, the newest run, the metrics and, for a job whose     *)
(* destination is probed, the newest probe row.                            *)
(*                                                                         *)
(* Facts carry ages instead of times.  An age stops counting at AGE_CAP,   *)
(* which is past every limit an age is compared with.                      *)
(***************************************************************************)
EXTENDS Naturals

CONSTANTS
    NULL,
    DEADLINE,                   \* cadence_s + grace_s
    FRESH,                      \* cadence_s * DEST_FRESH_MULTIPLIER
    MAX_AGE,                    \* manual.max_age_s
    DISK_METRIC_MAX_AGE,
    DISK_FIRST_READING_GRACE

LIMITS == {DEADLINE, FRESH, MAX_AGE, DISK_METRIC_MAX_AGE, DISK_FIRST_READING_GRACE}
AGE_CAP == 1 + CHOOSE m \in LIMITS : \A k \in LIMITS : k <= m
Ages == 0..AGE_CAP

ASSUME JobStateAssumption == LIMITS \subseteq Nat

SCHEDULED_KINDS == {"db_snapshot", "rclone_copy_tree", "drive_mirror", "container", "probe", "worker"}
KINDS == SCHEDULED_KINDS \cup {"manual", "disk"}
STATES == {"UNKNOWN", "OK", "LATE", "FAIL", "STALE_DEST", "BEHIND"}
ALERTABLE_STATES == {"LATE", "FAIL", "STALE_DEST", "BEHIND"}

\* What a metric the kind is judged by says: files missing at the destination, work pending,
\* an expected container absent, a disk too full, a manual copy too far behind ("bad"), or not.
\* "other": metrics were reported, this one never was.
Verdicts == {"none", "other", "good", "bad"}

\* A row of "probes": newest is the age of the newest object listed, NULL for an empty folder
\* or a failed listing; ahead: the push the script recorded is newer than that by over an hour.
ProbeRow(Shas) == [ok : BOOLEAN, transient : BOOLEAN, newest : Ages \cup {NULL},
                   state_sha : Shas \cup {NULL}, ahead : BOOLEAN]

\* last_run is its status; run_age and success_age are NULL without such a run; reading_newer:
\* the newest metrics are strictly younger than the newest run.
Facts(Shas) == [last_run : {"ok", "skipped", "fail", NULL}, run_age : Ages \cup {NULL},
                success_age : Ages \cup {NULL}, metrics : Verdicts, metrics_age : Ages \cup {NULL},
                reading_newer : BOOLEAN, db_sha256 : Shas \cup {NULL}, created : Ages,
                probe : ProbeRow(Shas) \cup {NULL}]

Over(age, limit) == age # NULL /\ age > limit

_probe_ok(f) == f.probe # NULL /\ f.probe.ok

\* The age of the newest object.  The heartbeat of a db_snapshot carries no dest_newest_iso to
\* stand in for a failed listing.
_newest_epoch(f) == IF _probe_ok(f) THEN f.probe.newest ELSE NULL

\* Mutant: only the recorded time of the push is compared.
db_snapshot_stale_epoch(f) ==
    IF _newest_epoch(f) = NULL THEN "unjudged"
    ELSE IF _newest_epoch(f) > FRESH /\ f.probe.ahead THEN "stale" ELSE "fresh"

\* "unjudged" is None.
db_snapshot_stale(f) ==
    IF _newest_epoch(f) = NULL THEN "unjudged"
    ELSE IF _newest_epoch(f) <= FRESH THEN "fresh"
    ELSE IF f.probe.state_sha # NULL /\ f.db_sha256 # NULL
         THEN IF f.probe.state_sha = f.db_sha256 THEN "fresh" ELSE "stale"
    ELSE IF f.probe.ahead THEN "stale" ELSE "fresh"

copy_tree_stale(f) == f.metrics = "bad"

\* behind_on: over the age or over the bytes.
lag_behind(f) == Over(f.success_age, MAX_AGE) \/ f.metrics = "bad"

\* Mutant: a job that sent metrics has been heard from.
_never_pinged_late_unheard(k, f) == k \in SCHEDULED_KINDS /\ f.metrics = "none" /\ f.created > DEADLINE

_never_pinged_late(k, f) == k \in SCHEDULED_KINDS /\ f.created > DEADLINE

_disk_never_reported_late(k, f) == k = "disk" /\ f.created > DISK_FIRST_READING_GRACE

HasReading(f) == f.metrics \in {"good", "bad"}

DiskState(k, f) ==
    IF f.last_run = "fail" /\ ~ f.reading_newer THEN "FAIL"
    ELSE IF ~ HasReading(f)
         THEN IF _disk_never_reported_late(k, f) THEN "LATE" ELSE "UNKNOWN"
    ELSE IF f.metrics_age > DISK_METRIC_MAX_AGE THEN "LATE"
    ELSE IF f.metrics = "bad" THEN "BEHIND" ELSE "OK"

ManualState(f) ==
    IF f.last_run = "fail" THEN "FAIL" ELSE IF lag_behind(f) THEN "BEHIND" ELSE "OK"

KindState(k, f) ==
    CASE k = "container" /\ f.metrics = "bad" -> "FAIL"
      [] k = "drive_mirror" /\ f.metrics = "bad" -> "BEHIND"
      [] k = "db_snapshot" /\ db_snapshot_stale(f) = "stale" -> "STALE_DEST"
      [] k = "rclone_copy_tree" /\ copy_tree_stale(f) -> "STALE_DEST"
      [] OTHER -> "OK"

ScheduledState(k, f) ==
    IF f.last_run = NULL THEN "UNKNOWN"
    ELSE IF f.run_age > DEADLINE THEN "LATE"
    ELSE IF f.last_run = "fail" THEN "FAIL"
    ELSE KindState(k, f)

compute_state(k, f) ==
    IF f.last_run = NULL /\ _never_pinged_late(k, f) THEN "LATE"
    ELSE IF f.last_run = NULL /\ f.metrics = "none"
         THEN IF _disk_never_reported_late(k, f) THEN "LATE" ELSE "UNKNOWN"
    ELSE IF k = "disk" THEN DiskState(k, f)
    ELSE IF k = "manual" THEN ManualState(f)
    ELSE ScheduledState(k, f)

\* An OK that only means the destination could not be judged.
ok_is_unverified(k, has_probe, f) ==
    IF k = "db_snapshot" THEN db_snapshot_stale(f) = "unjudged"
    ELSE has_probe /\ ~ _probe_ok(f) /\ (k = "manual" \/ ~ HasReading(f))
=============================================================================
