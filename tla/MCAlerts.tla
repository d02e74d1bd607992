------------------------------ MODULE MCAlerts ------------------------------
(***************************************************************************)
(* Instances of AlertEpisodes for TLC.  The durations are small and keep   *)
(* the order they have in services.py (retry <= dwell <= threshold <       *)
(* window, cooldown the longest).  AlertsThreads has ISO_S = 2: two        *)
(* readings fall into the same stored second.                              *)
(***************************************************************************)
EXTENDS AlertEpisodes, TLC

CONSTANTS gauge, mac_probe, mac_job, scheduler, ingest

V(s) == [state |-> s, dest_unverified |-> FALSE, damped_failure |-> FALSE]
Unverified == [V("OK") EXCEPT !.dest_unverified = TRUE]
Damped == [V("OK") EXCEPT !.damped_failure = TRUE]

One == {gauge}
OneOrder == [j \in One |-> 0]
OneKind == [j \in One |-> "db_snapshot"]
OneMachine == [j \in One |-> "box"]
OneThreshold == [j \in One |-> 2]
OneNever == [j \in One |-> FALSE]
OneCadence == [j \in One |-> 1]

Ticks == {<<"tick">>}
AnyPlans == {<<"probe", "github">>}

OneVerdicts == [j \in One |-> {V("OK"), V("BEHIND"), V("FAIL")}]
MixedVerdicts == [j \in One |-> OneVerdicts[j] \cup {Unverified, Damped}]
ShortThreshold == [j \in One |-> 1]

(* A machine's probe job and one of its siblings.                          *)
Mac == {mac_probe, mac_job}
MacOrder == (mac_job :> 0 @@ mac_probe :> 1)
MacKind == (mac_job :> "drive_mirror" @@ mac_probe :> "probe")
MacMachine == [j \in Mac |-> "mac"]
MacThreshold == (mac_job :> 2 @@ mac_probe :> 1)
MacNever == [j \in Mac |-> FALSE]
MacCadence == [j \in Mac |-> 1]
MacVerdicts == (mac_job :> {V("OK"), V("LATE"), V("FAIL")}
                  @@ mac_probe :> {V("OK"), V("LATE")})
=============================================================================
