------------------------------- MODULE MCProbes -------------------------------
(***************************************************************************)
(* Boards for TLC: three destinations that share a cycle's budget, a       *)
(* database backup with and without the sha in its heartbeat, and one job  *)
(* of every other kind on its own.                                         *)
(***************************************************************************)
EXTENDS ProbeCycle

Feeder(k, words) ==
    [kind |-> k, probed |-> FALSE, interval |-> NULL, sha |-> FALSE, words |-> words, answers |-> {}]
Probe(k, sha, i, answers) ==
    [kind |-> k, probed |-> TRUE, interval |-> i, sha |-> sha, words |-> {}, answers |-> answers]

RunWords == {"ok", "fail"} \X {"none", "good", "bad"}
MetricWords == {<<"metric", "good">>, <<"metric", "bad">>, <<"metric", "other">>}

SharedBudget == <<Probe("rclone_copy_tree", FALSE, NULL, {"listed", "transient"}),
                  Probe("rclone_copy_tree", FALSE, NULL, {"listed"}),
                  Probe("manual", FALSE, 3, {"listed", "hard"})>>
\* A listing that takes as long as its timeout fails transiently on every board.
WithSha == <<Probe("db_snapshot", TRUE, NULL, {"listed"})>>
WithoutSha == <<Probe("db_snapshot", FALSE, 1, {"listed"})>>
OneFeeder == {<<Feeder(k, RunWords \cup {<<"metric", "good">>})>> :
                 k \in {"container", "drive_mirror", "rclone_copy_tree", "worker"}}
Gauge == <<Feeder("disk", MetricWords \cup {<<"fail", "none">>})>>
ByHand == <<Feeder("manual", RunWords \cup MetricWords)>>

AllBoards == {SharedBudget, WithSha, WithoutSha, Gauge, ByHand} \cup OneFeeder
OneBackup == {WithSha}
=============================================================================
