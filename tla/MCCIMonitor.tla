---------------------------- MODULE MCCIMonitor ----------------------------
(* A small instance of CIMonitor, with one status of each kind a poll reads. *)
EXTENDS CIMonitor

CONSTANT null

Running == [cipe |-> "IN_PROGRESS", sh |-> null, ver |-> null, class |-> null, skipped |-> null,
            tasks |-> "none", auto |-> FALSE, autoSkipped |-> FALSE, applied |-> FALSE, healing |-> TRUE]
Failed == [Running EXCEPT !.cipe = "FAILED", !.tasks = "needs_local_verify"]
Fixed == [Failed EXCEPT !.sh = "COMPLETED", !.ver = "COMPLETED"]

Statuses == {
    Running,
    [Running EXCEPT !.cipe = "SUCCEEDED"], [Running EXCEPT !.cipe = "CANCELED"],
    [Running EXCEPT !.cipe = "TIMED_OUT"],
    [Failed EXCEPT !.tasks = "none"],
    [Failed EXCEPT !.class = "environment_state"], [Failed EXCEPT !.class = "flaky_task"],
    [Failed EXCEPT !.skipped = "THROTTLED"],
    [Failed EXCEPT !.sh = "IN_PROGRESS"], [Failed EXCEPT !.sh = "FAILED"],
    [Failed EXCEPT !.healing = FALSE], Failed,
    [Fixed EXCEPT !.applied = TRUE],
    [Fixed EXCEPT !.auto = TRUE], [Fixed EXCEPT !.auto = TRUE, !.autoSkipped = TRUE],
    [Fixed EXCEPT !.auto = TRUE, !.ver = "IN_PROGRESS"],
    Fixed, [Fixed EXCEPT !.tasks = "all_verified"], [Fixed EXCEPT !.ver = "FAILED"]}
=============================================================================
