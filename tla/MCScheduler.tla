--------------------------- MODULE MCScheduler ---------------------------
(* Small instances of Scheduler: the production backup schedule, which     *)
(* never expires, and a family schedule with a limit on its occurrences.   *)
EXTENDS Scheduler, TLC

CONSTANTS backup, fixture

MCExpiration == [s \in Schedules |->
    IF s = fixture THEN [kind |-> "after_occurrences", at |-> 0, max |-> 2]
                   ELSE [kind |-> "never", at |-> 0, max |-> 1]]

MCInitialDaily == [s \in Schedules |-> 0]

MCSymmetry == Permutations(Pids) \cup Permutations(Nodes)
===========================================================================
