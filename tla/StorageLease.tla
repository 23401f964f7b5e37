---------------------------- MODULE StorageLease ----------------------------
(* Storage.Adapters.FileLock: the lease every process on the host takes    *)
(* around the records, kept as directories.  A shared holder makes a       *)
(* directory of its own and looks again for the exclusive one; an          *)
(* exclusive holder makes that one and waits until no shared directory is  *)
(* left.  Each step is one file system call.  A directory outlives the     *)
(* process that made it: nothing removes what a dead process left.         *)
EXTENDS Integers, FiniteSets

CONSTANTS
    Processes,  \* every process that takes the lease, of whichever program
    Nobody,
    MaxCrashes  \* bound of the processes that die

ASSUME LeaseAssumption == Nobody \notin Processes /\ MaxCrashes \in Nat

VARIABLES
    exclusive,  \* the maker of the exclusive directory, or Nobody
    leases,     \* the makers of the directories below shared
    at,         \* how far each process is
    crashes     \* how many died, for MaxCrashes

leaseVars == <<exclusive, leases, at, crashes>>

Stages == {"out", "checked", "made", "yielding", "shared", "draining", "exclusive", "crashed"}

LeaseInit ==
    /\ exclusive = Nobody
    /\ leases = {}
    /\ at = [p \in Processes |-> "out"]
    /\ crashes = 0

Moves(p, from, to) == at[p] = from /\ at' = [at EXCEPT ![p] = to]

---------------------------------------------------------------------------
(* with_shared/1.  A process that finds the exclusive directory tries      *)
(* again until its deadline, so one that waits is as one that is out.      *)

CheckShared(p) ==
    /\ Moves(p, "out", "checked")
    /\ exclusive = Nobody
    /\ UNCHANGED <<exclusive, leases, crashes>>

MakeShared(p) ==
    /\ Moves(p, "checked", "made")
    /\ leases' = leases \cup {p}
    /\ UNCHANGED <<exclusive, crashes>>

\* Fault: the exclusive directory is not looked for again.
EnterSharedUnchecked(p) ==
    /\ Moves(p, "made", "shared")
    /\ UNCHANGED <<exclusive, leases, crashes>>

EnterShared(p) ==
    /\ Moves(p, "made", "shared")
    /\ exclusive = Nobody
    /\ UNCHANGED <<exclusive, leases, crashes>>

YieldShared(p) ==
    /\ Moves(p, "made", "yielding")
    /\ exclusive # Nobody
    /\ UNCHANGED <<exclusive, leases, crashes>>

\* The directory is removed: after the work, or to try again.
LeaveShared(p) ==
    /\ Moves(p, "shared", "out") \/ Moves(p, "yielding", "out")
    /\ leases' = leases \ {p}
    /\ UNCHANGED <<exclusive, crashes>>

---------------------------------------------------------------------------
(* with_exclusive/1.                                                       *)

MakeExclusive(p) ==
    /\ Moves(p, "out", "draining")
    /\ exclusive = Nobody
    /\ exclusive' = p
    /\ UNCHANGED <<leases, crashes>>

\* Fault: the shared directories are not waited for.
DrainedAtOnce(p) ==
    /\ Moves(p, "draining", "exclusive")
    /\ UNCHANGED <<exclusive, leases, crashes>>

Drained(p) ==
    /\ Moves(p, "draining", "exclusive")
    /\ leases = {}
    /\ UNCHANGED <<exclusive, leases, crashes>>

\* After the work, after a failure of it, or when the drain took too long.
LeaveExclusive(p) ==
    /\ Moves(p, "exclusive", "out") \/ Moves(p, "draining", "out")
    /\ exclusive' = Nobody
    /\ UNCHANGED <<leases, crashes>>

Crash(p) ==
    /\ at[p] # "crashed" /\ crashes < MaxCrashes
    /\ at' = [at EXCEPT ![p] = "crashed"]
    /\ crashes' = crashes + 1
    /\ UNCHANGED <<exclusive, leases>>

Shared(p) ==
    CheckShared(p) \/ MakeShared(p) \/ EnterShared(p) \/ YieldShared(p) \/ LeaveShared(p)

Exclusively(p) == MakeExclusive(p) \/ Drained(p) \/ LeaveExclusive(p)

LeaseNext == \E p \in Processes : Shared(p) \/ Exclusively(p) \/ Crash(p)

LeaseSpec == LeaseInit /\ [][LeaseNext]_leaseVars

---------------------------------------------------------------------------
LeaseTypeOK ==
    /\ exclusive \in Processes \cup {Nobody}
    /\ leases \subseteq Processes
    /\ at \in [Processes -> Stages]
    /\ crashes \in 0 .. MaxCrashes

\* While a process runs alone no other process runs at all: the recheck
\* after a shared directory is made and the drain of those directories
\* leave no order of their file system calls that lets both in.
RunsAlone ==
    \A p, q \in Processes :
        at[p] = "exclusive" /\ p # q => at[q] \notin {"shared", "exclusive"}

\* The directories keep the port's promise.
Promise == INSTANCE LeaseContract WITH
    sharing <- {p \in Processes : at[p] = "shared"},
    claimant <- exclusive,
    alone <- \E p \in Processes : at[p] = "exclusive"

LeaseKeepsPromise == Promise!Contract
==============================================================================
