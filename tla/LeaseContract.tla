---------------------------- MODULE LeaseContract ----------------------------
(* What the storage lease promises: any number of shared holders may run   *)
(* together; an exclusive holder waits for every one of them to finish and *)
(* keeps new ones out until it has finished itself.                        *)
CONSTANTS Processes, Nobody

VARIABLES
    sharing,  \* the processes that run under the shared lease
    claimant, \* the process that asked for the lease alone, or Nobody
    alone     \* and whether it runs yet

contractVars == <<sharing, claimant, alone>>

ContractInit ==
    /\ sharing = {}
    /\ claimant = Nobody
    /\ alone = FALSE

Share(p) ==
    /\ claimant = Nobody
    /\ sharing' = sharing \cup {p}
    /\ UNCHANGED <<claimant, alone>>

Unshare(p) ==
    /\ p \in sharing
    /\ sharing' = sharing \ {p}
    /\ UNCHANGED <<claimant, alone>>

Ask(p) ==
    /\ claimant = Nobody
    /\ claimant' = p
    /\ UNCHANGED <<sharing, alone>>

Run(p) ==
    /\ claimant = p /\ sharing = {}
    /\ alone' = TRUE
    /\ UNCHANGED <<sharing, claimant>>

\* It has run, or gave up waiting for the shared holders.
Finish(p) ==
    /\ claimant = p
    /\ claimant' = Nobody
    /\ alone' = FALSE
    /\ UNCHANGED sharing

\* It died: it no longer runs, and what it claimed stays claimed.
Abandon(p) ==
    /\ claimant = p /\ alone
    /\ alone' = FALSE
    /\ UNCHANGED <<sharing, claimant>>

ContractNext ==
    \E p \in Processes : Share(p) \/ Unshare(p) \/ Ask(p) \/ Run(p) \/ Finish(p) \/ Abandon(p)

Contract == ContractInit /\ [][ContractNext]_contractVars
==============================================================================
