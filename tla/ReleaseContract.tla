--------------------------- MODULE ReleaseContract ---------------------------
(* What a release promises of the slot that the host's record names: there *)
(* is always one revision served there, beside it at most one standing by, *)
(* and the record only ever changes by changing places with the one        *)
(* standing by.                                                            *)
CONSTANTS Revisions, None

VARIABLES
    served, \* the revision of the recorded slot, None when nothing serves it
    standby \* the revision started beside it, None when there is none

vars == <<served, standby>>

Init ==
    /\ served \in Revisions
    /\ standby \in Revisions \cup {None}

\* A revision is started beside the one served, in place of another.
Offer(r) == standby' = r /\ UNCHANGED served

\* The revision standing by is stopped.
Withdraw == standby' = None /\ UNCHANGED served

\* The switch and its way back.
Exchange ==
    /\ standby # None
    /\ served' = standby
    /\ standby' = served

Next == Exchange \/ Withdraw \/ \E r \in Revisions : Offer(r)

Spec == Init /\ [][Next]_vars
=============================================================================
