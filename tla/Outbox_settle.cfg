SPECIFICATION FairSpec
CONSTANTS
    Tabs = {t1, t2}
    Messages = {m1}
    MaxQueued = 1
    MaxRequests = 2
    MaxWrites = 2
    MaxFaults = 2
INVARIANTS
    CommittedOnce
    SentIsCommitted
PROPERTIES
    ForgetsOnlySettled
    MessagesSettle
CHECK_DEADLOCK FALSE
