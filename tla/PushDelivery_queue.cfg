SPECIFICATION FairSpec
CONSTANTS
  Users = {u1}
  Sessions = {a}
  Subscriptions = {s1}
  Dispatchers = {p1, p2}
  Wait <- MCWait
  Lease = 2
  Ceiling = 2
  Retention = 1
  NoTime = NoTime
  Nobody = Nobody
  MaxTime = 3
  MaxDeliveries = 2
  MaxLosses = 1
  MaxLag = 0
INVARIANTS OneSender RetriesFit KeptForRetention
PROPERTIES OutcomeStays DeliveriesSettle
CHECK_DEADLOCK FALSE
