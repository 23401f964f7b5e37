SPECIFICATION FairSpec
CONSTANTS
  Users = {u1}
  Sessions = {a}
  Subscriptions = {s1}
  Dispatchers = {p1}
  Wait <- MCShortWait
  Lease = 1
  Ceiling = 6
  Retention = 6
  NoTime = NoTime
  Nobody = Nobody
  MaxTime = 6
  MaxDeliveries = 1
  MaxLosses = 1
  MaxLag = 0
PROPERTY DeliveriesSettle
CHECK_DEADLOCK FALSE
