SPECIFICATION Spec
CONSTANTS
  backup = backup
  fixture = fixture
  Schedules = {backup, fixture}
  BackupSchedule = backup
  Destinations = {}
  Expiration <- MCExpiration
  InitialDaily <- MCInitialDaily
  InitiallyEnabled = {backup}
  DailyTimes = {0, 1}
  Nodes = {n1}
  Pids = {p1}
  Admins = {a1}
  Day = 3
  Lease = 1
  RetryWait1 = 1
  RetryWait2 = 1
  NoTime = NoTime
  MaxTime = 6
  MaxRevision = 2
INVARIANTS OccurrencesAccounted RevisionNamesContent
PROPERTIES DueSlotNotLost ClaimIsNewest
CHECK_DEADLOCK FALSE
