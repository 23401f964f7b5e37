SPECIFICATION FairSpec
CONSTANTS
  backup = backup
  fixture = fixture
  Schedules = {backup}
  BackupSchedule = backup
  Destinations = {d1}
  Expiration <- MCExpiration
  InitialDaily <- MCInitialDaily
  InitiallyEnabled = {backup}
  DailyTimes = {0}
  Nodes = {n1}
  Pids = {p1}
  Admins = {}
  Day = 4
  Lease = 1
  RetryWait1 = 1
  RetryWait2 = 1
  NoTime = NoTime
  MaxTime = 7
  MaxRevision = 1
PROPERTIES RunsSettle DueSchedulesMove
CHECK_DEADLOCK FALSE
