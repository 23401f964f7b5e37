SPECIFICATION Spec
CONSTANTS
  backup = backup
  fixture = fixture
  Schedules = {backup}
  BackupSchedule = backup
  Destinations = {}
  Expiration <- MCExpiration
  InitialDaily <- MCInitialDaily
  InitiallyEnabled = {backup}
  DailyTimes = {0}
  Nodes = {n1, n2}
  Pids = {p1, p2}
  Admins = {}
  Day = 4
  Lease = 2
  RetryWait1 = 1
  RetryWait2 = 2
  NoTime = NoTime
  MaxTime = 10
  MaxRevision = 1
INVARIANTS TypeOK AttemptBudget OneExecutionPerAttempt Recoverability
PROPERTIES SettledRunsStay
SYMMETRY MCSymmetry
CHECK_DEADLOCK FALSE
