SPECIFICATION Spec
CONSTANTS
  chat = chat
  journal = journal
  theme = theme
  Records = {chat, journal}
  Pages = {tab1}
  Services = {identity}
  Operators = {task}
  Managed = {task}
  Processes <- MCProcesses
  Nobody = Nobody
  RecordOf <- MCRecordOf
  Removable = {journal}
  MaxWrites = 2
  MaxPasses = 2
  MaxCrashes = 1
INVARIANTS RunsAlone RoutedKept
PROPERTIES LeaseKeepsPromise
CHECK_DEADLOCK FALSE
