\* Every probe with every answer, and every function with every short input.
\* Intervals lie around the constants of the schedule.
CONSTANTS
  MaxParts = 2
  Segments = {"v1", "models", "messages", "proxy", "anthropic"}
  MaxPath = 3
  Rows <- MCRows
  MaxRows = 2
  Lines <- MCLines
  MaxLines = 4
  KeyTables <- MCTables
  MaxShown = 4
  KeyIds = {1, 2, 3, 4, 5, 6, 7, 8}
  Intervals = {30, 59, 300, 301, 1800, 86400}
  Starts <- MCStarts
  Told <- MCTold
  TicketSets <- MCTicketSets
SPECIFICATION CoreSpec
INVARIANTS StatusJustified  PastedAddressIsProbed 
  BackupRestores PanelAgrees WorseWaitsLonger MigrationResumes MigrationKeeps IdentityKept
\* A probe ends.
CHECK_DEADLOCK FALSE
