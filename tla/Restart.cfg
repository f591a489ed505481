SPECIFICATION FairSpec
CONSTANTS
  Addrs = {a1, a2}
  MaxProcs = 4
  MaxStarts = 2
  MaxRestarts = 1
  MaxSaves = 1
  MaxDeaths = 1
  HelperStarts = FALSE
INVARIANTS OneListener 
PROPERTIES DarkEnds
CHECK_DEADLOCK FALSE
