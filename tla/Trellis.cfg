\* Two commands of two sessions over three tasks, two of them linked, and a kill.
SPECIFICATION Spec
CONSTANTS
  Tasks = {a, b, c}
  Sessions = {s1, s2}
  Journal = Journal
  MaxCommands = 2
  MaxKills = 1
SYMMETRY Symmetry
INVARIANTS ParentListsChild PointersLive GoneIsDone  
\* The commands end.
CHECK_DEADLOCK FALSE
