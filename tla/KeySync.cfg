\* Any two requests, the pager beside two others, and a replace beside two.
SPECIFICATION Spec
CONSTANTS
  Actors <- MCActors
  Pairs = {"p", "q", "r"}
  Batches <- MCBatches
  Casts <- MCCasts
  Sorts <- MCSorts
  Limit = 1
  MaxId = 6
  MaxClock = 1
INVARIANTS WalkShowsAll   ReplaceRestores
PROPERTY AddedComesFirst
\* The requests end.
CHECK_DEADLOCK FALSE
