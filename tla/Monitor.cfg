\* Three keys, two a tick, one of them with a model and one at a time stuck.
SPECIFICATION FairSpec
CONSTANTS
  Keys = {1, 2, 3, 4}
  Modelled = {1}
  Cap = 2
  MaxDelay = 2
  MaxActs = 1
  MaxPauses = 1
INVARIANTS PassedOverBounded
PROPERTIES EveryCheckIsDone
