\* A batch over two keys beside a caller that asks for any of them. No symmetry:
\* temporal properties are checked on the full graph.
SPECIFICATION FairSpec
CONSTANTS
    Keys = {k1, k2}
    Tasks = {t1}
    Callers = {c1}
    MaxLimit = 2
INVARIANTS LeaseExclusion WaiterHasWaker TaskReport
PROPERTIES RunningTaskKept GateSpec WorkEnds
