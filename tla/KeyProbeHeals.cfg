\* Model checks and the monitor while credentials change, with a crash between the two
\* writes of one check.
SPECIFICATION FairSpec
CONSTANTS
    Keys = {1}
    Threads = {a, b}
    Kinds = {"monitor", "strict"}
    Creds = {1, 2}
    Models = {1}
    Cadences = {1}
    Outcomes = {"up", "rate_limited"}
    MaxCount = 0
    MaxCrashes = 1
PROPERTIES RowHeals
