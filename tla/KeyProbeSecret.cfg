\* Does a status always belong to the present credentials?
SPECIFICATION Spec
CONSTANTS
    Keys = {1}
    Threads = {a}
    Kinds = {"batch", "monitor"}
    Creds = {1, 2}
    Models = {1}
    Cadences = {1}
    Outcomes = {"up", "down"}
    MaxCount = 1
    MaxCrashes = 0
INVARIANTS StatusOfCurrentSecret
