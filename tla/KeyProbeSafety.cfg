\* Every kind of check that reads its entry under the lease, beside edits and a delete.
SPECIFICATION Spec
CONSTANTS
    Keys = {1}
    Threads = {a, b}
    Kinds = {"batch", "monitor", "strict", "strictdue", "refresh"}
    Creds = {1, 2}
    Models = {1}
    Cadences = {1}
    Outcomes = {"up", "rate_limited"}
    MaxCount = 1
    MaxCrashes = 0
INVARIANTS CountsMatchHistory 
SYMMETRY Symmetric
