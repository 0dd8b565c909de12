SPECIFICATION Spec
CONSTANTS
    Provisions = {p1}
    Probes = {s1}
    Kept = {}
    Commands = {c1}
    EndToEnds = {e1}
    Contracts = {}
    Ready = TRUE
    None = None
    MaxStarts = 1
    MaxFaults = 1
INVARIANTS LeftoverIsTold
