SPECIFICATION Spec
CONSTANTS
    Provisions = {p1, p2}
    Probes = {s1, s2}
    Kept = {s2}
    Commands = {c1, c2}
    EndToEnds = {e1}
    Contracts = {t1}
    Ready = TRUE
    None = None
    MaxStarts = 2
    MaxFaults = 1
INVARIANTS PassedLeavesNothing UntoldIsInterrupted
PROPERTIES OnlyResetForgets StartedIsProvisioned EveryRunEnds
