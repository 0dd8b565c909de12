SPECIFICATION Spec
CONSTANTS
    Docs = {a}
    a = a
    Forms = {f}
    f = f
    Levels = 2
    Platforms = {"posix"}
    MaxTries = 1
    Faults <- FaultKinds
    MaxFaults = 2
    MaxShown = 2
    Temp = Temp
    Damaged = Damaged
    None = None
INVARIANTS StoredIsDurable
