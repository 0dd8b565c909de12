SPECIFICATION Spec
CONSTANTS
    Docs = {a, b}
    a = a
    b = b
    Forms = {f, g}
    f = f
    g = g
    Levels = 1
    Platforms = {"posix", "windows"}
    MaxTries = 2
    Faults <- SteadyFaults
    MaxFaults = 1
    MaxShown = 1
    Temp = Temp
    Damaged = Damaged
    None = None
SYMMETRY FormSymmetry
INVARIANTS ListingIsExact
PROPERTIES ImplementsBoundary
