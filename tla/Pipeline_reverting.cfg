SPECIFICATION Spec
CONSTANTS
    Ids = {a, b}
    a = a
    b = b
    None = None
    MaxVersion = 2
    MaxFaults = 2
    Faults = {"crash","reverts"}
INVARIANTS ReportedIsRetained
