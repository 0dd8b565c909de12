SPECIFICATION Spec
CONSTANTS
    Importers = {i1, i2}
    Readers = {r}
    Ids = {a, b}
    a = a
    b = b
    Orders <- OneOrder
    None = None
    Foreign = Foreign
    MaxStarts = 3
    MaxFaults = 1
    Foreigns = TRUE
INVARIANTS TypeOK DecisionIsCurrent SoundStorageIsNeverCorrupt SuccessIsRecorded ReportIsCurrent
PROPERTIES ImplementsTable CommandEnds
