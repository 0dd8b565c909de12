SPECIFICATION RefreshedSpec
CONSTANTS
    Ids = {a, b}
    a = a
    b = b
    None = None
    MaxVersion = 2
    MaxFaults = 2
    Faults <- SupportedFaults
INVARIANTS ReportedIsRetained ReportMatchesState OutcomesFollowSource MissingIsTold
PROPERTIES ArchivedBeforeRetained RecordsAreEarned Converges
