SPECIFICATION Spec
CONSTANTS
    MaxLength = 4
    Texts <- ScannedTexts
    Chunks = {1, 3}
    Slack = 1
INVARIANTS CutsMakeNoDifference
PROPERTIES ScanEnds
CHECK_DEADLOCK FALSE
