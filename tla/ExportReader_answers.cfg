SPECIFICATION Spec
CONSTANTS
    None = None
    Nodes = {1, 2, 3, 4}
    Exports <- SomeExports
INVARIANTS
    AnswersInOrder
    TurnsAreTheThread
    NothingLeftOpen
PROPERTY AskIsAnswered
