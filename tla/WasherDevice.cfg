SPECIFICATION Spec
CONSTANTS
    Users = {"u1"}
    MCModels <- SomeModels
    MCPrograms <- SomePrograms
    Lengths <- SomeLengths
    Chosen <- SomeChosen
    MaxMoves = 2
    Current = "current"
INVARIANTS TypeOK CompletionReported NoPermissionForgotten
PROPERTIES ReadingIsStable StartsTheChosenCourse
