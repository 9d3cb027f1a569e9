SPECIFICATION FairSpec
CONSTANTS
    Failing = {"crime"}
    MaxRequests = 3
    MaxPatient = 4
    MaxQueue = 2
INVARIANTS
    TypeOK
    LoneAnswerShown
    SpinnerHasCause
    StoredOnItsWay
PROPERTIES
    SpinnerStops
    StoredIsDrawn
\* A failed cast ends the program.
CHECK_DEADLOCK FALSE
