SPECIFICATION Spec
CONSTANTS
    Failing = {}
    MaxRequests = 2
    MaxPatient = 2
    MaxQueue = 2
INVARIANT
    ForcedCastHolds
\* A failed cast ends the program.
CHECK_DEADLOCK FALSE
