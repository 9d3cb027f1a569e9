SPECIFICATION FairSpec
CONSTANTS
    MaxActivities = 3
    MaxSwitches = 2
INVARIANTS
    TypeOK
    MyLocationOnceGranted
    OwnMarkersOnly
PROPERTY
    MyLocationComes
\* A crash ends the program.
CHECK_DEADLOCK FALSE
