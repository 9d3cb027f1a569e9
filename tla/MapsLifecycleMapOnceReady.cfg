SPECIFICATION Spec
CONSTANTS
    MaxActivities = 3
    MaxSwitches = 2
INVARIANT
    MapUsedOnceReady
CHECK_DEADLOCK FALSE
