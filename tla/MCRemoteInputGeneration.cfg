CONSTANTS
    MaxEvents = 3
    MaxMessages = 1
    MaxFormats = 2

SPECIFICATION Spec
INVARIANT LeavingReleases
CHECK_DEADLOCK FALSE
