CONSTANTS
    MaxUpdates = 3
    MaxSessions = 1
SPECIFICATION Spec
INVARIANT ListenerDownWhenUnsynced
CHECK_DEADLOCK FALSE
