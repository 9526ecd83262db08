\* Four commands, one death of the extension, one restart of the UI.
CONSTANTS
    MaxCommand = 4
    MaxKill = 1
    MaxRestart = 1
SPECIFICATION Spec
CHECK_DEADLOCK FALSE
INVARIANT StopInv
PROPERTIES
    HandoffAnswered
    DisconnectEnds
