\* Two logins over two backends; the limit of 60 polls is two.
CONSTANTS
    MaxGen = 2
    MaxCommand = 2
    MaxAttempt = 2
SPECIFICATION Spec
INVARIANT
    TypeOK
PROPERTIES
    ClaimNotStranded
    PollingEnds
CHECK_DEADLOCK FALSE
