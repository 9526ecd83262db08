\* Two threads, four generations: enough for a start,
\* a restart (which takes two) and a stop that overlaps any of them.
CONSTANTS
    JsThread = js
    StopWorkers = {w1}
    MaxGen = 4
SPECIFICATION Spec
\* The bound on generations, and a stopped backend nobody restarts, both stop the system.
CHECK_DEADLOCK FALSE
INVARIANTS
    TypeOK
    ControllerBelongsToServer
    ReadyHasClient
    StartingIsAlive
    NoOrphans
    TunNotLostToRace
PROPERTIES
    ImplementsSlot
    NothingLingers
