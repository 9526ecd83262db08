\* Two ids, so that the event of one task can meet the next.
CONSTANT TaskIds = {1, 2}
SPECIFICATION Spec
\* An unregistered manager has nothing to do.
CHECK_DEADLOCK FALSE
INVARIANTS
    TrackingInv
    SuppressedIsReleased
    DestroyReleases
PROPERTY ReleasedAfterDisconnect
