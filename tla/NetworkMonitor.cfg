\* Four starts or stops and three changes between two networks: a restart during a
\* refresh, and a network that changes and changes back.
CONSTANTS
    Nets = {wifi, cellular}
    NoNet = none
    MaxGen = 4
    MaxChanges = 3
SPECIFICATION Spec
\* A monitor that is stopped for good has nothing to do.
CHECK_DEADLOCK FALSE
INVARIANTS
    TypeOK
    QuietWhenStopped
    NoLeakedListener
    NeverIdleWithWork
    AppliedIsCurrent
PROPERTY Converges
