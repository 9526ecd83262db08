\* Two requests, so that a cancel of the first can meet the second; two attempts,
\* so that a retry and the exhaustion of the retries both happen.
CONSTANTS
    MaxRequests = 2
    MaxAttempts = 2
SPECIFICATION Spec
INVARIANT SlotInv
PROPERTIES
    ImplementsSlot
    DoomedSendsEnd
