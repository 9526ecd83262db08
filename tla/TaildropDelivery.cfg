\* Two requests, of which the second may be submitted while the first still runs; the
\* VPN is disconnected at any time of the first one.  No property here needs the history.
CONSTANTS
    MaxRequests = 2
    StopBefore = 2
    MaxRecords = 0
SPECIFICATION Spec
\* A disconnected extension with nothing left to do stops.
CHECK_DEADLOCK FALSE
INVARIANT DeliveryInv
PROPERTY UiSettles
