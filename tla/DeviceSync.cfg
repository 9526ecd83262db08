\* Two backends one after the other, so that sweeps of the old one come late.
CONSTANTS
    Peers = {p1}
    MaxGen = 2
    MaxRefresh = 1
SPECIFICATION Spec
INVARIANTS
    TablesInv
    UnavailableMeansTwoMisses
PROPERTIES
    RefreshEnds
    LoopReports
