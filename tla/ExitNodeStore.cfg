\* One exit node that comes and goes; two starts, two accounts.  The updates of the
\* settings touch files and preferences of their own, and run as a second workload.
CONSTANTS
    Nodes = {"n1"}
    Workloads = {{"query", "set", "logout", "config"}, {"lan"}}
    MaxStart = 2
    MaxLogin = 2
SPECIFICATION Spec
CHECK_DEADLOCK FALSE
INVARIANTS
    
    ExitFailsClosed
