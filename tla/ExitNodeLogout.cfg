\* A logout and the next login against the status query.
CONSTANTS
    Nodes = {"n1"}
    Workloads = {{"query", "set", "logout"}}
    MaxStart = 1
    MaxLogin = 2
SPECIFICATION Spec
INVARIANT
    ChoiceOfThisAccount
CHECK_DEADLOCK FALSE
