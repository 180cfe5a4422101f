CONSTANTS
    Account = {a1}
    Execution = {e1, e2}
    Secret = {s0, s1}
    InitSecret = s0
    None = None
    Kinds = {"change", "push"}
    Forces = {TRUE}
    Recurring = TRUE
    SaveFaults = FALSE
    Overrun = FALSE
SPECIFICATION Spec
SYMMETRY Symmetry
CHECK_DEADLOCK FALSE
PROPERTIES CustodySpec
CONSTRAINTS NoRequests
