CONSTANTS
    Account = {a1}
    Execution = {e1, e2}
    Secret = {s0, s1}
    InitSecret = s0
    None = None
    Kinds = {"change"}
    Forces = {}
    Recurring = TRUE
    SaveFaults = FALSE
    Overrun = TRUE
SPECIFICATION Spec
SYMMETRY Symmetry
CHECK_DEADLOCK FALSE
CONSTRAINTS NoRequests StatusFirst NoErrors
INVARIANTS RemoteRecoverable
