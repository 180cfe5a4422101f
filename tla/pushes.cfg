CONSTANTS
    Account = {a1, a2}
    Execution = {e1, e2}
    Secret = {s0}
    InitSecret = s0
    None = None
    Kinds = {"push"}
    Forces = {}
    Recurring = FALSE
    SaveFaults = FALSE
    Overrun = FALSE
SPECIFICATION Spec
SYMMETRY Symmetry
CHECK_DEADLOCK FALSE
INVARIANTS LockHeldWhileWorking SuccessIsComplete
