CONSTANTS
    Account = {a1}
    Execution = {e1, e2}
    Secret = {s0, s1, s2}
    InitSecret = s0
    None = None
    Kinds = {"change", "retry"}
    Forces = {FALSE}
    Recurring = FALSE
    SaveFaults = FALSE
    Overrun = FALSE
SPECIFICATION Spec
SYMMETRY Symmetry
CHECK_DEADLOCK FALSE
INVARIANTS TypeOK PendingIsOwned NoSilentDivergence
PROPERTIES SuccessIsSynced TerminalIsFinal CustodySpec
