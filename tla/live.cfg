CONSTANTS
    Account = {a1}
    Execution = {e1, e2}
    Secret = {s0, s1}
    InitSecret = s0
    None = None
    Kinds = {"change", "retry"}
    Forces = {FALSE}
    Recurring = FALSE
    SaveFaults = TRUE
    Overrun = FALSE
SPECIFICATION FairSpec
CHECK_DEADLOCK FALSE
CONSTRAINT NoRequests
INVARIANTS PendingIsOwned
PROPERTIES ExecutionsEnd LocksEnd
