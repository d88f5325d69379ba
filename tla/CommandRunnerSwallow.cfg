CONSTANTS
    m1 = m1
    m2 = m2
    None = None
    NoErr = NoErr
    Msgs <- MCMsgs
    MaxCmds = 2
    MaxChildren = 2
SPECIFICATION Spec
INVARIANT FailedChildlessCommandRaises
CHECK_DEADLOCK FALSE
