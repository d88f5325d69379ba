CONSTANTS
    m1 = m1
    m2 = m2
    None = None
    NoErr = NoErr
    Msgs <- MCMsgs
    MaxCmds = 2
    MaxChildren = 2
SPECIFICATION Spec
INVARIANT TypeOK
INVARIANT RaisedWithSpecMessage
\* A decorated method's invocation ends: the wrapper returns or raises.
CHECK_DEADLOCK FALSE
