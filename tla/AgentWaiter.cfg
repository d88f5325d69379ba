CONSTANTS
    i1 = i1
    i2 = i2
    Instances <- MCInstances
    Timeout = 60
    Poll = 1
    MaxCall = 1
    MaxOverrun = 1
SPECIFICATION Spec
INVARIANT NoSpuriousTimeout
\* await_agents ends: it returns, or raises after the timeout.
CHECK_DEADLOCK FALSE
