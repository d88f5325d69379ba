CONSTANTS
    k1 = k1
    k2 = k2
    Clusters <- MCClusters
    Transient <- MCTransient
    MinActiveTime = 2
    UseIdentityV3 = {FALSE}
    Flaky = FALSE
    MaxTime = 3
    MaxJobs = 1
SPECIFICATION Spec
PROPERTY TerminatesOnlyIdleClusters
