\* The defaults of the options, in ticks of 15 s, with proxy-domain users so
\* that all three tasks are enabled.
CONSTANTS
    PeriodicEnable = TRUE
    FuzzyDelay = 4
    IntervalMax = 4
    UseDomainForProxyUsers = {TRUE}
SPECIFICATION Spec
PROPERTY JobStatusContextCleared
