\* The defaults of the options, in ticks of 15 s, with and without
\* proxy-domain users (the zombie reaper enabled or not).
CONSTANTS
    PeriodicEnable = TRUE
    FuzzyDelay = 4
    IntervalMax = 4
    UseDomainForProxyUsers = {TRUE, FALSE}
SPECIFICATION FairSpec
PROPERTY TasksRunAsConfigured
