\* Three racing requests and reruns, expiry, sweeps and deletions.
SPECIFICATION FairSpec
CONSTANTS
    c1 = c1
    c2 = c2
    c3 = c3
    Sources <- MCSources
    Callers <- MCThreeCallers
    MaxRows = 3
INVARIANTS TypeOK OneInFlight AlwaysAnAudit ReuseNamesTheRun
PROPERTY EveryRequestIsAnnounced
\* All calls answered and all audits closed: the domain is at rest.
CHECK_DEADLOCK FALSE
