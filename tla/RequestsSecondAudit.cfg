\* Two first requests, one of which looks up before the other's run completes.
SPECIFICATION Spec
CONSTANTS
    c1 = c1
    c2 = c2
    c3 = c3
    Sources <- MCSources
    Callers <- MCTwoCallers
    MaxRows = 2
PROPERTY NoAuditBesideAValidOne
\* All calls answered and all audits closed: the domain is at rest.
CHECK_DEADLOCK FALSE
