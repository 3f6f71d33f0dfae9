\* Every configuration, every chain of redirects over four hosts, bodies around the cap.
SPECIFICATION Spec
CONSTANTS
    Hosts <- MCHosts
    ApiHost = "api"
    PrivateHosts <- MCPrivateHosts
    UnknownHosts <- MCUnknownHosts
    NoUrl = "ftp"
    MaxRedirects = 3
    Cap = 3
    Chunk = 2
INVARIANTS TypeOK OnlyGuardedHosts OutcomeTellsCause
PROPERTY FetchEnds
\* A fetch that is over makes no further step.
CHECK_DEADLOCK FALSE
