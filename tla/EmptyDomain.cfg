\* A host of nothing but dots.
SPECIFICATION DomainSpec
CONSTANTS
    Snapshots <- MCSnapshots
    Height = 3
    MaxDepth = 2
    ListCap = 3
    SizeLimit = 14
    Hostnames <- MCHostnames
    Lower <- MCLower
    LStrip <- MCLStrip
    RStrip <- MCRStrip
    BeforeColon <- MCBeforeColon
    Spaced <- MCSpaced
    IpHosts <- MCIpHosts
    MultiPartSuffixes <- MCSuffixes
    Blank = ""
    Configured <- MCConfigured
    Latency = 1
    FetchTime = 3
    LastStart = 3
    Horizon = 30
    k1 = k1
    k2 = k2
    c1 = c1
    c2 = c2
    Keys = {k1, k2}
    Checkers = {c1, c2}
    CacheTtl = 1
INVARIANT DomainIsUsable
\* A conversion ends.
CHECK_DEADLOCK FALSE
