\* Some thousand snapshots around every limit; all hosts of up to four labels, those of up
\* to two with whitespace at an end, and IP literals; poll settings at their defaults
\* scaled down, at the clamps and below them, with fetches of up to three seconds and one
\* second of slack for a worker that is not immediate; two concurrent checks of two keys.
SPECIFICATION Spec
CONSTANTS
    Snapshots <- MCSnapshots
    Height = 3
    MaxDepth = 2
    ListCap = 3
    SizeLimit = 14
    Hostnames <- MCHostnames
    Lower <- MCLower
    LStrip <- MCLStrip
    RStrip <- MCRStrip
    BeforeColon <- MCBeforeColon
    Spaced <- MCSpaced
    IpHosts <- MCIpHosts
    MultiPartSuffixes <- MCSuffixes
    Blank = ""
    Configured <- MCConfigured
    Latency = 1
    FetchTime = 3
    LastStart = 3
    Horizon = 30
    k1 = k1
    k2 = k2
    c1 = c1
    c2 = c2
    Keys = {k1, k2}
    Checkers = {c1, c2}
    CacheTtl = 1
INVARIANTS StoredIsClean CleanIsUnchanged RefusedIsHopeless
INVARIANTS DomainIsFixedPoint DomainIsShortestKey
INVARIANTS ClosedInTime NoSpinning
PROPERTIES OnlyLatePollsAreFailed SilenceIsWarranted FixIsSeen
\* A conversion ends.
CHECK_DEADLOCK FALSE
