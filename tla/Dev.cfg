\* run_now at any moment, next to the sweeper and the workers; the workers are fair.
SPECIFICATION DevFairSpec
CONSTANTS
    Sources <- MCSources
    PollingSources <- MCPollingSources
    SourceErrors <- MCOneError
    MaxRetries = 0
    Interval = 1
    Budget = 1
    MaxRuns = 1
    MaxFaults = 0
INVARIANTS DevAnnouncedAtMostOnce StatusMatchesReports
PROPERTIES DevKeepsPromise DevFinishedNeverReopened DevRunEventuallyCloses
\* A closed audit nobody reruns is at rest.
CHECK_DEADLOCK FALSE
