\* A process dies between the commit that closes the run and the signal.
SPECIFICATION WorkerSpec
CONSTANTS
    Sources <- MCPollingSources
    PollingSources <- MCPollingSources
    SourceErrors <- MCOneError
    MaxRetries = 0
    Interval = 1
    Budget = 1
    MaxRuns = 1
    MaxFaults = 1
PROPERTY FinishedRunIsAnnounced
\* A closed audit nobody reruns is at rest.
CHECK_DEADLOCK FALSE
