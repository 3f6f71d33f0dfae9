\* A task of a run that was swept stores its result in the rerun.
SPECIFICATION Spec
CONSTANTS
    Sources <- MCSources
    PollingSources <- MCPollingSources
    SourceErrors <- MCOneError
    MaxRetries = 0
    Interval = 1
    Budget = 1
    MaxRuns = 2
    MaxFaults = 0
INVARIANT FinishedByTheRun
\* A closed audit nobody reruns is at rest.
CHECK_DEADLOCK FALSE
