\* One run with a retry, two error codes and one lost, duplicated or redelivered message;
\* only the sweeper is fair, the workers may stop.
SPECIFICATION SweeperSpec
CONSTANTS
    Sources <- MCSources
    PollingSources <- MCPollingSources
    SourceErrors <- MCSourceErrors
    MaxRetries = 1
    Interval = 1
    Budget = 1
    MaxRuns = 1
    MaxFaults = 1
INVARIANT CodeMatchesStatus
PROPERTIES KeepsPromise RunEventuallyCloses
\* A closed audit nobody reruns is at rest.
CHECK_DEADLOCK FALSE
