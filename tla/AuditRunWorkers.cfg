\* Only the workers are fair and nothing is lost: a run of a polling source closes and is
\* announced by its own tasks, and so is its rerun.
SPECIFICATION WorkerSpec
CONSTANTS
    Sources <- MCPollingSources
    PollingSources <- MCPollingSources
    SourceErrors <- MCOneError
    MaxRetries = 0
    Interval = 1
    Budget = 1
    MaxRuns = 2
    MaxFaults = 0
PROPERTIES KeepsPromise RunEventuallyCloses FinishedRunIsAnnounced
\* A closed audit nobody reruns is at rest.
CHECK_DEADLOCK FALSE
