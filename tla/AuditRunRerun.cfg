\* Two runs of one audit, the rerun at any moment the code accepts it; a reliable broker.
\* Sweeps overtake slow tasks, stale tasks of the first run meet the second.
SPECIFICATION Spec
CONSTANTS
    Sources <- MCSources
    PollingSources <- MCPollingSources
    SourceErrors <- MCNoError
    MaxRetries = 0
    Interval = 1
    Budget = 1
    MaxRuns = 2
    MaxFaults = 0
INVARIANTS TypeOK StatusMatchesReports AnnouncedAtMostOnce SignalMatchesReports ResultsAreOfTheRun
PROPERTIES FinishedNeverReopened SweepOnlyFailsStuckRuns
\* A closed audit nobody reruns is at rest.
CHECK_DEADLOCK FALSE
