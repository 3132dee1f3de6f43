CHECK_DEADLOCK FALSE
SPECIFICATION FairSpec
CONSTANTS
    a = a
    b = b
    NotLoaded = NotLoaded
    Paths <- MCPaths
    LLM_INFLIGHT_CAP = 1
    Schedules <- MCSchedules
    Abandoning <- MCAbandoning
    Options <- MCOptions
INVARIANTS
    LiveIsOfPath
    FailsOnlyByFault
    NothingInFlight
    NothingLeft
PROPERTY
    ReplayEnds
