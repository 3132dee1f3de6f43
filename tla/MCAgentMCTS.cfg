SPECIFICATION FairSpec
CONSTANTS
    src = src
    tst = tst
    c0 = c0
    c1 = c1
    c2 = c2
    none = none
    Files <- MCFiles
    Exported <- MCExported
    Contents <- MCContents
    Absent = none
    base_lower <- MCBase
    Good <- MCGood
    Inert <- MCInert
    Sessions <- MCSessions
    Edits <- MCEdits
    Options <- MCOptions
    max_expansions = 2
    edit_first = FALSE
    edit_always = FALSE
    live_verify = TRUE
    live_verify_max = 2
    verify_max_candidates = 2
    FailureFork = 1
    HostFork = 1
    PlateauFork = 1
    NoopFork = 1
    EmptyFork = 1
    PlateauWarn = 1
    PatchPlateau = 2
    NovelPlateau = 1
    LivePassSlack = 1
    UniquePatches = 2
    EditOnlyIter = 2
    EditOnlyTurns = 1
    EditOnlyExhausted = 1
    EmptyTurns = 1
    RejectAfter = 2
    MaxNarrow = 1
INVARIANTS
    SandboxFollowsSearch
    RecordsOfNode
    FinalPatchVerified

    
