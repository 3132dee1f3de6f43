SPECIFICATION FairSpec
CONSTANTS
    Nodes <- MCNodes
    Experiments <- MCExperiments
    Campaigns <- MCCampaigns
    Cube <- MCCube
    MaxFaults = 2
INVARIANTS
    ClaimsExclusive
    RecordsAgree
PROPERTIES
    CompletedKept
    LanesEnd
CHECK_DEADLOCK FALSE
