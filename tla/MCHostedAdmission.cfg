SPECIFICATION FairSpec
CONSTANTS
    Units <- MCUnits
    Background = "numa03"
    resume_failures <- MCResumes
    MaxFaults = 1
INVARIANTS
    DirtyIsGuarded
    StorageUnderDaemons
    WorksAlone
PROPERTIES
    RetryOnlyRestored
    ReviewerServed
CHECK_DEADLOCK FALSE
