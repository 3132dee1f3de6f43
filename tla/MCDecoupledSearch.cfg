SPECIFICATION FairSpec
CONSTANTS
    Actions <- MCActions
    max_iter = 4
    max_expansions = 2
    verify_cmd = TRUE
INVARIANTS
    TreeFaithful
    SandboxAtNode
PROPERTY
    SearchEnds
