\* Somebody else pushes after the operator has verified that there is no default branch.
SPECIFICATION Spec
CONSTANTS
    Strategies = {"create", "clone", "import"}
    CiTools = {"tekton", "gitlab"}
    Providers = {"gerrit", "gitlab", "bitbucket"}
    Deletable = FALSE
    MayRestart = TRUE
    ForeignPush = "always"
    MaxFaults = 2
    MaxLeftovers = 0
    MaxEdits = 0
INVARIANTS
    AdoptsOnlyOwnPush
CHECK_DEADLOCK FALSE
