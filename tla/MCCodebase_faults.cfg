\* All strategies and CI tools; a provider without webhooks and one without an API for the
\* default branch (gitlab and github have both); two failing calls or restarts, one work directory that
\* stays, one change by others, deletion at any time.
SPECIFICATION FairSpec
CONSTANTS
    Strategies = {"create", "clone", "import"}
    CiTools = {"tekton", "gitlab"}
    Providers = {"gerrit", "bitbucket"}
    Deletable = TRUE
    MayRestart = TRUE
    ForeignPush = "early"
    MaxFaults = 2
    MaxLeftovers = 1
    MaxEdits = 1
INVARIANTS
    TypeOK
    GitStatusIsTrue
    AvailableIsComplete
    CredentialsOutlivePush
    RecordedHookIsDeleted
PROPERTIES
    HistoryNeverReplaced
    ImplementsLifecycle
    EventuallySettled
CHECK_DEADLOCK FALSE
