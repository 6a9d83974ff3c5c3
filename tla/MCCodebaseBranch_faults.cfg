\* Branches of both versioning types, from the default branch, a commit, and a name and a hash
\* that do not exist, and one of another controller; two events among builds, marks, changes and
\* deletions; one failing call, lost answer or restart. It may stop when the branch is gone.
SPECIFICATION FairSpec
CONSTANTS
    Starts <- MCStarts
    MaxVersion = 2
    MaxEdits = 2
    MaxFaults = 1
INVARIANTS
    TypeOK
    ActiveIsComplete
    CreatedIsInGit
    VersionsDistinct
PROPERTIES
    ConditionKept
    ProgressKept
    VersionStartsAtZero
    EventuallySettled
CHECK_DEADLOCK FALSE
