\* One CodebaseBranch of the default branch or of another one, in git or not, in use or not;
\* with and without webhooks, with both strategies; two things that people do, one failed
\* call or restart.
SPECIFICATION FairSpec
CONSTANTS
    b1 = b1
    main = main
    feature = feature
    Branches = {b1}
    GitBranches = {main, feature}
    DefaultBranches = {main}
    Webhooks = {TRUE, FALSE}
    Repositories <- MCRepositories
    Deployments <- MCDeployments
    MaxEvents = 2
    MaxFaults = 1
INVARIANTS
    TypeOK
PROPERTIES
    NeverOnUnknown
    InUseSpared
    MarksSettle
    CascadeCompletes
