\* Two GitServers with one Secret, two Codebases that put webhooks at the same time; one
\* thing that people do, one failed call, lost answer or restart.
SPECIFICATION FairSpec
CONSTANTS
    s1 = s1
    s2 = s2
    c1 = c1
    c2 = c2
    Servers = {s1, s2}
    Listening = {s1}
    Codebases = {c1, c2}
    ServerOf <- MCServerOf
    MaxIncarnation <- MCMaxIncarnation
    MaxTokens = 2
    MaxEvents = 1
    MaxFaults = 1
INVARIANTS
    TypeOK
    TokenAgrees
PROPERTIES
    OwnerKept
    EventuallyServed
CHECK_DEADLOCK FALSE
