\* Two requests, one failing call or restart, one resource deleted by its owner.
CONSTANTS
    d1 = d1  d2 = d2  d3 = d3  dev = dev  sit = sit  app = app  lib = lib
    NoDeploy = NoDeploy
    Deploys = {d1, d2}
    Stages = {dev}
    Apps = {app}
    AutoStable = {}
    EmptyTemplate = {}
    StableTag <- NoStable
    InitialTag <- AllTagged
    Terminable = {d1}
    MayRestart = TRUE
    ClockSteps = {0, 1}
    MaxTag = 1
    MaxRuns = 4
    MaxFaults = 1
    MaxStale = 0
SPECIFICATION FairSpec
CHECK_DEADLOCK FALSE
PROPERTIES EveryDeployEnds
