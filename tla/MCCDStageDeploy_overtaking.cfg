\* Three requests for one stage, nothing fails.
CONSTANTS
    d1 = d1  d2 = d2  d3 = d3  dev = dev  sit = sit  app = app  lib = lib
    NoDeploy = NoDeploy
    Deploys = {d1, d2, d3}
    Stages = {dev}
    Apps = {app}
    AutoStable = {}
    EmptyTemplate = {}
    StableTag <- NoStable
    InitialTag <- AllTagged
    Terminable = {}
    MayRestart = TRUE
    ClockSteps = {0, 1}
    MaxTag = 1
    MaxRuns = 3
    MaxFaults = 0
    MaxStale = 0
SPECIFICATION FairSpec
CHECK_DEADLOCK FALSE
PROPERTIES NoOvertaking
