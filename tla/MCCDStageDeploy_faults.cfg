\* Two requests, one failing call or restart and one stale read.
CONSTANTS
    d1 = d1  d2 = d2  d3 = d3  dev = dev  sit = sit  app = app  lib = lib
    NoDeploy = NoDeploy
    Deploys = {d1, d2}
    Stages = {dev}
    Apps = {app}
    AutoStable = {}
    EmptyTemplate = {}
    StableTag <- NoStable
    InitialTag <- AllTagged
    Terminable = {d1}
    MayRestart = TRUE
    ClockSteps = {1}
    MaxTag = 2
    MaxRuns = 5
    MaxFaults = 1
    MaxStale = 1
SPECIFICATION Spec
CHECK_DEADLOCK FALSE
INVARIANTS TypeOK DeployedBeforeGone OneRunPerStage RunsAccountedFor NoOrphanRun
