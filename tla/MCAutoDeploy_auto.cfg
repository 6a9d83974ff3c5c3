\* Three pushes of one application to an Auto stage, one failing call or restart.
CONSTANTS
    d1 = d1  d2 = d2  d3 = d3  d4 = d4  d5 = d5  dev = dev  sit = sit  app = app  lib = lib
    NoDeploy = NoDeploy
    Deploys = {d1, d2, d3, d4}
    Stages = {dev}
    Apps = {app}
    AutoStable = {}
    AutoStages = {dev}
    Labels <- AppLabels
    EmptyTemplate = {}
    StableTag <- FirstStable
    InitialTag <- NoneTagged
    Terminable = {}
    MayRestart = TRUE
    ClockSteps = {1}
    MaxTag = 3
    MaxRuns = 6
    MaxFaults = 1
    MaxStale = 0
SPECIFICATION AutoSpec
CHECK_DEADLOCK FALSE
INVARIANTS CisTypeOK AutoQueueBound PayloadCoversRequest
