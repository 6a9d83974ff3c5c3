\* One push to an Auto stage with nothing to deploy and to an Auto-stable stage, one failing call.
CONSTANTS
    d1 = d1  d2 = d2  d3 = d3  d4 = d4  d5 = d5  dev = dev  sit = sit  app = app  lib = lib
    NoDeploy = NoDeploy
    Deploys = {d1, d2, d3, d4}
    Stages = {dev, sit}
    Apps = {app, lib}
    AutoStable = {sit}
    AutoStages = {dev}
    Labels <- AppLabels
    EmptyTemplate = {dev}
    StableTag <- FirstStable
    InitialTag <- LaterTagged
    Terminable = {}
    MayRestart = FALSE
    ClockSteps = {1}
    MaxTag = 2
    MaxRuns = 6
    MaxFaults = 1
    MaxStale = 0
SPECIFICATION AutoFairSpec
CHECK_DEADLOCK FALSE
INVARIANTS RequestsAccountedFor PayloadCoversRequest
PROPERTIES TagReachesStage
