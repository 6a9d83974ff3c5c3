----------------------------- MODULE AutoDeploy -----------------------------
(***************************************************************************)
(* Auto-deployment from a pushed image tag to a PipelineRun: the           *)
(* CodebaseImageStream controller (controllers/codebaseimagestream), which *)
(* turns a change of an image stream's tags into CDStageDeploys, composed  *)
(* with the CDStageDeploy controller that works on them.  Each controller  *)
(* has one worker; the two share the caches and run concurrently.          *)
(***************************************************************************)
EXTENDS CDStageDeploy

CONSTANTS
    Labels,         \* the stages in the labels <pipeline>/<stage> of each stream
    AutoStages      \* the stages whose trigger type is Auto

ASSUME LabelsAssumption ==
    /\ Labels \in [Apps -> SUBSET Stages]
    /\ AutoStages \subseteq Stages \ AutoStable

VARIABLES
    cisQueue,       \* the work queue of the CodebaseImageStream controller
    cisPc,          \* what its reconcile does next
    cis             \* the stream it handles, its newest tag, the labels left

cisVars == <<cisQueue, cisPc, cis>>
allVars == <<vars, cisVars>>

\* stage = the label being handled, once it has been taken from todo.
CisRecord == [app : Apps, tag : 0 .. MaxTag, todo : SUBSET Stages, stage : Stages]

NoCis == [app |-> CHOOSE a \in Apps : TRUE, tag |-> 0, todo |-> {},
          stage |-> CHOOSE s \in Stages : TRUE]

AutoInit ==
    /\ Init
    /\ cisQueue = {} /\ cisPc = "idle" /\ cis = NoCis

\* A new tag is an update event that changes Spec.Tags of a stream with labels.
TagEvent(a) ==
    /\ PushTag(a)
    /\ cisQueue' = IF Labels[a] = {} THEN cisQueue ELSE cisQueue \cup {a}
    /\ UNCHANGED <<cisPc, cis>>

\* ReconcileCodebaseImageStream: fetch the stream and visit its labels.
ReconcileImageStream(a) ==
    /\ cisPc = "idle" /\ a \in cisQueue
    /\ cisQueue' = cisQueue \ {a}
    /\ cisPc' = "check"
    /\ cis' = [NoCis EXCEPT !.app = a, !.tag = tags[a], !.todo = Labels[a]]
    /\ UNCHANGED vars

\* Mutant: the error is dropped.
forgetsStream ==
    /\ cisPc' = "idle" /\ cis' = NoCis
    /\ UNCHANGED cisQueue

\* An error ends the reconcile; the stream is queued again and starts over.
CisFails ==
    /\ cisQueue' = cisQueue \cup {cis.app}
    /\ cisPc' = "idle" /\ cis' = NoCis

\* Mutant: off by one.
skipsLater(view, s) ==
    s \in AutoStages /\ Cardinality(ofStage(view, s)) >= 3

skipCDStageDeployCreation(view, s) ==
    s \in AutoStages /\ Cardinality(ofStage(view, s)) >= 2

\* putCDStageDeploy up to create: get the Stage and list its CDStageDeploys. The
\* labels of a Go map come in any order.
CheckLabel(s, o) ==
    /\ cisPc = "check" /\ s \in cis.todo
    /\ o \in {"ok", "error"} /\ Outcome(o)
    /\ \E view \in {deploy, cachedDeploy} :
         /\ ReadDeploys(view, s \in AutoStages => view = deploy)
         /\ \/ o = "error" /\ CisFails
            \/ /\ o = "ok"
               /\ cis' = [cis EXCEPT !.todo = @ \ {s}, !.stage = s]
               /\ cisPc' = IF skipCDStageDeployCreation(view, s) THEN "check" ELSE "create"
               /\ UNCHANGED cisQueue
    /\ UNCHANGED <<clusterVars, cachedRuns, queue, pc, rec>>

\* create: a new name each time, so a retry does not meet the old resource.
PutCDStageDeploy(o) ==
    /\ cisPc = "create"
    /\ Outcome(o)
    /\ IF o = "error" THEN UNCHANGED <<deploy, clock, queue>>
       ELSE CreateDeploy(cis.stage, cis.app, cis.tag)
    /\ \/ o # "ok" /\ CisFails
       \/ o = "ok" /\ cisPc' = "check" /\ UNCHANGED <<cisQueue, cis>>
    /\ UNCHANGED <<runs, tags, cacheVars, pc, rec, stale>>

\* Mutant: the stream is requeued after it was handled.
periodic ==
    /\ cisPc = "check" /\ cis.todo = {}
    /\ cisPc' = "idle" /\ cis' = NoCis
    /\ cisQueue' = cisQueue \cup {cis.app}
    /\ UNCHANGED vars

AllLabelsDone ==
    /\ cisPc = "check" /\ cis.todo = {}
    /\ cisPc' = "idle" /\ cis' = NoCis
    /\ UNCHANGED <<vars, cisQueue>>

\* The controller ignores create events, so a restart forgets its work.
RestartAll ==
    /\ Restart
    /\ cisQueue' = {} /\ cisPc' = "idle" /\ cis' = NoCis

CisStep ==
    \/ \E o \in Outcomes : PutCDStageDeploy(o) \/ \E s \in Stages : CheckLabel(s, o)
    \/ AllLabelsDone

Unaffected ==
    \/ Controller
    \/ \E d \in Deploys : Terminate(d) \/ Reap(d)
    \/ \E i \in 1 .. MaxRuns : FinishRun(i)
    \/ SyncDeploys \/ SyncRuns

AutoNext ==
    \/ Unaffected /\ UNCHANGED cisVars
    \/ \E a \in Apps : TagEvent(a) \/ ReconcileImageStream(a)
    \/ CisStep
    \/ RestartAll

\* The fairness of the CDStageDeploy controller, and of the other's work queue.
AutoFairness ==
    /\ WF_allVars(Step /\ UNCHANGED cisVars)
    /\ SF_allVars(shouldStartCDStageDeploy("ok") /\ pc' = "trigger" /\ UNCHANGED cisVars)
    /\ \A d \in Deploys : SF_allVars(Reconcile(d) /\ UNCHANGED cisVars)
    /\ \A i \in 1 .. MaxRuns : WF_allVars(FinishRun(i) /\ UNCHANGED cisVars)
    /\ WF_allVars(CisStep)
    /\ \A a \in Apps : SF_allVars(ReconcileImageStream(a))

AutoSpec == AutoInit /\ [][AutoNext]_allVars
AutoFairSpec == AutoSpec /\ AutoFairness
-----------------------------------------------------------------------------
(* Properties. *)

CisTypeOK ==
    /\ TypeOK
    /\ cisQueue \subseteq Apps
    /\ cisPc \in {"idle", "check", "create"}
    /\ cis \in CisRecord

\* A stage with the trigger type Auto has at most two CDStageDeploys, one that
\* is worked on and one that waits, however many tags are pushed and whatever
\* fails, as long as the list that is counted is up to date.
AutoQueueBound ==
    stale = 0 => \A s \in AutoStages : Cardinality(ofStage(deploy, s)) <= 2

\* A stage gets one CDStageDeploy for a pushed tag; only a failure of a later
\* label of the same stream makes it get another one.
RequestsAccountedFor ==
    \A s \in Stages, a \in Apps :
        Cardinality({d \in Deploys : /\ deploy[d].status # "absent"
                                     /\ deploy[d].stage = s /\ deploy[d].app = a})
            <= tags[a] - InitialTag[a] + faults

\* Every tag pushed to a stream is deployed to each Auto-stable stage in its
\* labels, or a newer one is, if the operator does not restart.
TagReachesStage ==
    \A a \in Apps : \A n \in 1 .. MaxTag : \A s \in Labels[a] \ AutoStages :
        tags[a] = n /\ n > InitialTag[a] ~>
            \E i \in DOMAIN runs : runs[i].stage = s /\ runs[i].payload[a] >= n
=============================================================================
