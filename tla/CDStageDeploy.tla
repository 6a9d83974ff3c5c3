--------------------------- MODULE CDStageDeploy ---------------------------
(***************************************************************************)
(* The CDStageDeploy controller (controllers/cdstagedeploy).               *)
(*                                                                         *)
(* A CDStageDeploy custom resource is a request to deploy an application   *)
(* to a stage of a CD pipeline.  The controller has one worker; a          *)
(* reconcile fetches the resource, runs the chain ResolveStatus,           *)
(* ProcessTriggerTemplate, DeleteCDStageDeploy and writes the status.      *)
(* Reads go through the informer caches of the manager's client and may    *)
(* trail the API server; creates, deletes and status updates go to the     *)
(* API server.  Every read or write of the cluster is an action of its     *)
(* own, so that Tekton, the CI pipelines and the owners of the resources   *)
(* can move between any two of them.                                       *)
(***************************************************************************)
EXTENDS Naturals, Sequences, FiniteSets

CONSTANTS
    Deploys,        \* names that GenerateName can produce
    Stages,         \* the Stage resources
    Apps,           \* the applications of the CD pipeline, one image stream each
    AutoStable,     \* the stages whose trigger type is Auto-stable
    EmptyTemplate,  \* the stages whose TriggerTemplate has no resource templates
    StableTag,      \* tag in the stage's app.edp.epam.com/<app> annotation, 0 for none
    InitialTag,     \* newest tag of each image stream at the start, 0 for none
    Terminable,     \* the CDStageDeploys somebody else may delete
    ClockSteps,     \* seconds that may pass between two creations
    MaxTag,         \* bound: tags pushed to an image stream
    MaxRuns,        \* bound: PipelineRuns
    MayRestart,     \* whether the operator restarts
    MaxFaults,      \* bound: failed API calls and operator restarts
    MaxStale,       \* bound: reads of a cache that trails the API server
    NoDeploy        \* no resource is being reconciled

ASSUME ConstantsAssumption ==
    /\ Stages # {} /\ Apps # {}
    /\ AutoStable \subseteq Stages
    /\ EmptyTemplate \subseteq Stages
    /\ Terminable \subseteq Deploys
    /\ NoDeploy \notin Deploys
    /\ MayRestart \in BOOLEAN
    /\ ClockSteps \subseteq Nat
    /\ MaxTag \in Nat /\ MaxRuns \in Nat /\ MaxFaults \in Nat /\ MaxStale \in Nat
    /\ StableTag \in [Stages -> [Apps -> 0 .. MaxTag]]
    /\ InitialTag \in [Apps -> 0 .. MaxTag]

VARIABLES
    deploy,         \* the CDStageDeploy resources in the API server
    runs,           \* the PipelineRuns in the API server, in order of creation
    tags,           \* newest tag of each CodebaseImageStream, in the shared cache
    clock,          \* seconds, the resolution of creationTimestamp
    cachedDeploy,   \* what the informer cache of deploy held when last seen
    cachedRuns,     \* what the informer cache of runs held when last seen
    queue,          \* the controller's work queue, timers of requeues included
    pc,             \* the step the reconcile in flight takes next
    rec,            \* its local copy of the resource and its local variables
    faults,         \* failed API calls and restarts so far
    stale           \* reads of a stale cache so far

clusterVars == <<deploy, runs, tags, clock>>
cacheVars == <<cachedDeploy, cachedRuns>>
vars == <<clusterVars, cacheVars, queue, pc, rec, faults, stale>>
-----------------------------------------------------------------------------
(* Types. "absent" and "gone" stand for a name not used yet and for a
   resource that has been deleted. *)

Statuses == {"pending", "in-queue", "running", "failed", "completed"}
Payloads == [Apps -> 0 .. MaxTag]
NoPayload == [a \in Apps |-> 0]

DeployRecord ==
    [status : Statuses \cup {"absent", "gone"}, terminating : BOOLEAN,
     stage : Stages, app : Apps, tag : 0 .. MaxTag,
     born : Nat, version : Nat]

RunRecord == [by : Deploys, stage : Stages, payload : Payloads, active : BOOLEAN]

Phases == {"idle", "resolve", "queue", "trigger", "create", "delete", "update"}

\* The local variables of Reconcile: oldStatus and the decoded resource.
RecRecord ==
    [name : Deploys \cup {NoDeploy}, old : Statuses, status : Statuses,
     version : Nat, payload : Payloads]

NoRec == [name |-> NoDeploy, old |-> "pending", status |-> "pending",
          version |-> 0, payload |-> NoPayload]

Present(r) == r.status \notin {"absent", "gone"}

Init ==
    /\ deploy \in [Deploys -> {[status |-> "absent", terminating |-> FALSE,
                                stage |-> CHOOSE s \in Stages : TRUE,
                                app |-> CHOOSE a \in Apps : TRUE,
                                tag |-> 0, born |-> 0, version |-> 0]}]
    /\ runs = <<>>
    /\ tags = InitialTag
    /\ clock = 0
    /\ cachedDeploy = deploy
    /\ cachedRuns = runs
    /\ queue = {}
    /\ pc = "idle"
    /\ rec = NoRec
    /\ faults = 0
    /\ stale = 0
-----------------------------------------------------------------------------
(* API calls. *)

\* A read of an informer cache. The cache has caught up with the API server
\* when it is read, or it still is what it was, which costs a stale read unless
\* what the reader looks at is the same; a cache never goes back. Once the stale
\* reads are used up, what the cache held before does not matter any more.
Read(isCurrent) ==
    \/ isCurrent /\ stale' = stale
    \/ ~isCurrent /\ stale < MaxStale /\ stale' = stale + 1

ReadDeploys(view, isCurrent) ==
    /\ view \in {deploy, cachedDeploy}
    /\ Read(isCurrent)
    /\ cachedDeploy' = IF stale < MaxStale THEN view ELSE cachedDeploy

ReadRuns(view) ==
    /\ view \in {runs, cachedRuns}
    /\ Read(view = runs)
    /\ cachedRuns' = IF stale < MaxStale THEN view ELSE cachedRuns

\* How a call ends: it takes effect ("ok"), it does not ("error"), or it takes
\* effect and the caller gets an error all the same ("unknown").
Outcome(o) ==
    \/ o = "ok" /\ faults' = faults
    \/ o \in {"error", "unknown"} /\ faults < MaxFaults /\ faults' = faults + 1

\* SetFailedStatus runs on every error the chain returns.
ChainFails ==
    /\ pc' = "update"
    /\ rec' = [rec EXCEPT !.status = "failed"]
-----------------------------------------------------------------------------
(* The environment. *)

FreshName == CHOOSE d \in Deploys : deploy[d].status = "absent"

\* A CDStageDeploy for stage s and tag n of application a is created. Its create
\* event puts it in the queue of the controller; the predicate drops every update
\* of a resource whose pause annotation does not change.
CreateDeploy(s, a, n) ==
    /\ \E d \in Deploys : deploy[d].status = "absent"
    /\ \E t \in {clock + k : k \in ClockSteps} :
         /\ clock' = t
         /\ queue' = queue \cup {FreshName}
         /\ deploy' = [deploy EXCEPT ![FreshName] =
              [status |-> "pending", terminating |-> FALSE, stage |-> s,
               app |-> a, tag |-> n, born |-> t, version |-> 1]]

\* Somebody creates one for the newest tag; module AutoDeploy has the controller
\* that does.
Request(s, a) ==
    /\ tags[a] > 0
    /\ CreateDeploy(s, a, tags[a])
    /\ UNCHANGED <<runs, tags, cacheVars, pc, rec, faults, stale>>

\* A CI pipeline adds a tag to an image stream and the watch delivers it. Requests
\* and payloads are made from the same cache, which never goes back.
PushTag(a) ==
    /\ tags[a] < MaxTag
    /\ tags' = [tags EXCEPT ![a] = @ + 1]
    /\ UNCHANGED <<deploy, runs, clock, cacheVars, queue, pc, rec, faults, stale>>

\* Somebody deletes the resource, or its Stage with foreground propagation ...
Terminate(d) ==
    /\ d \in Terminable
    /\ Present(deploy[d]) /\ ~deploy[d].terminating
    /\ deploy' = [deploy EXCEPT ![d].terminating = TRUE, ![d].version = @ + 1]
    /\ UNCHANGED <<runs, tags, clock, cacheVars, queue, pc, rec, faults, stale>>

\* ... and the garbage collector removes it.
Reap(d) ==
    /\ Present(deploy[d]) /\ deploy[d].terminating
    /\ deploy' = [deploy EXCEPT ![d].status = "gone"]
    /\ UNCHANGED <<runs, tags, clock, cacheVars, queue, pc, rec, faults, stale>>

\* Tekton completes a PipelineRun: CompletionTime is set.
FinishRun(i) ==
    /\ i \in DOMAIN runs
    /\ runs[i].active
    /\ runs' = [runs EXCEPT ![i].active = FALSE]
    /\ UNCHANGED <<deploy, tags, clock, cacheVars, queue, pc, rec, faults, stale>>

\* A watch delivers what has happened so far.
SyncDeploys ==
    /\ stale < MaxStale /\ cachedDeploy # deploy
    /\ cachedDeploy' = deploy
    /\ UNCHANGED <<clusterVars, cachedRuns, queue, pc, rec, faults, stale>>

SyncRuns ==
    /\ stale < MaxStale /\ cachedRuns # runs
    /\ cachedRuns' = runs
    /\ UNCHANGED <<clusterVars, cachedDeploy, queue, pc, rec, faults, stale>>

\* The operator restarts: the new caches are listed, and every resource in
\* them comes as a create event.
Restart ==
    /\ MayRestart /\ faults < MaxFaults
    /\ faults' = faults + 1
    /\ cachedDeploy' = deploy
    /\ cachedRuns' = runs
    /\ queue' = {d \in Deploys : Present(deploy[d])}
    /\ pc' = "idle"
    /\ rec' = NoRec
    /\ UNCHANGED <<clusterVars, stale>>
-----------------------------------------------------------------------------
(* The reconciler. The resource stays in queue: a reconcile that ends well is
   requeued after 30 seconds, one that fails after the rate limiter's delay.
   Between two calls of the API the handlers only look at the local copy, so
   the next call follows from the status in it. *)

\* Mutant: a failed resource is not retried.
skipsFailed(status) == status # "pending"

skipPipelineRunCreation(status) == status \notin {"pending", "failed"}

\* What follows ResolveStatus: ProcessTriggerTemplate, or else
\* DeleteCDStageDeploy, or else the status update of Reconcile if there is
\* something to write.
afterResolve(r) ==
    IF ~skipPipelineRunCreation(r.status) THEN "trigger"
    ELSE IF r.status = "completed" THEN "delete"
    ELSE IF r.status # r.old THEN "update"
    ELSE "idle"

Continue(r, phase) ==
    /\ pc' = phase
    /\ rec' = IF phase = "idle" THEN NoRec ELSE r

\* Reconcile, up to the chain: a resource that is not there, or is being
\* deleted, is dropped; ResolveStatus lets a failed one pass, whatever is
\* running. The event that queued the resource came after it was in the cache.
Reconcile(d) ==
    /\ pc = "idle" /\ d \in queue
    /\ \E view \in {deploy, cachedDeploy} :
         /\ view[d].status # "absent"
         /\ ReadDeploys(view, view[d] = deploy[d])
         /\ \/ /\ ~Present(view[d]) \/ view[d].terminating
               /\ queue' = queue \ {d}
               /\ UNCHANGED <<pc, rec>>
            \/ /\ Present(view[d]) /\ ~view[d].terminating
               /\ LET r == [name |-> d, old |-> view[d].status, status |-> view[d].status,
                            version |-> view[d].version, payload |-> NoPayload]
                  IN  Continue(r, IF r.status = "failed" THEN afterResolve(r) ELSE "resolve")
               /\ UNCHANGED queue
    /\ UNCHANGED <<clusterVars, cachedRuns, faults>>

RecStage == deploy[rec.name].stage

\* Mutant: only the newest PipelineRun is looked at.
newestCompleted(pipelineRuns, s) ==
    LET last == {i \in DOMAIN pipelineRuns : /\ pipelineRuns[i].stage = s
                   /\ \A j \in DOMAIN pipelineRuns : pipelineRuns[j].stage = s => j <= i}
    IN  \A i \in last : ~pipelineRuns[i].active

allPipelineRunsCompleted(pipelineRuns, s) ==
    \A i \in DOMAIN pipelineRuns : pipelineRuns[i].stage = s => ~pipelineRuns[i].active

\* Mutant: a status that the resource's schema does not know.
unknownStatus(status, done) ==
    CASE status = "pending" /\ ~done -> "queued"
      [] status = "running" /\ done  -> "completed"
      [] OTHER                       -> status

\* Mutant: a pending resource starts whatever is running.
neverQueued(status, done) ==
    IF status = "running" /\ done THEN "completed" ELSE status

\* The status ResolveStatus decides on from the PipelineRuns it lists.
resolvedStatus(status, done) ==
    CASE status = "pending" /\ ~done -> "in-queue"
      [] status = "running" /\ done  -> "completed"
      [] OTHER                       -> status

\* ResolveStatus: list the PipelineRuns of the stage.
ResolveStatus(o) ==
    /\ pc = "resolve"
    /\ o \in {"ok", "error"} /\ Outcome(o)
    /\ \E view \in {runs, cachedRuns} :
         /\ ReadRuns(view)
         /\ \/ o = "error" /\ ChainFails
            \/ LET done == allPipelineRunsCompleted(view, RecStage)
                   r == [rec EXCEPT !.status = resolvedStatus(@, done)]
               IN  /\ o = "ok"
                   /\ Continue(r, IF rec.status = "in-queue" /\ done THEN "queue"
                                  ELSE afterResolve(r))
    /\ UNCHANGED <<clusterVars, cachedDeploy, queue>>

ofStage(deploys, s) == {d \in Deploys : Present(deploys[d]) /\ deploys[d].stage = s}

allCdStageDeploysInQue(deploys, s) ==
    \A d \in ofStage(deploys, s) : deploys[d].status = "in-queue"

\* Mutant: equal timestamps are taken for an earlier one.
strictlyFirst(deploys, s, d) ==
    /\ d \in ofStage(deploys, s)
    /\ \A e \in ofStage(deploys, s) \ {d} : deploys[d].born < deploys[e].born

\* The first of the list with the least timestamp; the list has no order, so of
\* several with the same timestamp any may come first.
isFirsCdStageDeployInQue(deploys, s, d) ==
    /\ d \in ofStage(deploys, s)
    /\ \A e \in ofStage(deploys, s) : deploys[d].born <= deploys[e].born

isSecond(deploys, s, d) ==
    \E e \in ofStage(deploys, s) \ {d} : deploys[e].born <= deploys[d].born

\* shouldStartCDStageDeploy: list the CDStageDeploys of the stage.
shouldStartCDStageDeploy(o) ==
    /\ pc = "queue"
    /\ o \in {"ok", "error"} /\ Outcome(o)
    /\ \E view \in {deploy, cachedDeploy} :
         /\ ReadDeploys(view, view = deploy)
         /\ \/ o = "error" /\ ChainFails
            \/ /\ o = "ok"
               /\ allCdStageDeploysInQue(view, RecStage)
               /\ isFirsCdStageDeployInQue(view, RecStage, rec.name)
               /\ Continue([rec EXCEPT !.status = "pending"], "trigger")
            \/ /\ o = "ok"
               /\ \/ ~allCdStageDeploysInQue(view, RecStage)
                  \/ rec.name \notin ofStage(view, RecStage)
                  \/ isSecond(view, RecStage, rec.name)
               /\ Continue(rec, afterResolve(rec))
    /\ UNCHANGED <<clusterVars, cachedRuns, queue>>

\* Mutant: the annotation of the stage wins over the tag of the request.
stableFirst(d) ==
    [a \in Apps |-> IF StableTag[deploy[d].stage][a] # 0
                    THEN StableTag[deploy[d].stage][a]
                    ELSE IF a = deploy[d].app THEN deploy[d].tag ELSE tags[a]]

\* GetAppPayloadForCurrentWithStableStrategy: the tag of the request, the tags
\* of the annotations, and the newest tag of the rest.
currentWithStable(d) ==
    [a \in Apps |-> IF a = deploy[d].app THEN deploy[d].tag
                    ELSE IF StableTag[deploy[d].stage][a] # 0
                         THEN StableTag[deploy[d].stage][a]
                         ELSE tags[a]]

\* Mutant: the tags that were there when the operator started.
firstTags(d) ==
    IF deploy[d].stage \in AutoStable THEN currentWithStable(d) ELSE InitialTag

\* GetAppPayloadForAllLatestStrategy takes the newest tag of every stream.
getAppPayload(d) ==
    IF deploy[d].stage \in AutoStable THEN currentWithStable(d) ELSE tags

\* Both strategies ask every image stream for its last tag.
lastTagNotFound == \E a \in Apps : tags[a] = 0

\* ProcessTriggerTemplate, up to CreatePipelineRun: read the CDPipeline, the
\* Stage, the TriggerTemplate and the image streams.
ProcessTriggerTemplate(o) ==
    /\ pc = "trigger"
    /\ o \in {"ok", "error"} /\ Outcome(o)
    /\ \/ o = "error" /\ ChainFails
       \/ /\ o = "ok" /\ (RecStage \in EmptyTemplate \/ lastTagNotFound)
          /\ Continue([rec EXCEPT !.status = "completed"], "delete")
       \/ /\ o = "ok" /\ RecStage \notin EmptyTemplate /\ ~lastTagNotFound
          /\ Continue([rec EXCEPT !.payload = getAppPayload(rec.name)], "create")
    /\ UNCHANGED <<clusterVars, cacheVars, queue, stale>>

\* Mutant: an error of the creation is dropped.
ignoresError(o) ==
    /\ pc = "create"
    /\ Len(runs) < MaxRuns
    /\ Outcome(o)
    /\ runs' = IF o = "error" THEN runs
               ELSE Append(runs, [by |-> rec.name, stage |-> RecStage,
                                  payload |-> rec.payload, active |-> TRUE])
    /\ Continue([rec EXCEPT !.status = "running"], "update")
    /\ UNCHANGED <<deploy, tags, clock, cacheVars, queue, stale>>

\* Mutant: the status "running" is not set.
staysPending(o) ==
    /\ pc = "create"
    /\ Len(runs) < MaxRuns
    /\ Outcome(o)
    /\ runs' = IF o = "error" THEN runs
               ELSE Append(runs, [by |-> rec.name, stage |-> RecStage,
                                  payload |-> rec.payload, active |-> TRUE])
    /\ \/ o # "ok" /\ ChainFails
       \/ o = "ok" /\ Continue(rec, "idle")
    /\ UNCHANGED <<deploy, tags, clock, cacheVars, queue, stale>>

\* CreatePipelineRun; a running CDStageDeploy is not deleted, and its status
\* cannot be the old one.
CreatePipelineRun(o) ==
    /\ pc = "create"
    /\ Len(runs) < MaxRuns
    /\ Outcome(o)
    /\ runs' = IF o = "error" THEN runs
               ELSE Append(runs, [by |-> rec.name, stage |-> RecStage,
                                  payload |-> rec.payload, active |-> TRUE])
    /\ \/ o # "ok" /\ ChainFails
       \/ o = "ok" /\ Continue([rec EXCEPT !.status = "running"], "update")
    /\ UNCHANGED <<deploy, tags, clock, cacheVars, queue, stale>>

\* DeleteCDStageDeploy; "not found" counts as success, and a resource that is
\* already being deleted stays until the garbage collector removes it. Reconcile
\* does not write the status "completed".
DeleteCDStageDeploy(o) ==
    /\ pc = "delete"
    /\ Outcome(o)
    /\ deploy' = IF o = "error" \/ deploy[rec.name].terminating THEN deploy
                 ELSE [deploy EXCEPT ![rec.name].status = "gone"]
    /\ \/ o # "ok" /\ ChainFails
       \/ o = "ok" /\ Continue(rec, "idle")
    /\ UNCHANGED <<runs, tags, clock, cacheVars, queue, stale>>

\* The status update of Reconcile, after the chain succeeded or after
\* SetFailedStatus. An error of the update is only logged.
UpdateStatus(o) ==
    /\ pc = "update"
    /\ Outcome(o)
    /\ deploy' = IF /\ o # "error"
                    /\ Present(deploy[rec.name])
                    /\ deploy[rec.name].version = rec.version
                 THEN [deploy EXCEPT ![rec.name].status = rec.status,
                                     ![rec.name].version = @ + 1]
                 ELSE deploy
    /\ Continue(rec, "idle")
    /\ UNCHANGED <<runs, tags, clock, cacheVars, queue, stale>>
-----------------------------------------------------------------------------
Outcomes == {"ok", "error", "unknown"}

\* The steps of the reconcile in flight.
Step ==
    \E o \in Outcomes :
        \/ ResolveStatus(o) \/ shouldStartCDStageDeploy(o)
        \/ ProcessTriggerTemplate(o) \/ CreatePipelineRun(o)
        \/ DeleteCDStageDeploy(o) \/ UpdateStatus(o)

Environment ==
    \/ \E a \in Apps : PushTag(a)
    \/ \E d \in Deploys : Terminate(d) \/ Reap(d)
    \/ \E i \in 1 .. MaxRuns : FinishRun(i)
    \/ SyncDeploys \/ SyncRuns \/ Restart

Controller == Step \/ \E d \in Deploys : Reconcile(d)

Next ==
    \/ Controller
    \/ Environment
    \/ \E s \in Stages, a \in Apps : Request(s, a)

Spec == Init /\ [][Next]_vars

\* The work queue is first in, first out and every reconcile ends in a requeue,
\* so each resource in it gets its turn; Tekton completes every PipelineRun; the
\* garbage collector works. Of requests with the same timestamp the random order
\* of the cache's list does not always favour the other one.
Fairness ==
    /\ WF_vars(Step)
    /\ SF_vars(shouldStartCDStageDeploy("ok") /\ pc' = "trigger")
    /\ \A d \in Deploys : SF_vars(Reconcile(d)) /\ WF_vars(Reap(d))
    /\ \A i \in 1 .. MaxRuns : WF_vars(FinishRun(i))

FairSpec == Spec /\ Fairness
-----------------------------------------------------------------------------
(* Properties. *)

TypeOK ==
    /\ deploy \in [Deploys -> DeployRecord]
    /\ runs \in Seq(RunRecord)
    /\ tags \in Payloads
    /\ clock \in Nat
    /\ cachedDeploy \in [Deploys -> DeployRecord]
    /\ cachedRuns \in Seq(RunRecord)
    /\ queue \subseteq Deploys
    /\ pc \in Phases
    /\ rec \in RecRecord
    /\ faults \in 0 .. MaxFaults
    /\ stale \in 0 .. MaxStale

RunsOf(d) == {i \in DOMAIN runs : runs[i].by = d}
ActiveRuns(s) == {i \in DOMAIN runs : runs[i].stage = s /\ runs[i].active}

\* The controller deletes a CDStageDeploy only once a PipelineRun was created
\* for it, whatever fails and however stale the caches are. The exceptions are
\* the two the code names: a TriggerTemplate without resource templates, and an
\* image stream that had no tag.
DeployedBeforeGone ==
    \A d \in Deploys :
        deploy[d].status = "gone" /\ ~deploy[d].terminating =>
            \/ RunsOf(d) # {}
            \/ deploy[d].stage \in EmptyTemplate
            \/ \E a \in Apps : InitialTag[a] = 0

\* As long as no call failed and no cache was stale when it was read, a stage
\* has one PipelineRun at a time: what the single worker and the in-queue status
\* are there for.
OneRunPerStage ==
    faults = 0 /\ stale = 0 => \A s \in Stages : Cardinality(ActiveRuns(s)) <= 1

\* Every PipelineRun beyond the first of its CDStageDeploy is accounted for by a
\* fault or a stale read: the retries of the controller do not multiply them.
RunsAccountedFor ==
    Len(runs) <= Cardinality({d \in Deploys : deploy[d].status # "absent"}) + faults + stale

\* With caches that are up to date, the controller does not delete a
\* CDStageDeploy while a PipelineRun it started is still running, whatever fails.
NoOrphanRun ==
    stale = 0 => \A d \in Deploys :
        deploy[d].status = "gone" /\ ~deploy[d].terminating =>
            \A i \in RunsOf(d) : ~runs[i].active

\* A PipelineRun never deploys an older tag of the requesting application than
\* the one its CDStageDeploy was created for, although the payload is read much
\* later than the request was written; for Auto-stable it is exactly that tag.
PayloadCoversRequest ==
    \A i \in DOMAIN runs :
        LET d == deploy[runs[i].by]
        IN  IF d.stage \in AutoStable THEN runs[i].payload[d.app] = d.tag
                                      ELSE runs[i].payload[d.app] >= d.tag

\* Every CDStageDeploy is eventually processed and deleted, after finitely many
\* faults: nothing waits in the queue for ever, and a failure is retried.
EveryDeployEnds ==
    \A d \in Deploys : Present(deploy[d]) ~> deploy[d].status = "gone"
-----------------------------------------------------------------------------
(* The promise of StageQueue, kept when no call fails and no cache is stale. *)

abstractRequest ==
    [d \in Deploys |-> IF deploy[d].status = "absent" THEN "absent"
                       ELSE IF Present(deploy[d]) THEN "open" ELSE "closed"]

abstractWork ==
    [d \in Deploys |-> IF RunsOf(d) = {} THEN "none"
                       ELSE IF \E i \in RunsOf(d) : runs[i].active THEN "active"
                       ELSE "complete"]

Queue == INSTANCE StageQueue WITH
    Requests <- Deploys, Idle <- EmptyTemplate, Withdrawable <- Terminable,
    request <- abstractRequest, stage <- [d \in Deploys |-> deploy[d].stage],
    work <- abstractWork

\* Without faults and stale reads the controller implements StageQueue: each
\* CDStageDeploy is deployed exactly once, one at a time per stage, and removed
\* after its PipelineRun has completed.
ImplementsQueue == Queue!FairSpec

\* A CDStageDeploy never overtakes one of its stage that was created before it
\* and waits in the queue.
NoOvertaking ==
    [][\A i \in DOMAIN runs' \ DOMAIN runs :
         \A e \in ofStage(deploy, runs'[i].stage) :
            deploy[e].status = "in-queue" => deploy[runs'[i].by].born <= deploy[e].born]_vars

\* "We need to process only one CDStageDeploy at a time to avoid running multiple
\* pipelines in parallel": no stage has two running PipelineRuns, failures of
\* API calls included.
NeverParallel == \A s \in Stages : Cardinality(ActiveRuns(s)) <= 1
=============================================================================
