----------------------- MODULE CDStageDeploy_proofs -----------------------
(***************************************************************************)
(* Proofs about the CDStageDeploy controller, for every set of resources,  *)
(* stages and applications and every bound on faults and stale reads.      *)
(***************************************************************************)
EXTENDS CDStageDeploy, FiniteSetTheorems, TLAPS

USE DEF Statuses, Phases, Payloads

(***************************************************************************)
(* Facts about the definitions of the model.                               *)
(***************************************************************************)

\* The name that the next CDStageDeploy gets is one that is not used yet.
LEMMA FreshNameIsFresh ==
    ASSUME \E d \in Deploys : deploy[d].status = "absent"
    PROVE  FreshName \in Deploys /\ deploy[FreshName].status = "absent"
BY DEF FreshName

\* Adding a PipelineRun leaves the others where they are.
LEMMA AppendRun ==
    ASSUME NEW S, NEW s \in Seq(S), NEW e \in S
    PROVE  /\ Append(s, e) \in Seq(S)
           /\ DOMAIN Append(s, e) = DOMAIN s \cup {Len(s) + 1}
           /\ \A i \in DOMAIN s : Append(s, e)[i] = s[i]
           /\ Append(s, e)[Len(s) + 1] = e
OBVIOUS

\* The empty local variables have their type.
LEMMA NoRecType == NoRec \in RecRecord
BY ConstantsAssumption DEF NoRec, RecRecord, NoPayload

\* Continuing with well-typed local variables keeps them well typed.
LEMMA ContinueType ==
    ASSUME NEW r \in RecRecord, NEW phase \in Phases, Continue(r, phase)
    PROVE  pc' \in Phases /\ rec' \in RecRecord
BY NoRecType DEF Continue

\* So does a failure of the chain.
LEMMA ChainFailsType ==
    ASSUME rec \in RecRecord, ChainFails
    PROVE  pc' \in Phases /\ rec' \in RecRecord
BY DEF ChainFails, RecRecord

\* An API call leaves the count of faults within its bound.
LEMMA OutcomeType ==
    ASSUME NEW o, faults \in 0 .. MaxFaults, Outcome(o)
    PROVE  faults' \in 0 .. MaxFaults
BY ConstantsAssumption DEF Outcome

\* A read leaves the count of stale reads within its bound.
LEMMA ReadType ==
    ASSUME NEW isCurrent, stale \in 0 .. MaxStale, Read(isCurrent)
    PROVE  stale' \in 0 .. MaxStale
BY ConstantsAssumption DEF Read

\* The ways a resource and a PipelineRun are changed keep their types.
LEMMA StatusUpdateType ==
    ASSUME NEW r \in DeployRecord, NEW x \in Statuses \cup {"gone"}
    PROVE  /\ [r EXCEPT !.status = x] \in DeployRecord
           /\ [r EXCEPT !.status = x, !.version = @ + 1] \in DeployRecord
           /\ [r EXCEPT !.terminating = TRUE, !.version = @ + 1] \in DeployRecord
<1>1. r.version + 1 \in Nat
  BY DEF DeployRecord
<1>2. [r EXCEPT !.status = x] \in DeployRecord
  BY DEF DeployRecord
<1>3. [r EXCEPT !.status = x, !.version = @ + 1] \in DeployRecord
  BY <1>1, Zenon DEF DeployRecord
<1>4. [r EXCEPT !.terminating = TRUE, !.version = @ + 1] \in DeployRecord
  BY <1>1, Zenon DEF DeployRecord
<1> QED
  BY <1>2, <1>3, <1>4

\* Completing a PipelineRun keeps the sequence of PipelineRuns well typed and as long.
LEMMA FinishRunType ==
    ASSUME NEW r \in RunRecord
    PROVE  [r EXCEPT !.active = FALSE] \in RunRecord
BY DEF RunRecord

(***************************************************************************)
(* Type correctness.                                                       *)
(***************************************************************************)

\* Creating a CDStageDeploy keeps the variables it touches well typed.
LEMMA CreateDeployType ==
    ASSUME TypeOK, NEW s \in Stages, NEW a \in Apps, NEW n \in 0 .. MaxTag,
           CreateDeploy(s, a, n)
    PROVE  /\ deploy' \in [Deploys -> DeployRecord]
           /\ clock' \in Nat
           /\ queue' \subseteq Deploys
<1>1. FreshName \in Deploys
  BY FreshNameIsFresh DEF CreateDeploy
<1>2. PICK t \in {clock + k : k \in ClockSteps} :
         /\ clock' = t
         /\ queue' = queue \cup {FreshName}
         /\ deploy' = [deploy EXCEPT ![FreshName] =
              [status |-> "pending", terminating |-> FALSE, stage |-> s,
               app |-> a, tag |-> n, born |-> t, version |-> 1]]
  BY DEF CreateDeploy
<1>3. t \in Nat
  BY ConstantsAssumption DEF TypeOK
<1>4. [status |-> "pending", terminating |-> FALSE, stage |-> s,
       app |-> a, tag |-> n, born |-> t, version |-> 1] \in DeployRecord
  BY <1>3 DEF DeployRecord
<1> QED
  BY <1>1, <1>2, <1>3, <1>4 DEF TypeOK

\* The payload of a PipelineRun gives every application a tag.
LEMMA PayloadType ==
    ASSUME TypeOK, NEW d \in Deploys
    PROVE  getAppPayload(d) \in Payloads
<1>1. deploy[d] \in DeployRecord
  BY DEF TypeOK
<1>2. currentWithStable(d) \in Payloads
  BY <1>1, ConstantsAssumption DEF TypeOK, DeployRecord, currentWithStable
<1> QED
  BY <1>2 DEF getAppPayload, TypeOK

\* While a reconcile is in flight, its resource is a CDStageDeploy.
InFlight == pc # "idle" => rec.name \in Deploys

\* Every variable keeps its type: every status that is ever written is one the
\* resource's schema allows, and no step runs past its bound.
TypeInv == TypeOK /\ InFlight

\* The initial states are well typed.
LEMMA TypeInit == Init => TypeInv
<1> SUFFICES ASSUME Init PROVE TypeInv
  OBVIOUS
<1>1. (CHOOSE s \in Stages : TRUE) \in Stages /\ (CHOOSE a \in Apps : TRUE) \in Apps
  BY ConstantsAssumption
<1>2. deploy \in [Deploys -> DeployRecord]
  <2> DEFINE r == [status |-> "absent", terminating |-> FALSE,
                   stage |-> CHOOSE s \in Stages : TRUE, app |-> CHOOSE a \in Apps : TRUE,
                   tag |-> 0, born |-> 0, version |-> 0]
  <2>1. r \in DeployRecord
    BY <1>1, ConstantsAssumption DEF DeployRecord
  <2>2. deploy \in [Deploys -> {r}]
    BY DEF Init
  <2> HIDE DEF r
  <2> QED
    BY <2>1, <2>2
<1>3. runs \in Seq(RunRecord)
  BY DEF Init
<1> QED
  BY <1>2, <1>3, NoRecType, ConstantsAssumption DEF Init, TypeInv, TypeOK, InFlight

\* Every step of the controller and of its environment keeps the types.
LEMMA TypeStep == TypeInv /\ [Next]_vars => TypeInv'
<1> SUFFICES ASSUME TypeInv, [Next]_vars PROVE TypeInv'
  OBVIOUS
<1> USE DEF TypeInv
<1>1. ASSUME NEW d \in Deploys, Reconcile(d) PROVE TypeInv'
  <2>1. PICK view \in {deploy, cachedDeploy} :
          /\ view[d].status # "absent"
          /\ ReadDeploys(view, view[d] = deploy[d])
          /\ \/ /\ ~Present(view[d]) \/ view[d].terminating
                /\ queue' = queue \ {d}
                /\ UNCHANGED <<pc, rec>>
             \/ /\ Present(view[d]) /\ ~view[d].terminating
                /\ Continue([name |-> d, old |-> view[d].status, status |-> view[d].status,
                             version |-> view[d].version, payload |-> NoPayload],
                            IF view[d].status = "failed" THEN "trigger" ELSE "resolve")
                /\ UNCHANGED queue
    BY <1>1 DEF Reconcile, afterResolve, skipPipelineRunCreation
  <2>2. view[d] \in DeployRecord
    BY <2>1 DEF TypeOK
  <2>3. cachedDeploy' \in [Deploys -> DeployRecord] /\ stale' \in 0 .. MaxStale
    BY <2>1, ReadType DEF ReadDeploys, TypeOK
  <2>4. CASE UNCHANGED <<pc, rec>> /\ queue' = queue \ {d}
    BY <2>3, <2>4, <1>1 DEF Reconcile, TypeOK, InFlight, clusterVars
  <2>5. CASE /\ Present(view[d])
             /\ Continue([name |-> d, old |-> view[d].status, status |-> view[d].status,
                          version |-> view[d].version, payload |-> NoPayload],
                         IF view[d].status = "failed" THEN "trigger" ELSE "resolve")
             /\ UNCHANGED queue
    <3> DEFINE r == [name |-> d, old |-> view[d].status, status |-> view[d].status,
                     version |-> view[d].version, payload |-> NoPayload]
               phase == IF view[d].status = "failed" THEN "trigger" ELSE "resolve"
    <3>1. r \in RecRecord
      BY <2>2, <2>5, ConstantsAssumption DEF Present, DeployRecord, RecRecord, NoPayload
    <3>2. phase \in Phases /\ phase # "idle"
      OBVIOUS
    <3>3. pc' \in Phases /\ rec' \in RecRecord /\ rec'.name = d
      BY <2>5, <3>1, <3>2, ContinueType DEF Continue
    <3> QED
      BY <3>3, <2>3, <2>5, <1>1 DEF Reconcile, TypeOK, InFlight, clusterVars
  <2> QED
    BY <2>1, <2>4, <2>5
<1>2. ASSUME NEW o \in Outcomes, ResolveStatus(o) PROVE TypeInv'
  <2>1. PICK view \in {runs, cachedRuns} :
          /\ ReadRuns(view)
          /\ \/ o = "error" /\ ChainFails
             \/ LET done == allPipelineRunsCompleted(view, RecStage)
                    r == [rec EXCEPT !.status = resolvedStatus(@, done)]
                IN  /\ o = "ok"
                    /\ Continue(r, IF rec.status = "in-queue" /\ done THEN "queue"
                                   ELSE afterResolve(r))
    BY <1>2 DEF ResolveStatus
  <2>2. cachedRuns' \in Seq(RunRecord) /\ stale' \in 0 .. MaxStale
    BY <2>1, ReadType DEF ReadRuns, TypeOK
  <2>3. faults' \in 0 .. MaxFaults
    BY <1>2, OutcomeType DEF ResolveStatus, TypeOK
  <2> DEFINE done == allPipelineRunsCompleted(view, RecStage)
             r == [rec EXCEPT !.status = resolvedStatus(@, done)]
             phase == IF rec.status = "in-queue" /\ done THEN "queue" ELSE afterResolve(r)
  <2>4. r \in RecRecord /\ r.name = rec.name
    <3>1. resolvedStatus(rec.status, done) \in Statuses
      BY DEF resolvedStatus, TypeOK, RecRecord
    <3> QED
      BY <3>1 DEF TypeOK, RecRecord
  <2>5. phase \in Phases
    BY DEF afterResolve
  <2>6. pc' \in Phases /\ rec' \in RecRecord /\ (pc' # "idle" => rec'.name = rec.name)
    <3>1. CASE ChainFails
      BY <3>1, ChainFailsType DEF ChainFails, TypeOK, RecRecord
    <3>2. CASE Continue(r, phase)
      <4> HIDE DEF r, phase
      <4> QED
        BY <3>2, <2>4, <2>5, ContinueType DEF Continue
    <3> QED
      BY <2>1, <3>1, <3>2
  <2> QED
    BY <1>2, <2>2, <2>3, <2>6 DEF ResolveStatus, TypeOK, InFlight, clusterVars
<1>3. ASSUME NEW o \in Outcomes, shouldStartCDStageDeploy(o) PROVE TypeInv'
  <2>1. PICK view \in {deploy, cachedDeploy} :
          /\ ReadDeploys(view, view = deploy)
          /\ \/ o = "error" /\ ChainFails
             \/ Continue([rec EXCEPT !.status = "pending"], "trigger")
             \/ Continue(rec, afterResolve(rec))
    BY <1>3 DEF shouldStartCDStageDeploy
  <2>2. cachedDeploy' \in [Deploys -> DeployRecord] /\ stale' \in 0 .. MaxStale
    BY <2>1, ReadType DEF ReadDeploys, TypeOK
  <2>3. faults' \in 0 .. MaxFaults
    BY <1>3, OutcomeType DEF shouldStartCDStageDeploy, TypeOK
  <2>4. pc' \in Phases /\ rec' \in RecRecord /\ (pc' # "idle" => rec'.name = rec.name)
    BY <2>1, NoRecType DEF ChainFails, Continue, afterResolve, TypeOK, RecRecord
  <2> QED
    BY <1>3, <2>2, <2>3, <2>4 DEF shouldStartCDStageDeploy, TypeOK, InFlight, clusterVars
<1>4. ASSUME NEW o \in Outcomes, ProcessTriggerTemplate(o) PROVE TypeInv'
  <2>1. rec.name \in Deploys /\ getAppPayload(rec.name) \in Payloads
    BY <1>4, PayloadType DEF ProcessTriggerTemplate, InFlight
  <2>2. pc' \in Phases /\ rec' \in RecRecord /\ (pc' # "idle" => rec'.name = rec.name)
    BY <1>4, <2>1 DEF ProcessTriggerTemplate, ChainFails, Continue, TypeOK, RecRecord
  <2>3. faults' \in 0 .. MaxFaults
    BY <1>4, OutcomeType DEF ProcessTriggerTemplate, TypeOK
  <2> QED
    BY <1>4, <2>2, <2>3 DEF ProcessTriggerTemplate, TypeOK, InFlight, clusterVars, cacheVars
<1>5. ASSUME NEW o \in Outcomes, CreatePipelineRun(o) PROVE TypeInv'
  <2> DEFINE new == [by |-> rec.name, stage |-> RecStage,
                     payload |-> rec.payload, active |-> TRUE]
  <2>1. new \in RunRecord
    BY <1>5 DEF CreatePipelineRun, InFlight, TypeOK, RecRecord, RunRecord, RecStage, DeployRecord
  <2>2. runs' \in Seq(RunRecord)
    BY <1>5, <2>1, AppendRun DEF CreatePipelineRun, TypeOK
  <2>3. pc' \in Phases /\ rec' \in RecRecord /\ (pc' # "idle" => rec'.name = rec.name)
    BY <1>5 DEF CreatePipelineRun, ChainFails, Continue, TypeOK, RecRecord
  <2>4. faults' \in 0 .. MaxFaults
    BY <1>5, OutcomeType DEF CreatePipelineRun, TypeOK
  <2> QED
    BY <1>5, <2>2, <2>3, <2>4 DEF CreatePipelineRun, TypeOK, InFlight, cacheVars
<1>6. ASSUME NEW o \in Outcomes, DeleteCDStageDeploy(o) PROVE TypeInv'
  <2>1. deploy' \in [Deploys -> DeployRecord]
    <3>1. deploy[rec.name] \in DeployRecord
      BY <1>6 DEF DeleteCDStageDeploy, TypeOK, InFlight
    <3>2. [deploy[rec.name] EXCEPT !.status = "gone"] \in DeployRecord
      BY <3>1, StatusUpdateType
    <3>3. \/ deploy' = deploy
          \/ deploy' = [deploy EXCEPT ![rec.name] = [deploy[rec.name] EXCEPT !.status = "gone"]]
      BY <1>6 DEF DeleteCDStageDeploy
    <3> QED
      BY <3>2, <3>3 DEF TypeOK
  <2>2. pc' \in Phases /\ rec' \in RecRecord /\ (pc' # "idle" => rec'.name = rec.name)
    BY <1>6, NoRecType DEF DeleteCDStageDeploy, ChainFails, Continue, TypeOK, RecRecord
  <2>3. faults' \in 0 .. MaxFaults
    BY <1>6, OutcomeType DEF DeleteCDStageDeploy, TypeOK
  <2> QED
    BY <1>6, <2>1, <2>2, <2>3 DEF DeleteCDStageDeploy, TypeOK, InFlight, cacheVars
<1>7. ASSUME NEW o \in Outcomes, UpdateStatus(o) PROVE TypeInv'
  <2>1. deploy' \in [Deploys -> DeployRecord]
    <3> DEFINE r == [deploy[rec.name] EXCEPT !.status = rec.status, !.version = @ + 1]
    <3>1. deploy[rec.name] \in DeployRecord /\ rec.status \in Statuses
      BY <1>7 DEF UpdateStatus, TypeOK, InFlight, RecRecord
    <3>2. r \in DeployRecord
      BY <3>1, StatusUpdateType
    <3>3. deploy' = deploy \/ deploy' = [deploy EXCEPT ![rec.name] = r]
      BY <1>7 DEF UpdateStatus
    <3> HIDE DEF r
    <3> QED
      BY <3>2, <3>3 DEF TypeOK
  <2>2. pc' \in Phases /\ rec' \in RecRecord /\ pc' = "idle"
    BY <1>7, NoRecType DEF UpdateStatus, Continue
  <2>3. faults' \in 0 .. MaxFaults
    BY <1>7, OutcomeType DEF UpdateStatus, TypeOK
  <2> QED
    BY <1>7, <2>1, <2>2, <2>3 DEF UpdateStatus, TypeOK, InFlight, cacheVars
<1>8. ASSUME NEW s \in Stages, NEW a \in Apps, Request(s, a) PROVE TypeInv'
  <2>1. tags[a] \in 0 .. MaxTag
    BY DEF TypeOK
  <2> QED
    BY <1>8, <2>1, CreateDeployType DEF Request, TypeOK, InFlight, cacheVars
<1>9. ASSUME NEW a \in Apps, PushTag(a) PROVE TypeInv'
  BY <1>9, ConstantsAssumption DEF PushTag, TypeOK, InFlight, cacheVars
<1>10. ASSUME NEW d \in Deploys, Terminate(d) \/ Reap(d) PROVE TypeInv'
  <2>1. deploy' \in [Deploys -> DeployRecord]
    <3> DEFINE t == [deploy[d] EXCEPT !.terminating = TRUE, !.version = @ + 1]
               g == [deploy[d] EXCEPT !.status = "gone"]
    <3>1. t \in DeployRecord /\ g \in DeployRecord
      BY StatusUpdateType DEF TypeOK
    <3>2. deploy' = [deploy EXCEPT ![d] = t] \/ deploy' = [deploy EXCEPT ![d] = g]
      BY <1>10 DEF Terminate, Reap
    <3> HIDE DEF t, g
    <3> QED
      BY <3>1, <3>2 DEF TypeOK
  <2> QED
    BY <1>10, <2>1 DEF Terminate, Reap, TypeOK, InFlight, cacheVars
<1>11. ASSUME NEW i \in 1 .. MaxRuns, FinishRun(i) PROVE TypeInv'
  <2>1. runs' \in Seq(RunRecord)
    <3>1. [runs[i] EXCEPT !.active = FALSE] \in RunRecord
      BY <1>11, FinishRunType DEF FinishRun, TypeOK
    <3>2. runs' = [runs EXCEPT ![i] = [runs[i] EXCEPT !.active = FALSE]] /\ i \in DOMAIN runs
      BY <1>11 DEF FinishRun
    <3> QED
      BY <3>1, <3>2 DEF TypeOK
  <2> QED
    BY <1>11, <2>1 DEF FinishRun, TypeOK, InFlight, cacheVars
<1>12. CASE SyncDeploys
  BY <1>12 DEF SyncDeploys, TypeOK, InFlight, clusterVars
<1>13. CASE SyncRuns
  BY <1>13 DEF SyncRuns, TypeOK, InFlight, clusterVars
<1>14. CASE Restart
  BY <1>14, NoRecType, ConstantsAssumption DEF Restart, TypeOK, InFlight, clusterVars
<1>15. CASE UNCHANGED vars
  BY <1>15 DEF vars, clusterVars, cacheVars, TypeOK, InFlight
<1> QED
  BY <1>1, <1>2, <1>3, <1>4, <1>5, <1>6, <1>7, <1>8, <1>9, <1>10, <1>11, <1>12, <1>13,
     <1>14, <1>15 DEF Next, Controller, Step, Environment

\* Every variable keeps its type: every status that is ever written is one the
\* resource's schema allows, and no step runs past its bound.
THEOREM TypeCorrect == Spec => []TypeOK
<1>1. Init => TypeInv
  BY TypeInit
<1>2. TypeInv /\ [Next]_vars => TypeInv'
  BY TypeStep
<1>3. TypeInv => TypeOK
  BY DEF TypeInv
<1> QED
  BY <1>1, <1>2, <1>3, PTL DEF Spec

(***************************************************************************)
(* The inductive invariant.                                                *)
(***************************************************************************)

Created(d) == deploy[d].status # "absent"
HasRun(d) == \E i \in DOMAIN runs : runs[i].by = d

\* Whatever the caches, the reconcile in flight and the PipelineRuns mention
\* was created; a PipelineRun is of the stage of its CDStageDeploy.
Known ==
    /\ pc # "idle" => Created(rec.name)
    /\ \A d \in Deploys : cachedDeploy[d].status # "absent" => Created(d)
    /\ \A i \in DOMAIN runs : /\ Created(runs[i].by)
                              /\ runs[i].stage = deploy[runs[i].by].stage

\* Image streams only grow, so a request is never ahead of its stream.
TagsGrow ==
    /\ \A a \in Apps : InitialTag[a] <= tags[a]
    /\ \A d \in Deploys : Created(d) => deploy[d].tag <= tags[deploy[d].app]

\* The reasons the code has to complete a CDStageDeploy without a PipelineRun.
NothingToDeploy(d) ==
    deploy[d].stage \in EmptyTemplate \/ \E a \in Apps : InitialTag[a] = 0

\* "running" is only ever seen, in the API server, in a cache or in memory, after
\* a PipelineRun was created, and "completed" is never written.
DeployedBeforeGoneInv ==
    /\ \A d \in Deploys : /\ deploy[d].status # "completed"
                          /\ cachedDeploy[d].status # "completed"
                          /\ deploy[d].status = "running" => HasRun(d)
                          /\ cachedDeploy[d].status = "running" => HasRun(d)
                          /\ deploy[d].status = "gone" /\ ~deploy[d].terminating
                                => HasRun(d) \/ NothingToDeploy(d)
    /\ pc # "idle" /\ rec.status = "running" => HasRun(rec.name)
    /\ pc = "delete" => HasRun(rec.name) \/ NothingToDeploy(rec.name)
    /\ pc \notin {"idle", "delete"} => rec.status # "completed"

Quiet(s) == \A i \in DOMAIN runs : runs[i].stage = s => ~runs[i].active

\* As long as nothing failed, no resource has the status "failed" that lets one
\* pass without a look at the PipelineRuns, and from that look to the creation of
\* the PipelineRun nothing runs in the stage.
OneRunPerStageInv ==
    faults = 0 /\ stale = 0 =>
        /\ \A d \in Deploys : deploy[d].status # "failed"
        /\ pc # "idle" => rec.status # "failed"
        /\ pc \in {"queue", "trigger", "create"} => Quiet(RecStage)
        /\ \A i, j \in DOMAIN runs :
              runs[i].active /\ runs[j].active /\ runs[i].stage = runs[j].stage => i = j

\* Where there is nothing to deploy there are no PipelineRuns.
RunsHaveReasons ==
    /\ \A i \in DOMAIN runs : runs[i].stage \notin EmptyTemplate
    /\ runs # <<>> => \A a \in Apps : tags[a] > 0
    /\ pc = "create" => RecStage \notin EmptyTemplate /\ \A a \in Apps : tags[a] > 0

Deleted(d) == deploy[d].status = "gone" /\ ~deploy[d].terminating
Finished(d) == \A i \in DOMAIN runs : runs[i].by = d => ~runs[i].active

\* With caches that are up to date, a resource the controller deleted is not
\* worked on any more, and one it is about to delete has no active PipelineRun.
NoOrphanRunInv ==
    stale = 0 =>
        /\ pc \in {"resolve", "queue", "trigger", "create"} => ~Deleted(rec.name)
        /\ pc = "delete" => Finished(rec.name)
        /\ \A d \in Deploys : Deleted(d) => Finished(d)

Covers(payload, d) ==
    IF deploy[d].stage \in AutoStable THEN payload[deploy[d].app] = deploy[d].tag
                                      ELSE payload[deploy[d].app] >= deploy[d].tag

\* The payload covers the request from the moment it is computed.
PayloadInv ==
    /\ pc = "create" => Covers(rec.payload, rec.name)
    /\ \A i \in DOMAIN runs : Covers(runs[i].payload, runs[i].by)

(***************************************************************************)
(* What a step can do to the cluster.                                      *)
(***************************************************************************)

\* The steps that the reconciler does not take leave it alone or end it.
Outside ==
    \/ \E s \in Stages, a \in Apps : Request(s, a)
    \/ Environment
    \/ UNCHANGED vars

Inside ==
    \/ \E d \in Deploys : Reconcile(d)
    \/ \E o \in Outcomes : \/ ResolveStatus(o) \/ shouldStartCDStageDeploy(o)
                           \/ ProcessTriggerTemplate(o) \/ CreatePipelineRun(o)
                           \/ DeleteCDStageDeploy(o) \/ UpdateStatus(o)

\* Every step is one of the reconcile in flight or one of its environment.
LEMMA InsideOrOutside == [Next]_vars => Inside \/ Outside
BY DEF Inside, Outside, Next, Controller, Step

\* What the environment does leaves the reconcile in flight alone, or ends it.
LEMMA OutsideFlow ==
    ASSUME TypeInv, Outside
    PROVE  /\ (UNCHANGED <<pc, rec>>) \/ pc' = "idle"
           /\ faults' = 0 => faults = 0
           /\ stale' = stale
<1>1. faults \in Nat
  BY DEF TypeInv, TypeOK
<1>2. CASE Restart
  BY <1>1, <1>2 DEF Restart
<1>3. CASE UNCHANGED <<pc, rec, faults, stale>>
  BY <1>3
<1> QED
  BY <1>2, <1>3 DEF Outside, Environment, Request, PushTag, Terminate, Reap, FinishRun,
     SyncDeploys, SyncRuns, vars

\* Faults and stale reads are not forgotten.
LEMMA CountsGrow ==
    ASSUME TypeInv, [Next]_vars
    PROVE  (faults' = 0 => faults = 0) /\ (stale' = 0 => stale = 0)
<1>1. CASE Outside
  BY <1>1, OutsideFlow
<1>2. CASE Inside
  <2>1. faults \in Nat /\ stale \in Nat
    BY DEF TypeInv, TypeOK
  <2>2. \A o : Outcome(o) => (faults' = 0 => faults = 0)
    BY <2>1 DEF Outcome
  <2>3. \A b : Read(b) => (stale' = 0 => stale = 0)
    BY <2>1 DEF Read
  <2> QED
    BY <1>2, <2>2, <2>3 DEF Inside, Reconcile, ResolveStatus, shouldStartCDStageDeploy,
       ProcessTriggerTemplate, CreatePipelineRun, DeleteCDStageDeploy, UpdateStatus,
       ReadDeploys, ReadRuns
<1> QED
  BY <1>1, <1>2, InsideOrOutside

\* Who changes a CDStageDeploy: its creation, its owner and the garbage
\* collector, the deletion and the status update of the reconcile in flight.
DeployStep(d) ==
    \/ deploy'[d] = deploy[d]
    \/ /\ ~Created(d)
       /\ deploy'[d].status = "pending"
       /\ deploy'[d].tag <= tags[deploy'[d].app] /\ tags' = tags
    \/ /\ Created(d) /\ deploy'[d].stage = deploy[d].stage
       /\ deploy'[d].app = deploy[d].app /\ deploy'[d].tag = deploy[d].tag
       /\ \/ deploy'[d].terminating /\ deploy'[d].status \in {deploy[d].status, "gone"}
          \/ /\ deploy'[d].terminating = deploy[d].terminating
             /\ d = rec.name /\ pc = "delete" /\ deploy'[d].status = "gone"
          \/ /\ deploy'[d].terminating = deploy[d].terminating
             /\ d = rec.name /\ pc = "update" /\ deploy'[d].status = rec.status

\* What one step may do to a CDStageDeploy: create it with the newest tag,
\* mark it for deletion, remove it, or write the status of the reconcile.
LEMMA DeployStepHolds ==
    ASSUME TypeInv, Known, [Next]_vars
    PROVE  \A d \in Deploys : DeployStep(d)
<1> SUFFICES ASSUME NEW d \in Deploys PROVE DeployStep(d)
  OBVIOUS
<1>1. deploy \in [Deploys -> DeployRecord] /\ deploy[d] \in DeployRecord
  BY DEF TypeInv, TypeOK
<1>2. CASE deploy' = deploy
  BY <1>2 DEF DeployStep
<1>3. ASSUME NEW s \in Stages, NEW a \in Apps, Request(s, a) PROVE DeployStep(d)
  <2>1. tags[a] \in Nat /\ UNCHANGED tags
    BY <1>3 DEF Request, TypeInv, TypeOK
  <2>2. PICK t \in {clock + k : k \in ClockSteps} :
          deploy' = [deploy EXCEPT ![FreshName] =
              [status |-> "pending", terminating |-> FALSE, stage |-> s,
               app |-> a, tag |-> tags[a], born |-> t, version |-> 1]]
    BY <1>3 DEF Request, CreateDeploy
  <2>3. FreshName \in Deploys /\ ~Created(FreshName)
    BY <1>3, FreshNameIsFresh DEF Request, CreateDeploy, Created
  <2>4. CASE d = FreshName
    <3>1. /\ deploy'[d].status = "pending"
          /\ deploy'[d].app = a /\ deploy'[d].tag = tags[a]
      BY <1>1, <2>2, <2>3, <2>4
    <3> QED
      BY <2>1, <2>3, <2>4, <3>1 DEF DeployStep
  <2>5. CASE d # FreshName
    <3>1. deploy'[d] = deploy[d]
      BY <1>1, <2>2, <2>5
    <3> QED
      BY <3>1 DEF DeployStep
  <2> QED
    BY <2>4, <2>5
<1>4. ASSUME NEW e \in Deploys, Terminate(e) \/ Reap(e) PROVE DeployStep(d)
  <2>1. CASE Terminate(e)
    BY <1>1, <2>1 DEF Terminate, Present, DeployStep, Created, DeployRecord
  <2>2. CASE Reap(e)
    BY <1>1, <2>2 DEF Reap, Present, DeployStep, Created, DeployRecord
  <2> QED
    BY <1>4, <2>1, <2>2
<1>5. ASSUME NEW o \in Outcomes, DeleteCDStageDeploy(o) PROVE DeployStep(d)
  <2>1. rec.name \in Deploys /\ Created(rec.name) /\ pc = "delete"
    BY <1>5 DEF DeleteCDStageDeploy, TypeInv, InFlight, Known
  <2>2. deploy' = deploy \/ deploy' = [deploy EXCEPT ![rec.name].status = "gone"]
    BY <1>5 DEF DeleteCDStageDeploy
  <2> QED
    BY <1>1, <2>1, <2>2 DEF DeployStep, DeployRecord
<1>6. ASSUME NEW o \in Outcomes, UpdateStatus(o) PROVE DeployStep(d)
  <2>1. rec.name \in Deploys /\ Created(rec.name) /\ pc = "update"
    BY <1>6 DEF UpdateStatus, TypeInv, InFlight, Known
  <2>2. deploy' = deploy \/ deploy' = [deploy EXCEPT ![rec.name].status = rec.status,
                                                     ![rec.name].version = @ + 1]
    BY <1>6 DEF UpdateStatus
  <2> QED
    BY <1>1, <2>1, <2>2 DEF DeployStep, DeployRecord
<1> QED
  BY <1>2, <1>3, <1>4, <1>5, <1>6 DEF Next, Controller, Step, Environment, Reconcile,
     ResolveStatus, shouldStartCDStageDeploy, ProcessTriggerTemplate, CreatePipelineRun,
     PushTag, FinishRun, SyncDeploys, SyncRuns, Restart, clusterVars, vars

\* What a cache holds next is what it held or what the API server holds.
LEMMA CacheStep ==
    ASSUME [Next]_vars
    PROVE  cachedDeploy' = cachedDeploy \/ (cachedDeploy' = deploy /\ deploy' = deploy)
BY DEF Next, Controller, Step, Environment, Request, Reconcile, ResolveStatus,
     shouldStartCDStageDeploy, ProcessTriggerTemplate, CreatePipelineRun, DeleteCDStageDeploy,
     UpdateStatus, PushTag, Terminate, Reap, FinishRun, SyncDeploys, SyncRuns, Restart,
     ReadDeploys, clusterVars, cacheVars, vars

\* Image streams grow.
LEMMA TagsStep ==
    ASSUME TypeInv, [Next]_vars
    PROVE  \A a \in Apps : tags[a] <= tags'[a]
<1>1. ASSUME NEW b \in Apps, PushTag(b) PROVE \A a \in Apps : tags[a] <= tags'[a]
  BY <1>1, ConstantsAssumption DEF PushTag, TypeInv, TypeOK
<1>2. CASE tags' = tags
  BY <1>2, ConstantsAssumption DEF TypeInv, TypeOK
<1> QED
  BY <1>1, <1>2 DEF Next, Controller, Step, Environment, Request, Reconcile, ResolveStatus,
     shouldStartCDStageDeploy, ProcessTriggerTemplate, CreatePipelineRun, DeleteCDStageDeploy,
     UpdateStatus, Terminate, Reap, FinishRun, SyncDeploys, SyncRuns, Restart,
     clusterVars, vars

\* PipelineRuns are added by the reconcile in flight, and complete.
OldRun(i) ==
    /\ i \in DOMAIN runs
    /\ runs'[i].by = runs[i].by /\ runs'[i].stage = runs[i].stage
    /\ runs'[i].payload = runs[i].payload
    /\ runs'[i].active => runs[i].active

NewRun(i) ==
    /\ i = Len(runs) + 1 /\ i \notin DOMAIN runs
    /\ pc = "create" /\ pc' = "update"
    /\ runs'[i].by = rec.name /\ runs'[i].stage = RecStage
    /\ runs'[i].payload = rec.payload

\* What one step may do to the PipelineRuns: complete some, or add one for the
\* resource that is being reconciled.
LEMMA RunsStep ==
    ASSUME TypeInv, [Next]_vars
    PROVE  /\ DOMAIN runs \subseteq DOMAIN runs'
           /\ \A i \in DOMAIN runs' : OldRun(i) \/ NewRun(i)
<1>0. runs \in Seq(RunRecord)
  BY DEF TypeInv, TypeOK
<1>1. CASE runs' = runs
  BY <1>1 DEF OldRun
<1>2. ASSUME NEW j \in 1 .. MaxRuns, FinishRun(j)
      PROVE  DOMAIN runs \subseteq DOMAIN runs' /\ \A i \in DOMAIN runs' : OldRun(i)
  <2>1. j \in DOMAIN runs /\ runs' = [runs EXCEPT ![j].active = FALSE]
    BY <1>2 DEF FinishRun
  <2>2. DOMAIN runs' = DOMAIN runs
    BY <2>1
  <2>3. \A i \in DOMAIN runs : runs[i] \in RunRecord
    BY <1>0
  <2> QED
    BY <2>1, <2>2, <2>3 DEF OldRun, RunRecord
<1>3. ASSUME NEW o \in Outcomes, CreatePipelineRun(o), runs' # runs
      PROVE  DOMAIN runs \subseteq DOMAIN runs' /\ \A i \in DOMAIN runs' : OldRun(i) \/ NewRun(i)
  <2> DEFINE new == [by |-> rec.name, stage |-> RecStage,
                     payload |-> rec.payload, active |-> TRUE]
  <2>1. new \in RunRecord
    BY <1>3 DEF CreatePipelineRun, TypeInv, InFlight, TypeOK, RecRecord, RunRecord, RecStage,
                DeployRecord
  <2>2. runs' = Append(runs, new) /\ pc = "create" /\ pc' = "update"
    BY <1>3 DEF CreatePipelineRun, ChainFails, Continue
  <2>3. Len(runs) + 1 \notin DOMAIN runs
    BY <1>0
  <2>4. new.by = rec.name /\ new.stage = RecStage /\ new.payload = rec.payload
    OBVIOUS
  <2> HIDE DEF new
  <2> QED
    BY <1>0, <2>1, <2>2, <2>3, <2>4, AppendRun DEF OldRun, NewRun
<1> QED
  BY <1>1, <1>2, <1>3 DEF Next, Controller, Step, Environment, Request, Reconcile, ResolveStatus,
     shouldStartCDStageDeploy, ProcessTriggerTemplate, DeleteCDStageDeploy,
     UpdateStatus, PushTag, Terminate, Reap, SyncDeploys, SyncRuns, Restart,
     clusterVars, vars

\* What was created stays created, for the same stage, application and tag, and
\* a PipelineRun stays.
LEMMA Frame ==
    ASSUME TypeInv, Known, [Next]_vars
    PROVE  /\ \A d \in Deploys : Created(d) =>
                 /\ Created(d)'
                 /\ deploy'[d].stage = deploy[d].stage
                 /\ deploy'[d].app = deploy[d].app
                 /\ deploy'[d].tag = deploy[d].tag
           /\ \A d \in Deploys : HasRun(d) => HasRun(d)'
<1>1. rec.status \in Statuses
  BY DEF TypeInv, TypeOK, RecRecord
<1>2. \A d \in Deploys : Created(d) => /\ Created(d)'
                                       /\ deploy'[d].stage = deploy[d].stage
                                       /\ deploy'[d].app = deploy[d].app
                                       /\ deploy'[d].tag = deploy[d].tag
  BY <1>1, DeployStepHolds DEF DeployStep, Created
<1>3. \A d \in Deploys : HasRun(d) => HasRun(d)'
  BY RunsStep DEF HasRun, OldRun, NewRun
<1> QED
  BY <1>2, <1>3

(***************************************************************************)
(* How the reconcile in flight goes on: nothing happens to it, it ends, it *)
(* begins, it fails, or it takes one of the steps of the chain.            *)
(***************************************************************************)
Begins ==
    \E d \in Deploys : \E view \in {deploy, cachedDeploy} :
        /\ pc = "idle" /\ UNCHANGED clusterVars
        /\ Present(view[d])
        /\ stale' = 0 => view[d] = deploy[d]
        /\ rec'.name = d /\ rec'.status = view[d].status
        /\ pc' = IF view[d].status = "failed" THEN "trigger" ELSE "resolve"

Fails ==
    /\ pc # "idle" /\ rec'.name = rec.name
    /\ pc' = "update" /\ rec'.status = "failed" /\ faults' # 0

Resolves ==
    /\ pc = "resolve" /\ UNCHANGED clusterVars /\ rec'.name = rec.name
    /\ \/ pc' = "update" /\ rec'.status \in {rec.status, "in-queue"} /\ rec'.status # "completed"
       \/ pc' = "trigger" /\ rec.status = "failed" /\ rec'.status = "failed"
       \/ /\ stale' = 0 => Quiet(RecStage)
          /\ \/ pc' = "queue" /\ rec'.status = "in-queue"
             \/ pc' = "trigger" /\ rec'.status = "pending"
             \/ pc' = "delete" /\ rec'.status = "completed" /\ rec.status = "running"
       \/ pc' = "delete" /\ rec.status = "completed" /\ rec'.status = "completed"

Queues ==
    /\ pc = "queue" /\ UNCHANGED clusterVars /\ rec'.name = rec.name
    /\ \/ pc' = "trigger" /\ rec'.status = "pending"
       \/ pc' = afterResolve(rec) /\ rec'.status = rec.status

Triggers ==
    /\ pc = "trigger" /\ UNCHANGED clusterVars /\ rec'.name = rec.name
    /\ \/ /\ pc' = "delete" /\ rec'.status = "completed"
          /\ RecStage \in EmptyTemplate \/ lastTagNotFound
       \/ /\ pc' = "create" /\ rec'.status = rec.status
          /\ rec'.payload = getAppPayload(rec.name)
          /\ RecStage \notin EmptyTemplate /\ ~lastTagNotFound

Creates ==
    /\ pc = "create" /\ rec'.name = rec.name
    /\ pc' = "update" /\ rec'.status = "running" /\ HasRun(rec.name)'

Flow ==
    (UNCHANGED <<pc, rec>>) \/ pc' = "idle" \/ Begins \/ Fails \/ Resolves \/ Queues
    \/ Triggers \/ Creates

\* The steps of a reconcile follow each other as Flow says.
LEMMA FlowHolds ==
    ASSUME TypeInv, [Next]_vars
    PROVE  Flow
<1> USE DEF Flow
<1>0. /\ rec \in RecRecord /\ faults \in Nat /\ stale \in Nat
      /\ \A o : Outcome(o) => o = "ok" \/ faults' # 0
      /\ \A b : Read(b) => b \/ stale' # 0
  <2>1. rec \in RecRecord /\ faults \in Nat /\ stale \in Nat
    BY DEF TypeInv, TypeOK
  <2> QED
    BY <2>1 DEF Outcome, Read
<1>f. ASSUME ChainFails, faults' # 0, pc # "idle" PROVE Fails
  BY <1>f, <1>0 DEF ChainFails, Fails, RecRecord
<1>1. CASE Outside
  BY <1>1, OutsideFlow
<1>2. ASSUME NEW d \in Deploys, Reconcile(d) PROVE Flow
  <2>1. PICK view \in {deploy, cachedDeploy} :
          /\ view[d].status # "absent"
          /\ ReadDeploys(view, view[d] = deploy[d])
          /\ \/ UNCHANGED <<pc, rec>>
             \/ /\ Present(view[d])
                /\ Continue([name |-> d, old |-> view[d].status, status |-> view[d].status,
                             version |-> view[d].version, payload |-> NoPayload],
                            IF view[d].status = "failed" THEN "trigger" ELSE "resolve")
    BY <1>2 DEF Reconcile, afterResolve, skipPipelineRunCreation
  <2>2. stale' = 0 => view[d] = deploy[d]
    BY <2>1, <1>0 DEF ReadDeploys
  <2>3. CASE UNCHANGED <<pc, rec>>
    BY <2>3
  <2>4. CASE ~UNCHANGED <<pc, rec>>
    <3>1. Begins
      BY <1>2, <2>1, <2>2, <2>4 DEF Begins, Continue, Reconcile
    <3> QED
      BY <3>1
  <2> QED
    BY <2>3, <2>4
<1>3. ASSUME NEW o \in Outcomes, ResolveStatus(o) PROVE Flow
  <2>1. PICK view \in {runs, cachedRuns} :
          /\ ReadRuns(view)
          /\ \/ o = "error" /\ ChainFails
             \/ LET done == allPipelineRunsCompleted(view, RecStage)
                    r == [rec EXCEPT !.status = resolvedStatus(@, done)]
                IN  /\ o = "ok"
                    /\ Continue(r, IF rec.status = "in-queue" /\ done THEN "queue"
                                   ELSE afterResolve(r))
    BY <1>3 DEF ResolveStatus
  <2>2. CASE ChainFails /\ o = "error"
    BY <2>2, <1>0, <1>3, <1>f DEF ResolveStatus
  <2> DEFINE done == allPipelineRunsCompleted(view, RecStage)
             r == [rec EXCEPT !.status = resolvedStatus(@, done)]
  <2>3. CASE Continue(r, IF rec.status = "in-queue" /\ done THEN "queue" ELSE afterResolve(r))
    <3>1. stale' = 0 /\ done => Quiet(RecStage)
      BY <2>1, <1>0 DEF ReadRuns, allPipelineRunsCompleted, Quiet
    <3>2. r.name = rec.name /\ r.status = resolvedStatus(rec.status, done) /\ r.old = rec.old
      BY <1>0 DEF RecRecord
    <3>3. done \in BOOLEAN /\ rec.status \in Statuses
      BY <1>0 DEF RecRecord, allPipelineRunsCompleted
    <3>4. pc = "resolve" /\ UNCHANGED clusterVars
      BY <1>3 DEF ResolveStatus
    <3> HIDE DEF r, done
    <3>5. pc' = "idle" \/ rec' = r
      BY <2>3 DEF Continue
    <3>6. CASE rec.status = "in-queue" /\ done
      <4>1. pc' = "queue" /\ rec' = r
        BY <2>3, <3>6 DEF Continue
      <4>2. r.status = "in-queue"
        BY <3>2, <3>6 DEF resolvedStatus
      <4> QED
        BY <3>1, <3>2, <3>4, <3>6, <4>1, <4>2 DEF Resolves
    <3>7. CASE ~(rec.status = "in-queue" /\ done)
      <4>1. pc' = afterResolve(r)
        BY <2>3, <3>7 DEF Continue
      <4>2. CASE pc' = "trigger"
        <5>1. r.status \in {"pending", "failed"}
          BY <4>1, <4>2 DEF afterResolve, skipPipelineRunCreation
        <5>2. (r.status = "failed" /\ rec.status = "failed") \/ (r.status = "pending" /\ done)
          BY <5>1, <3>2, <3>3 DEF resolvedStatus
        <5> QED
          BY <5>2, <4>2, <3>1, <3>2, <3>4, <3>5 DEF Resolves
      <4>3. CASE pc' = "delete"
        <5>1. r.status = "completed"
          BY <4>1, <4>3 DEF afterResolve
        <5>2. (rec.status = "running" /\ done) \/ rec.status = "completed"
          BY <5>1, <3>2, <3>3 DEF resolvedStatus
        <5> QED
          BY <5>1, <5>2, <4>3, <3>1, <3>2, <3>4, <3>5 DEF Resolves
      <4>4. CASE pc' = "update"
        <5>1. r.status # "completed"
          BY <4>1, <4>4 DEF afterResolve
        <5>2. r.status \in {rec.status, "in-queue"}
          BY <5>1, <3>2, <3>3 DEF resolvedStatus
        <5> QED
          BY <5>1, <5>2, <4>4, <3>2, <3>4, <3>5 DEF Resolves
      <4> QED
        BY <4>1, <4>2, <4>3, <4>4 DEF afterResolve
    <3> QED
      BY <3>6, <3>7
  <2> QED
    BY <2>1, <2>2, <2>3
<1>4. ASSUME NEW o \in Outcomes, shouldStartCDStageDeploy(o) PROVE Flow
  <2>1. \/ o = "error" /\ ChainFails
        \/ Continue([rec EXCEPT !.status = "pending"], "trigger")
        \/ Continue(rec, afterResolve(rec))
    BY <1>4 DEF shouldStartCDStageDeploy
  <2>2. CASE ChainFails /\ o = "error"
    BY <2>2, <1>0, <1>4, <1>f DEF shouldStartCDStageDeploy
  <2>3. CASE \/ Continue([rec EXCEPT !.status = "pending"], "trigger")
             \/ Continue(rec, afterResolve(rec))
    BY <2>3, <1>0, <1>4 DEF shouldStartCDStageDeploy, Continue, Queues, RecRecord
  <2> QED
    BY <2>1, <2>2, <2>3
<1>5. ASSUME NEW o \in Outcomes, ProcessTriggerTemplate(o) PROVE Flow
  <2>1. CASE ChainFails /\ o = "error"
    BY <2>1, <1>0, <1>5, <1>f DEF ProcessTriggerTemplate
  <2>2. CASE o = "ok"
    BY <2>2, <1>0, <1>5 DEF ProcessTriggerTemplate, Continue, Triggers, RecRecord
  <2> QED
    BY <2>1, <2>2, <1>5 DEF ProcessTriggerTemplate
<1>6. ASSUME NEW o \in Outcomes, CreatePipelineRun(o) PROVE Flow
  <2>1. CASE ChainFails /\ o # "ok"
    BY <2>1, <1>0, <1>6, <1>f DEF CreatePipelineRun
  <2>2. CASE o = "ok"
    <3> DEFINE new == [by |-> rec.name, stage |-> RecStage,
                       payload |-> rec.payload, active |-> TRUE]
    <3>1. new \in RunRecord /\ runs \in Seq(RunRecord)
      BY <1>6 DEF CreatePipelineRun, TypeInv, InFlight, TypeOK, RecRecord, RunRecord, RecStage,
                  DeployRecord
    <3>2. new.by = rec.name /\ runs' = Append(runs, new)
      BY <1>6, <2>2 DEF CreatePipelineRun
    <3> HIDE DEF new
    <3>3. HasRun(rec.name)'
      <4>1. Len(runs) + 1 \in DOMAIN runs' /\ runs'[Len(runs) + 1] = new
        BY <3>1, <3>2, AppendRun
      <4>2. rec'.name = rec.name
        BY <1>6, <2>2, <1>0 DEF CreatePipelineRun, Continue, RecRecord
      <4> QED
        BY <3>2, <4>1, <4>2 DEF HasRun
    <3> QED
      BY <1>6, <2>2, <1>0, <3>3 DEF CreatePipelineRun, Continue, Creates, RecRecord
  <2> QED
    BY <2>1, <2>2, <1>6 DEF CreatePipelineRun
<1>7. ASSUME NEW o \in Outcomes, DeleteCDStageDeploy(o) PROVE Flow
  <2>1. CASE ChainFails /\ o # "ok"
    BY <2>1, <1>0, <1>7, <1>f DEF DeleteCDStageDeploy
  <2>2. CASE o = "ok"
    BY <2>2, <1>7 DEF DeleteCDStageDeploy, Continue
  <2> QED
    BY <2>1, <2>2, <1>7 DEF DeleteCDStageDeploy
<1>8. ASSUME NEW o \in Outcomes, UpdateStatus(o) PROVE Flow
  BY <1>8 DEF UpdateStatus, Continue
<1> QED
  BY <1>1, <1>2, <1>3, <1>4, <1>5, <1>6, <1>7, <1>8, InsideOrOutside DEF Inside

(***************************************************************************)
(* Each part of the invariant is preserved.                                *)
(***************************************************************************)
IndInv ==
    /\ TypeInv /\ Known /\ TagsGrow /\ RunsHaveReasons
    /\ DeployedBeforeGoneInv /\ OneRunPerStageInv /\ NoOrphanRunInv /\ PayloadInv

\* Steps preserve Known: what the reconcile and the PipelineRuns name exists.
LEMMA KnownStep == IndInv /\ [Next]_vars => Known'
<1> SUFFICES ASSUME TypeInv, Known, [Next]_vars PROVE Known'
  BY DEF IndInv
<1>1. pc' # "idle" => Created(rec.name)'
  <2>1. CASE pc # "idle" /\ rec'.name = rec.name
    BY <2>1, Frame DEF Known, Created, TypeInv, InFlight
  <2>2. CASE Begins
    BY <2>2, Frame DEF Begins, Known, Created, Present
  <2>3. CASE (UNCHANGED <<pc, rec>>) \/ pc' = "idle"
    BY <2>1, <2>3
  <2> QED
    BY <2>1, <2>2, <2>3, FlowHolds DEF Flow, Fails, Resolves, Queues, Triggers, Creates
<1>2. \A d \in Deploys : (cachedDeploy[d].status # "absent" => Created(d))'
  BY CacheStep, Frame DEF Known, Created
<1>3. ASSUME NEW i \in DOMAIN runs'
      PROVE  Created(runs[i].by)' /\ runs'[i].stage = deploy'[runs'[i].by].stage
  <2>1. CASE OldRun(i)
    <3>1. runs[i].by \in Deploys
      <4>1. runs \in Seq(RunRecord) /\ i \in DOMAIN runs
        BY <2>1 DEF OldRun, TypeInv, TypeOK
      <4>2. runs[i] \in RunRecord
        BY <4>1
      <4> QED
        BY <4>2 DEF RunRecord
    <3> QED
      BY <2>1, <3>1, Frame DEF OldRun, Known, Created
  <2>2. CASE NewRun(i)
    BY <2>2, Frame DEF NewRun, Known, Created, RecStage, TypeInv, InFlight
  <2> QED
    BY <2>1, <2>2, RunsStep
<1> QED
  BY <1>1, <1>2, <1>3 DEF Known

\* Steps preserve TagsGrow: image streams never lose a tag.
LEMMA TagsGrowStep == IndInv /\ [Next]_vars => TagsGrow'
<1> SUFFICES ASSUME TypeInv, TypeInv', Known, TagsGrow, [Next]_vars PROVE TagsGrow'
  BY TypeStep DEF IndInv
<1>0. \A a \in Apps : InitialTag[a] \in Nat /\ tags[a] \in Nat /\ tags'[a] \in Nat
  BY ConstantsAssumption DEF TypeInv, TypeOK
<1>1. \A a \in Apps : InitialTag[a] <= tags'[a]
  BY <1>0, TagsStep DEF TagsGrow
<1>2. ASSUME NEW d \in Deploys, Created(d)' PROVE deploy'[d].tag <= tags'[deploy'[d].app]
  <2>1. /\ deploy[d].tag \in Nat /\ deploy'[d].tag \in Nat
        /\ deploy[d].app \in Apps /\ deploy'[d].app \in Apps
    <3>1. deploy[d] \in DeployRecord /\ deploy'[d] \in DeployRecord
      BY DEF TypeInv, TypeOK
    <3> QED
      BY <3>1, ConstantsAssumption DEF DeployRecord
  <2>2. CASE Created(d)
    <3>1. deploy'[d].tag = deploy[d].tag /\ deploy'[d].app = deploy[d].app
      BY <2>2, Frame
    <3> QED
      BY <1>0, <2>1, <2>2, <3>1, TagsStep DEF TagsGrow
  <2>3. CASE ~Created(d)
    BY <1>2, <2>3, DeployStepHolds DEF DeployStep, Created
  <2> QED
    BY <2>2, <2>3
<1> QED
  BY <1>1, <1>2 DEF TagsGrow

\* Steps preserve RunsHaveReasons: no PipelineRuns where there is nothing to deploy.
LEMMA RunsHaveReasonsStep == IndInv /\ [Next]_vars => RunsHaveReasons'
<1> SUFFICES ASSUME TypeInv, TypeInv', Known, RunsHaveReasons, [Next]_vars PROVE RunsHaveReasons'
  BY TypeStep DEF IndInv
<1>0. \A a \in Apps : tags[a] \in Nat /\ tags'[a] \in Nat
  BY DEF TypeInv, TypeOK
<1>1. (\A a \in Apps : tags[a] > 0) => \A a \in Apps : tags'[a] > 0
  BY <1>0, TagsStep
<1>2. \A i \in DOMAIN runs' : runs'[i].stage \notin EmptyTemplate
  BY RunsStep DEF OldRun, NewRun, RunsHaveReasons
<1>3. runs' # <<>> => \A a \in Apps : tags'[a] > 0
  <2>1. CASE runs # <<>>
    BY <1>1, <2>1 DEF RunsHaveReasons
  <2>2. CASE runs = <<>> /\ runs' # <<>>
    <3>1. PICK i \in DOMAIN runs' : TRUE
      <4>1. runs' \in Seq(RunRecord)
        BY DEF TypeInv, TypeOK
      <4>2. 1 \in DOMAIN runs'
        BY <2>2, <4>1
      <4> QED
        BY <4>2
    <3>2. i \notin DOMAIN runs
      BY <2>2
    <3>3. NewRun(i)
      BY <3>1, <3>2, RunsStep DEF OldRun
    <3> QED
      BY <3>3, <1>1 DEF NewRun, RunsHaveReasons
  <2> QED
    BY <2>1, <2>2
<1>4. pc' = "create" => RecStage' \notin EmptyTemplate /\ \A a \in Apps : tags'[a] > 0
  <2>1. CASE UNCHANGED <<pc, rec>>
    BY <2>1, <1>1, Frame DEF RunsHaveReasons, RecStage, Known, TypeInv, InFlight
  <2>2. CASE Triggers
    BY <2>2, <1>0 DEF Triggers, RecStage, clusterVars, lastTagNotFound
  <2>3. CASE Begins \/ Fails \/ Resolves \/ Queues \/ Creates
    BY <2>3 DEF Begins, Fails, Resolves, Queues, Creates, afterResolve
  <2> QED
    BY <2>1, <2>2, <2>3, FlowHolds DEF Flow
<1> QED
  BY <1>2, <1>3, <1>4 DEF RunsHaveReasons

\* Steps preserve the strengthening of DeployedBeforeGone.
LEMMA DeployedBeforeGoneStep == IndInv /\ [Next]_vars => DeployedBeforeGoneInv'
<1> SUFFICES ASSUME TypeInv, Known, TagsGrow, DeployedBeforeGoneInv, [Next]_vars
             PROVE  DeployedBeforeGoneInv'
  BY DEF IndInv
<1>0. rec.status \in Statuses
  BY DEF TypeInv, TypeOK, RecRecord
<1>1. ASSUME NEW d \in Deploys
      PROVE  /\ deploy'[d].status # "completed"
             /\ deploy'[d].status = "running" => HasRun(d)'
             /\ deploy'[d].status = "gone" /\ ~deploy'[d].terminating
                   => HasRun(d)' \/ NothingToDeploy(d)'
  <2>1. HasRun(d) => HasRun(d)'
    BY Frame
  <2>2. CASE deploy'[d] = deploy[d]
    BY <2>1, <2>2 DEF DeployedBeforeGoneInv, NothingToDeploy
  <2>3. CASE deploy'[d].status = "pending"
    BY <2>3
  <2>4. CASE deploy'[d].stage = deploy[d].stage /\ deploy'[d].terminating
             /\ deploy'[d].status \in {deploy[d].status, "gone"}
    BY <2>1, <2>4 DEF DeployedBeforeGoneInv
  <2>5. CASE deploy'[d].stage = deploy[d].stage /\ d = rec.name /\ pc = "delete"
             /\ deploy'[d].status = "gone"
    BY <2>1, <2>5 DEF DeployedBeforeGoneInv, NothingToDeploy
  <2>6. CASE d = rec.name /\ pc = "update" /\ deploy'[d].status = rec.status
    BY <1>0, <2>1, <2>6 DEF DeployedBeforeGoneInv
  <2> QED
    BY <2>2, <2>3, <2>4, <2>5, <2>6, DeployStepHolds DEF DeployStep
<1>2. ASSUME NEW d \in Deploys
      PROVE  cachedDeploy'[d].status # "completed"
             /\ (cachedDeploy'[d].status = "running" => HasRun(d)')
  BY CacheStep, Frame DEF DeployedBeforeGoneInv
<1>3. /\ pc' # "idle" /\ rec'.status = "running" => HasRun(rec.name)'
      /\ pc' = "delete" => HasRun(rec.name)' \/ NothingToDeploy(rec.name)'
      /\ pc' \notin {"idle", "delete"} => rec'.status # "completed"
  <2>0. ASSUME pc # "idle"
        PROVE  /\ rec.name \in Deploys
               /\ HasRun(rec.name) /\ rec'.name = rec.name => HasRun(rec.name)'
               /\ deploy'[rec.name].stage = deploy[rec.name].stage
    <3>1. rec.name \in Deploys /\ Created(rec.name)
      BY <2>0 DEF TypeInv, InFlight, Known
    <3>2. HasRun(rec.name) /\ rec'.name = rec.name => HasRun(rec.name)'
      BY <3>1, RunsStep DEF HasRun, OldRun, NewRun
    <3> QED
      BY <3>1, <3>2, Frame
  <2>1. CASE UNCHANGED <<pc, rec>>
    BY <2>0, <2>1 DEF DeployedBeforeGoneInv, NothingToDeploy
  <2>2. CASE Begins
    <3>1. PICK d \in Deploys, view \in {deploy, cachedDeploy} :
            /\ rec'.name = d /\ rec'.status = view[d].status
            /\ pc' \in {"trigger", "resolve"} /\ UNCHANGED clusterVars
      BY <2>2 DEF Begins
    <3>2. view[d].status # "completed" /\ (view[d].status = "running" => HasRun(d))
      BY <3>1 DEF DeployedBeforeGoneInv
    <3>3. HasRun(d) => HasRun(rec.name)'
      BY <3>1 DEF HasRun, clusterVars
    <3> QED
      BY <3>1, <3>2, <3>3
  <2>3. CASE Fails
    BY <2>3 DEF Fails
  <2>4. CASE Resolves
    BY <2>0, <2>4 DEF Resolves, DeployedBeforeGoneInv
  <2>5. CASE Queues
    BY <2>0, <2>5 DEF Queues, DeployedBeforeGoneInv, afterResolve
  <2>6. CASE Triggers
    <3>1. lastTagNotFound => \E a \in Apps : InitialTag[a] = 0
      BY ConstantsAssumption DEF lastTagNotFound, TagsGrow, TypeInv, TypeOK
    <3> QED
      BY <2>0, <2>6, <3>1 DEF Triggers, DeployedBeforeGoneInv, RecStage, NothingToDeploy
  <2>7. CASE Creates
    BY <2>7 DEF Creates
  <2> QED
    BY <2>1, <2>2, <2>3, <2>4, <2>5, <2>6, <2>7, FlowHolds DEF Flow
<1> QED
  BY <1>1, <1>2, <1>3 DEF DeployedBeforeGoneInv

\* Steps preserve the strengthening of OneRunPerStage.
LEMMA OneRunPerStageStep == IndInv /\ [Next]_vars => OneRunPerStageInv'
<1> SUFFICES ASSUME TypeInv, Known, OneRunPerStageInv, [Next]_vars, faults' = 0, stale' = 0
             PROVE  OneRunPerStageInv'
  BY DEF IndInv, OneRunPerStageInv
<1>0. faults = 0 /\ stale = 0
  BY CountsGrow
<1>1. \A d \in Deploys : deploy'[d].status # "failed"
  BY <1>0, DeployStepHolds DEF DeployStep, OneRunPerStageInv
<1>2. pc' # "idle" => rec'.status # "failed"
  <2>1. CASE (UNCHANGED <<pc, rec>>) \/ Begins
    BY <1>0, <2>1 DEF OneRunPerStageInv, Begins
  <2>2. CASE Resolves \/ Queues \/ Triggers \/ Creates
    BY <1>0, <2>2 DEF OneRunPerStageInv, Resolves, Queues, Triggers, Creates
  <2> QED
    BY <2>1, <2>2, FlowHolds DEF Flow, Fails
<1>3. ASSUME pc' \in {"queue", "trigger", "create"} PROVE Quiet(RecStage)'
  <2>1. CASE UNCHANGED <<pc, rec>>
    <3>1. RecStage' = RecStage
      BY <1>3, <2>1, Frame DEF RecStage, Known, TypeInv, InFlight
    <3>2. Quiet(RecStage)
      BY <1>0, <1>3, <2>1 DEF OneRunPerStageInv
    <3>3. pc # "create" \/ pc' # "update"
      BY <2>1
    <3> QED
      BY <3>1, <3>2, <3>3, RunsStep DEF Quiet, OldRun, NewRun
  <2>2. ASSUME UNCHANGED clusterVars, rec'.name = rec.name, Quiet(RecStage)
        PROVE  Quiet(RecStage)'
    BY <2>2 DEF Quiet, RecStage, clusterVars
  <2>3. CASE Begins
    BY <1>0, <1>3, <2>3 DEF Begins, OneRunPerStageInv
  <2>4. CASE Resolves
    BY <1>0, <1>3, <2>2, <2>4 DEF Resolves, OneRunPerStageInv
  <2>5. CASE Queues \/ Triggers
    BY <1>0, <1>3, <2>2, <2>5 DEF Queues, Triggers, OneRunPerStageInv
  <2> QED
    BY <1>3, <2>1, <2>3, <2>4, <2>5, FlowHolds DEF Flow, Fails, Creates
<1>4. ASSUME NEW i \in DOMAIN runs', NEW j \in DOMAIN runs',
             runs'[i].active, runs'[j].active, runs'[i].stage = runs'[j].stage
      PROVE  i = j
  <2>1. CASE OldRun(i) /\ OldRun(j)
    BY <1>0, <1>4, <2>1 DEF OldRun, OneRunPerStageInv
  <2>2. CASE NewRun(i) /\ NewRun(j)
    BY <2>2 DEF NewRun
  <2>3. ASSUME NEW k, NEW l, NewRun(k), OldRun(l), runs'[l].active
        PROVE  runs'[k].stage # runs'[l].stage
    BY <1>0, <2>3 DEF NewRun, OldRun, OneRunPerStageInv, Quiet
  <2> QED
    BY <1>4, <2>1, <2>2, <2>3, RunsStep
<1> QED
  BY <1>1, <1>2, <1>3, <1>4 DEF OneRunPerStageInv

\* Steps preserve the strengthening of NoOrphanRun.
LEMMA NoOrphanRunStep == IndInv /\ [Next]_vars => NoOrphanRunInv'
<1> SUFFICES ASSUME TypeInv, Known, RunsHaveReasons, DeployedBeforeGoneInv, NoOrphanRunInv,
                    [Next]_vars, stale' = 0
             PROVE  NoOrphanRunInv'
  BY DEF IndInv, NoOrphanRunInv
<1>0. stale = 0 /\ rec.status \in Statuses
  BY CountsGrow DEF TypeInv, TypeOK, RecRecord
<1>1. ASSUME NEW d \in Deploys, Deleted(d)' PROVE Finished(d)'
  <2>1. Deleted(d) \/ (d = rec.name /\ pc = "delete")
    BY <1>0, <1>1, DeployStepHolds DEF DeployStep, Deleted
  <2>2. Finished(d)
    BY <1>0, <2>1 DEF NoOrphanRunInv
  <2>3. ~(pc = "create" /\ rec.name = d)
    BY <1>0, <2>1 DEF NoOrphanRunInv
  <2> QED
    BY <2>2, <2>3, RunsStep DEF Finished, OldRun, NewRun
<1>2. ASSUME pc' \in {"resolve", "queue", "trigger", "create"} PROVE ~Deleted(rec.name)'
  <2>1. ASSUME NEW d \in Deploys, d = rec.name, ~Deleted(d), rec'.name = d,
               pc # "update", pc # "delete", Created(d)
        PROVE  ~Deleted(rec.name)'
    BY <2>1, DeployStepHolds DEF DeployStep, Deleted
  <2>2. CASE UNCHANGED <<pc, rec>>
    BY <1>0, <1>2, <2>1, <2>2 DEF NoOrphanRunInv, TypeInv, InFlight, Known
  <2>3. CASE Begins
    BY <1>0, <2>3 DEF Begins, Deleted, Present, clusterVars
  <2>4. CASE Resolves \/ Queues \/ Triggers
    BY <1>0, <2>1, <2>4 DEF Resolves, Queues, Triggers, NoOrphanRunInv, TypeInv, InFlight, Known
  <2> QED
    BY <1>2, <2>2, <2>3, <2>4, FlowHolds DEF Flow, Fails, Creates
<1>3. ASSUME pc' = "delete" PROVE Finished(rec.name)'
  <2>1. CASE UNCHANGED <<pc, rec>>
    BY <1>0, <1>3, <2>1, RunsStep DEF NoOrphanRunInv, Finished, OldRun, NewRun
  <2>2. CASE Resolves
    <3>1. Quiet(RecStage) /\ rec'.name = rec.name /\ UNCHANGED clusterVars
      BY <1>3, <2>2 DEF Resolves, DeployedBeforeGoneInv
    <3> QED
      BY <3>1 DEF Quiet, RecStage, Finished, Known, clusterVars
  <2>3. CASE Queues
    BY <1>3, <2>3 DEF Queues, afterResolve, DeployedBeforeGoneInv
  <2>4. CASE Triggers
    <3>1. RecStage \in EmptyTemplate \/ runs = <<>>
      BY <1>3, <2>4 DEF Triggers, lastTagNotFound, RunsHaveReasons
    <3> QED
      BY <2>4, <3>1 DEF Triggers, RecStage, Finished, Known, RunsHaveReasons, clusterVars
  <2> QED
    BY <1>3, <2>1, <2>2, <2>3, <2>4, FlowHolds DEF Flow, Begins, Fails, Creates
<1> QED
  BY <1>1, <1>2, <1>3 DEF NoOrphanRunInv

\* Steps preserve the strengthening of PayloadCoversRequest.
LEMMA PayloadStep == IndInv /\ [Next]_vars => PayloadInv'
<1> SUFFICES ASSUME TypeInv, Known, TagsGrow, PayloadInv, [Next]_vars PROVE PayloadInv'
  BY DEF IndInv
<1>1. ASSUME NEW d \in Deploys, Created(d), NEW payload, Covers(payload, d)
      PROVE  IF deploy'[d].stage \in AutoStable THEN payload[deploy'[d].app] = deploy'[d].tag
                                                ELSE payload[deploy'[d].app] >= deploy'[d].tag
  BY <1>1, Frame DEF Covers
<1>2. ASSUME pc' = "create" PROVE Covers(rec.payload, rec.name)'
  <2>1. CASE UNCHANGED <<pc, rec>>
    BY <1>1, <1>2, <2>1 DEF PayloadInv, Covers, TypeInv, InFlight, Known
  <2>2. CASE Triggers
    <3>1. rec.name \in Deploys /\ Created(rec.name) /\ rec'.name = rec.name
          /\ rec'.payload = getAppPayload(rec.name) /\ deploy' = deploy
      BY <1>2, <2>2 DEF Triggers, clusterVars, TypeInv, InFlight, Known
    <3>2. deploy[rec.name] \in DeployRecord
      BY <3>1 DEF TypeInv, TypeOK
    <3>3. deploy[rec.name].app \in Apps /\ deploy[rec.name].tag \in Nat
          /\ tags[deploy[rec.name].app] \in Nat
      BY <3>2 DEF DeployRecord, TypeInv, TypeOK
    <3>4. Covers(getAppPayload(rec.name), rec.name)
      BY <3>1, <3>3 DEF Covers, getAppPayload, currentWithStable, TagsGrow
    <3> QED
      BY <3>1, <3>4 DEF Covers
  <2> QED
    BY <1>2, <2>1, <2>2, FlowHolds
       DEF Flow, Begins, Fails, Resolves, Queues, Creates, afterResolve
<1>3. ASSUME NEW i \in DOMAIN runs' PROVE Covers(runs[i].payload, runs[i].by)'
  <2>1. CASE OldRun(i)
    <3>1. runs \in Seq(RunRecord) /\ i \in DOMAIN runs
      BY <2>1 DEF OldRun, TypeInv, TypeOK
    <3>2. runs[i] \in RunRecord
      BY <3>1
    <3>3. runs[i].by \in Deploys
      BY <3>2 DEF RunRecord
    <3> QED
      BY <1>1, <2>1, <3>3 DEF OldRun, PayloadInv, Covers, Known
  <2>2. CASE NewRun(i)
    BY <1>1, <2>2 DEF NewRun, PayloadInv, Covers, Known, TypeInv, InFlight
  <2> QED
    BY <2>1, <2>2, RunsStep
<1> QED
  BY <1>2, <1>3 DEF PayloadInv

(***************************************************************************)
(* The theorems.                                                           *)
(***************************************************************************)

\* The inductive invariant holds initially.
LEMMA IndInvInit == Init => IndInv
<1> SUFFICES ASSUME Init PROVE IndInv
  OBVIOUS
<1>1. TypeInv
  BY TypeInit
<1>2. \A d \in Deploys : deploy[d].status = "absent" /\ cachedDeploy[d].status = "absent"
  BY DEF Init
<1>3. pc = "idle" /\ runs = <<>> /\ tags = InitialTag /\ DOMAIN runs = {}
  BY DEF Init
<1>4. TagsGrow
  BY <1>2, <1>3, ConstantsAssumption DEF TagsGrow, Created
<1>5. Known /\ RunsHaveReasons
  BY <1>2, <1>3 DEF Known, RunsHaveReasons
<1>6. DeployedBeforeGoneInv
  BY <1>2, <1>3 DEF DeployedBeforeGoneInv
<1>7. OneRunPerStageInv
  BY <1>2, <1>3 DEF OneRunPerStageInv
<1>8. NoOrphanRunInv /\ PayloadInv
  BY <1>2, <1>3 DEF NoOrphanRunInv, PayloadInv, Deleted
<1> QED
  BY <1>1, <1>4, <1>5, <1>6, <1>7, <1>8 DEF IndInv

\* The inductive invariant holds in every reachable state.
LEMMA Inductive == Spec => []IndInv
<1>1. Init => IndInv
  BY IndInvInit
<1>2. IndInv /\ [Next]_vars => IndInv'
  BY TypeStep, KnownStep, TagsGrowStep, RunsHaveReasonsStep, DeployedBeforeGoneStep,
     OneRunPerStageStep, NoOrphanRunStep, PayloadStep DEF IndInv
<1> QED
  BY <1>1, <1>2, PTL DEF Spec

\* The controller never deletes a CDStageDeploy it did not create a PipelineRun
\* for, unless there was nothing to deploy: for any failures of the API calls, any
\* restarts and any staleness of the caches.
THEOREM NothingIsLost == Spec => []DeployedBeforeGone
<1>1. IndInv => DeployedBeforeGone
  BY DEF IndInv, DeployedBeforeGoneInv, DeployedBeforeGone, RunsOf, HasRun, NothingToDeploy
<1> QED
  BY <1>1, Inductive, PTL

\* A stage whose active PipelineRuns are all the same one has at most one.
LEMMA OneRunPerStageFollows == IndInv => OneRunPerStage
<1> SUFFICES ASSUME IndInv, faults = 0, stale = 0, NEW s \in Stages
             PROVE  Cardinality(ActiveRuns(s)) <= 1
  BY DEF OneRunPerStage
<1>1. \A i, j \in ActiveRuns(s) : i = j
  BY DEF IndInv, OneRunPerStageInv, ActiveRuns
<1>2. CASE ActiveRuns(s) = {}
  BY <1>2, FS_EmptySet
<1>3. CASE ActiveRuns(s) # {}
  <2>0. PICK i \in ActiveRuns(s) : TRUE
    BY <1>3
  <2>1. ActiveRuns(s) = {i}
    BY <1>1, <2>0
  <2>2. Cardinality({i}) = 1
    BY FS_Singleton, Zenon
  <2>3. Cardinality(ActiveRuns(s)) = 1
    BY <2>1, <2>2, Zenon
  <2> QED
    BY <2>3
<1> QED
  BY <1>2, <1>3

\* While no call has failed and no stale cache was read, no stage has two active
\* PipelineRuns, however many CDStageDeploys are created and in whatever order.
THEOREM StageIsExclusive == Spec => []OneRunPerStage
BY OneRunPerStageFollows, Inductive, PTL

\* With up-to-date caches the controller deletes a CDStageDeploy only after all
\* its PipelineRuns have completed, whatever fails.
THEOREM RunsEndFirst == Spec => []NoOrphanRun
<1>1. IndInv => NoOrphanRun
  BY DEF IndInv, NoOrphanRunInv, NoOrphanRun, RunsOf, Deleted, Finished
<1> QED
  BY <1>1, Inductive, PTL

\* No PipelineRun deploys an older tag of the requesting application than the
\* one it was requested for, although the tags are read long after the request.
THEOREM RequestIsCovered == Spec => []PayloadCoversRequest
<1>1. IndInv => PayloadCoversRequest
  BY DEF IndInv, PayloadInv, PayloadCoversRequest, Covers
<1> QED
  BY <1>1, Inductive, PTL
=============================================================================
