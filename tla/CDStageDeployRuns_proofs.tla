--------------------- MODULE CDStageDeployRuns_proofs ---------------------
(***************************************************************************)
(* How many PipelineRuns the CDStageDeploy controller creates: its retries *)
(* do not multiply them, and when nothing fails every CDStageDeploy gets   *)
(* one, as the abstract queue promises.                                    *)
(***************************************************************************)
EXTENDS CDStageDeploy_proofs

USE DEF Statuses

(***************************************************************************)
(* The inductive invariant. A CDStageDeploy owes a PipelineRun until its   *)
(* status says that it has one; each fault and each stale read pays for    *)
(* one more.                                                               *)
(***************************************************************************)

Opens == {"pending", "in-queue", "failed"}
Chain == {"resolve", "queue", "trigger", "create"}

\* The CDStageDeploys that exist or existed, and those that will not start a PipelineRun
\* unless their status is written again.
Requested == {d \in Deploys : deploy[d].status # "absent"}
Spent == {d \in Requested : deploy[d].terminating \/ deploy[d].status \notin Opens}

\* A status update of the reconcile in flight would be accepted.
Live == deploy[rec.name].version = rec.version /\ Present(deploy[rec.name])

\* What the reconcile in flight may still add: a PipelineRun that it creates from a copy
\* whose status cannot be written any more, or the retry of a resource that had its PipelineRun.
Debt ==
    IF \/ pc \in Chain /\ ~Live /\ rec.status \in Opens
       \/ pc = "update" /\ Live /\ rec.status \in Opens /\ rec.name \in Spent
    THEN 1 ELSE 0

\* What its status update is about to account for.
Refund ==
    IF pc = "update" /\ Live /\ rec.status = "running" /\ rec.name \notin Spent THEN 1 ELSE 0

\* Versions only grow, and the same version of a resource that is there is the same resource;
\* a copy that can still be written is of a resource that nobody is deleting, and that
\* wants a PipelineRun if the copy does.
VersionInv ==
    /\ \A d \in Deploys :
          /\ deploy[d].status = "absent" => deploy[d].version = 0
          /\ cachedDeploy[d].version <= deploy[d].version
          /\ cachedDeploy[d].version = deploy[d].version /\ Present(deploy[d])
                => cachedDeploy[d] = deploy[d]
    /\ pc # "idle" => rec.version <= deploy[rec.name].version
    /\ pc # "idle" /\ Live => ~deploy[rec.name].terminating
    /\ pc \in Chain /\ Live => (rec.status \in Opens <=> deploy[rec.name].status \in Opens)
    /\ pc \in Chain \ {"resolve"} => rec.status \in Opens

RunsInv ==
    /\ IsFiniteSet(Requested)
    /\ Len(runs) + Debt <= Cardinality(Spent) + faults + stale + Refund

(***************************************************************************)
(* What a step does to the versions, the copy and the counts.              *)
(***************************************************************************)

OnlyChanges(d) == \A e \in Deploys \ {d} : deploy'[e] = deploy[e]
SameCopy == rec'.name = rec.name /\ rec'.version = rec.version

\* The types of what is counted.
LEMMA Counts ==
    ASSUME TypeInv
    PROVE  /\ faults \in Nat /\ stale \in Nat /\ Len(runs) \in Nat
           /\ deploy \in [Deploys -> DeployRecord]
           /\ \A d \in Deploys : deploy[d].version \in Nat /\ cachedDeploy[d].version \in Nat
           /\ rec.version \in Nat /\ rec.status \in Statuses
<1>1. /\ faults \in Nat /\ stale \in Nat /\ runs \in Seq(RunRecord) /\ rec \in RecRecord
      /\ deploy \in [Deploys -> DeployRecord] /\ cachedDeploy \in [Deploys -> DeployRecord]
  BY ConstantsAssumption DEF TypeInv, TypeOK
<1>2. \A d \in Deploys : deploy[d] \in DeployRecord /\ cachedDeploy[d] \in DeployRecord
  BY <1>1
<1>3. \A d \in Deploys : deploy[d].version \in Nat /\ cachedDeploy[d].version \in Nat
  BY <1>2 DEF DeployRecord
<1>4. Len(runs) \in Nat
  BY <1>1
<1>5. rec.version \in Nat /\ rec.status \in Statuses
  BY <1>1 DEF RecRecord
<1> QED
  BY <1>1, <1>3, <1>4, <1>5

\* A call that does not end well is counted.
LEMMA OutcomeCounts ==
    ASSUME NEW o, Outcome(o)
    PROVE  (o = "ok" => faults' = faults) /\ (o # "ok" => faults' = faults + 1)
BY DEF Outcome

\* A creation changes the resource with the new name.
LEMMA RequestFields ==
    ASSUME TypeInv, NEW s \in Stages, NEW a \in Apps, Request(s, a)
    PROVE  /\ UNCHANGED <<runs, pc, rec, faults, stale>>
           /\ FreshName \in Deploys /\ deploy[FreshName].status = "absent" /\ OnlyChanges(FreshName)
           /\ deploy'[FreshName].status = "pending" /\ ~deploy'[FreshName].terminating
           /\ deploy'[FreshName].version = 1
<1>1. PICK t : deploy' = [deploy EXCEPT ![FreshName] =
              [status |-> "pending", terminating |-> FALSE, stage |-> s,
               app |-> a, tag |-> tags[a], born |-> t, version |-> 1]]
  BY DEF Request, CreateDeploy
<1>2. FreshName \in Deploys /\ deploy[FreshName].status = "absent"
  BY FreshNameIsFresh DEF Request, CreateDeploy
<1>3. OnlyChanges(FreshName)
  BY <1>1, <1>2, Counts DEF OnlyChanges
<1> QED
  BY <1>1, <1>2, <1>3, Counts DEF Request

\* The owner's deletion makes a new version, the garbage collector's removal does not.
LEMMA TerminateFields ==
    ASSUME TypeInv, NEW d \in Deploys, Terminate(d)
    PROVE  /\ UNCHANGED <<runs, pc, rec, faults, stale>>
           /\ Present(deploy[d]) /\ ~deploy[d].terminating /\ OnlyChanges(d)
           /\ deploy'[d].status = deploy[d].status /\ deploy'[d].terminating
           /\ deploy'[d].version = deploy[d].version + 1
<1>1. deploy[d] \in DeployRecord
  BY Counts
<1> QED
  BY <1>1, Counts DEF Terminate, OnlyChanges, DeployRecord

LEMMA ReapFields ==
    ASSUME TypeInv, NEW d \in Deploys, Reap(d)
    PROVE  /\ UNCHANGED <<runs, pc, rec, faults, stale>>
           /\ Present(deploy[d]) /\ deploy[d].terminating /\ OnlyChanges(d)
           /\ deploy'[d].status = "gone" /\ deploy'[d].terminating
           /\ deploy'[d].version = deploy[d].version
<1>1. deploy[d] \in DeployRecord
  BY Counts
<1> QED
  BY <1>1, Counts DEF Reap, OnlyChanges, DeployRecord

\* A reconcile begins with the resource as it is, or the stale read is counted.
BeginsFrom(d, v) ==
    /\ \/ v = deploy[d] /\ stale' = stale
       \/ v = cachedDeploy[d] /\ v # deploy[d] /\ stale' = stale + 1
    /\ Present(v) /\ ~v.terminating
    /\ rec'.name = d /\ rec'.version = v.version /\ rec'.status = v.status
    /\ pc' = IF v.status = "failed" THEN "trigger" ELSE "resolve"

LEMMA ReconcileFields ==
    ASSUME TypeInv, NEW d \in Deploys, Reconcile(d)
    PROVE  /\ UNCHANGED <<deploy, runs, faults>> /\ pc = "idle"
           /\ \/ UNCHANGED <<pc, rec>> /\ stale' \in {stale, stale + 1}
              \/ \E v : BeginsFrom(d, v)
<1>1. PICK view \in {deploy, cachedDeploy} :
          /\ Read(view[d] = deploy[d])
          /\ \/ UNCHANGED <<pc, rec>>
             \/ /\ Present(view[d]) /\ ~view[d].terminating
                /\ Continue([name |-> d, old |-> view[d].status, status |-> view[d].status,
                             version |-> view[d].version, payload |-> NoPayload],
                            IF view[d].status = "failed" THEN "trigger" ELSE "resolve")
  BY DEF Reconcile, ReadDeploys, afterResolve, skipPipelineRunCreation
<1>2. CASE UNCHANGED <<pc, rec>>
  BY <1>1, <1>2 DEF Reconcile, Read, clusterVars
<1>3. CASE ~UNCHANGED <<pc, rec>>
  <2>1. BeginsFrom(d, view[d])
    BY <1>1, <1>3 DEF BeginsFrom, Continue, Read
  <2> QED
    BY <2>1 DEF Reconcile, clusterVars
<1> QED
  BY <1>2, <1>3

\* A step of the chain that fails goes on to the status update; one that does not keeps the
\* copy and what it wants, or ends the reconcile, or deletes the resource.
ChainStep ==
    /\ UNCHANGED <<deploy, runs>> /\ stale' \in {stale, stale + 1}
    /\ \/ SameCopy /\ pc' = "update" /\ rec'.status = "failed" /\ faults' = faults + 1
       \/ /\ faults' = faults
          /\ \/ pc' = "idle"
             \/ SameCopy /\ pc' = "delete"
             \/ SameCopy /\ pc' = "update" /\ (rec'.status \in Opens => rec.status \in Opens)
             \/ /\ SameCopy /\ pc' \in Chain \ {"resolve"}
                /\ rec.status \in Opens /\ rec'.status \in Opens

LEMMA ChainStepHolds ==
    ASSUME TypeInv, VersionInv, NEW o,
           ResolveStatus(o) \/ shouldStartCDStageDeploy(o) \/ ProcessTriggerTemplate(o)
    PROVE  ChainStep /\ pc \in Chain
<1>0. rec \in RecRecord
  BY DEF TypeInv, TypeOK
<1>f. ASSUME ChainFails, faults' = faults + 1, UNCHANGED <<deploy, runs>>,
             stale' \in {stale, stale + 1}
      PROVE  ChainStep
  BY <1>0, <1>f DEF ChainStep, SameCopy, ChainFails, RecRecord
<1>1. CASE ResolveStatus(o)
  <2>1. PICK view \in {runs, cachedRuns} :
          /\ ReadRuns(view)
          /\ \/ o = "error" /\ ChainFails
             \/ LET done == allPipelineRunsCompleted(view, RecStage)
                    r == [rec EXCEPT !.status = resolvedStatus(@, done)]
                IN  /\ o = "ok"
                    /\ Continue(r, IF rec.status = "in-queue" /\ done THEN "queue"
                                   ELSE afterResolve(r))
    BY <1>1 DEF ResolveStatus
  <2>2. UNCHANGED <<deploy, runs>> /\ stale' \in {stale, stale + 1} /\ pc = "resolve" /\ Outcome(o)
    BY <1>1, <2>1 DEF ResolveStatus, ReadRuns, Read, clusterVars
  <2>3. CASE o = "error" /\ ChainFails
    BY <1>f, <2>2, <2>3, OutcomeCounts DEF Chain
  <2> DEFINE done == allPipelineRunsCompleted(view, RecStage)
             r == [rec EXCEPT !.status = resolvedStatus(@, done)]
             phase == IF rec.status = "in-queue" /\ done THEN "queue" ELSE afterResolve(r)
  <2>4. CASE o = "ok" /\ Continue(r, phase)
    <3>1. /\ r.name = rec.name /\ r.version = rec.version
          /\ r.status = resolvedStatus(rec.status, done)
      BY <1>0 DEF RecRecord
    <3>2. /\ r.status \in Opens => rec.status \in Opens
          /\ phase \in {"idle", "delete", "update"} \/ (phase \in {"queue", "trigger"} /\ r.status \in Opens)
      BY <3>1 DEF resolvedStatus, afterResolve, skipPipelineRunCreation, Opens
    <3>3. faults' = faults
      BY <2>2, <2>4, OutcomeCounts
    <3> HIDE DEF r, phase
    <3> QED
      BY <2>2, <2>4, <3>1, <3>2, <3>3 DEF ChainStep, SameCopy, Continue, Chain
  <2> QED
    BY <2>1, <2>3, <2>4
<1>2. CASE shouldStartCDStageDeploy(o)
  <2>1. /\ UNCHANGED <<deploy, runs>> /\ stale' \in {stale, stale + 1} /\ pc = "queue" /\ Outcome(o)
        /\ \/ o = "error" /\ ChainFails
           \/ o = "ok" /\ Continue([rec EXCEPT !.status = "pending"], "trigger")
           \/ o = "ok" /\ Continue(rec, afterResolve(rec))
    BY <1>2 DEF shouldStartCDStageDeploy, ReadDeploys, Read, clusterVars
  <2>2. rec.status \in Opens
    BY <2>1 DEF VersionInv, Chain
  <2>3. CASE o = "error" /\ ChainFails
    BY <1>f, <2>1, <2>3, OutcomeCounts DEF Chain
  <2>4. CASE o = "ok"
    BY <1>0, <2>1, <2>2, <2>4, OutcomeCounts DEF ChainStep, SameCopy, Continue, Chain, Opens,
       afterResolve, skipPipelineRunCreation, RecRecord
  <2> QED
    BY <2>1, <2>3, <2>4
<1>3. CASE ProcessTriggerTemplate(o)
  <2>1. /\ UNCHANGED <<deploy, runs>> /\ stale' = stale /\ pc = "trigger" /\ Outcome(o)
        /\ \/ o = "error" /\ ChainFails
           \/ o = "ok" /\ Continue([rec EXCEPT !.status = "completed"], "delete")
           \/ o = "ok" /\ Continue([rec EXCEPT !.payload = getAppPayload(rec.name)], "create")
    BY <1>3 DEF ProcessTriggerTemplate, clusterVars
  <2>2. rec.status \in Opens
    BY <2>1 DEF VersionInv, Chain
  <2>3. CASE o = "error" /\ ChainFails
    BY <1>f, <2>1, <2>3, OutcomeCounts DEF Chain
  <2>4. CASE o = "ok"
    BY <1>0, <2>1, <2>2, <2>4, OutcomeCounts DEF ChainStep, SameCopy, Continue, Chain, RecRecord
  <2> QED
    BY <2>1, <2>3, <2>4
<1> QED
  BY <1>1, <1>2, <1>3

\* A creation that ends well adds one PipelineRun, one that does not adds at most one.
LEMMA CreateFields ==
    ASSUME TypeInv, NEW o, CreatePipelineRun(o)
    PROVE  /\ UNCHANGED <<deploy, stale>> /\ pc = "create" /\ pc' = "update" /\ SameCopy
           /\ Len(runs') \in {Len(runs), Len(runs) + 1}
           /\ \/ faults' = faults /\ rec'.status = "running"
              \/ faults' = faults + 1 /\ rec'.status = "failed"
<1>0. rec \in RecRecord /\ runs \in Seq(RunRecord)
  BY DEF TypeInv, TypeOK
<1>1. Len(runs') \in {Len(runs), Len(runs) + 1}
  BY <1>0 DEF CreatePipelineRun
<1> QED
  BY <1>0, <1>1, OutcomeCounts DEF CreatePipelineRun, ChainFails, Continue, SameCopy, RecRecord

\* A deletion of the controller removes the resource without a new version.
LEMMA DeleteFields ==
    ASSUME TypeInv, NEW o, DeleteCDStageDeploy(o)
    PROVE  /\ UNCHANGED <<runs, stale>> /\ pc = "delete" /\ rec.name \in Deploys
           /\ \/ deploy' = deploy
              \/ /\ OnlyChanges(rec.name) /\ deploy'[rec.name].status = "gone"
                 /\ deploy'[rec.name].version = deploy[rec.name].version
           /\ \/ faults' = faults /\ pc' = "idle"
              \/ faults' = faults + 1 /\ pc' = "update" /\ SameCopy /\ rec'.status = "failed"
<1>0. rec \in RecRecord /\ rec.name \in Deploys
  BY DEF TypeInv, TypeOK, InFlight, DeleteCDStageDeploy
<1>1. deploy[rec.name] \in DeployRecord
  BY <1>0, Counts
<1>2. \/ deploy' = deploy
      \/ /\ OnlyChanges(rec.name) /\ deploy'[rec.name].status = "gone"
         /\ deploy'[rec.name].version = deploy[rec.name].version
  BY <1>0, <1>1, Counts DEF DeleteCDStageDeploy, OnlyChanges, DeployRecord
<1> QED
  BY <1>0, <1>2, OutcomeCounts DEF DeleteCDStageDeploy, ChainFails, Continue, SameCopy, RecRecord

\* A status update is written if the copy is live, unless the call fails.
LEMMA UpdateFields ==
    ASSUME TypeInv, NEW o, UpdateStatus(o)
    PROVE  /\ UNCHANGED <<runs, stale>> /\ pc = "update" /\ pc' = "idle" /\ rec.name \in Deploys
           /\ \/ deploy' = deploy /\ faults' = faults + 1
              \/ deploy' = deploy /\ faults' = faults /\ ~Live
              \/ /\ OnlyChanges(rec.name) /\ Live /\ faults' \in {faults, faults + 1}
                 /\ deploy'[rec.name].status = rec.status
                 /\ deploy'[rec.name].terminating = deploy[rec.name].terminating
                 /\ deploy'[rec.name].version = deploy[rec.name].version + 1
<1>0. rec.name \in Deploys
  BY DEF TypeInv, InFlight, UpdateStatus
<1>1. deploy[rec.name] \in DeployRecord
  BY <1>0, Counts
<1>2. CASE o # "error" /\ Live
  <2>1. deploy' = [deploy EXCEPT ![rec.name].status = rec.status, ![rec.name].version = @ + 1]
    BY <1>2 DEF UpdateStatus, Live
  <2>2. /\ OnlyChanges(rec.name) /\ deploy'[rec.name].status = rec.status
        /\ deploy'[rec.name].terminating = deploy[rec.name].terminating
        /\ deploy'[rec.name].version = deploy[rec.name].version + 1
    BY <1>0, <1>1, <2>1, Counts DEF OnlyChanges, DeployRecord
  <2> QED
    BY <1>0, <1>2, <2>2, OutcomeCounts DEF UpdateStatus, Continue
<1>3. CASE o = "error" \/ ~Live
  BY <1>0, <1>3, OutcomeCounts DEF UpdateStatus, Continue, Live
<1> QED
  BY <1>2, <1>3

\* The other steps leave the resources, the copy and the number of PipelineRuns alone, or
\* end the reconcile by a restart, which is counted.
Idles ==
    /\ deploy' = deploy /\ Len(runs') = Len(runs) /\ stale' = stale
    /\ \/ UNCHANGED <<pc, rec, faults>>
       \/ pc' = "idle" /\ faults' = faults + 1

LEMMA StepKinds ==
    ASSUME TypeInv, [Next]_vars
    PROVE  \/ Idles
           \/ \E s \in Stages, a \in Apps : Request(s, a)
           \/ \E d \in Deploys : Terminate(d) \/ Reap(d) \/ Reconcile(d)
           \/ \E o \in Outcomes :
                 \/ ResolveStatus(o) \/ shouldStartCDStageDeploy(o) \/ ProcessTriggerTemplate(o)
                 \/ CreatePipelineRun(o) \/ DeleteCDStageDeploy(o) \/ UpdateStatus(o)
<1>1. ASSUME NEW i \in 1 .. MaxRuns, FinishRun(i) PROVE Idles
  <2>1. runs \in Seq(RunRecord)
    BY DEF TypeInv, TypeOK
  <2>2. Len(runs') = Len(runs)
    BY <1>1, <2>1 DEF FinishRun
  <2> QED
    BY <1>1, <2>2 DEF FinishRun, Idles
<1>2. ASSUME (\E a \in Apps : PushTag(a)) \/ SyncDeploys \/ SyncRuns \/ Restart \/ UNCHANGED vars
      PROVE  Idles
  BY <1>2 DEF PushTag, SyncDeploys, SyncRuns, Restart, vars, clusterVars, Idles
<1> QED
  BY <1>1, <1>2 DEF Next, Controller, Step, Environment

(***************************************************************************)
(* Versions.                                                               *)
(***************************************************************************)

\* A resource that changes gets a new version, or is gone.
LEMMA VersionsGrow ==
    ASSUME TypeInv, Known, VersionInv, [Next]_vars, NEW d \in Deploys
    PROVE  \/ deploy'[d] = deploy[d]
           \/ deploy'[d].version = deploy[d].version + 1 /\ deploy'[d].status # "absent"
           \/ deploy'[d].version = deploy[d].version /\ deploy'[d].status = "gone"
<1> DEFINE Goal == \/ deploy'[d] = deploy[d]
                   \/ deploy'[d].version = deploy[d].version + 1 /\ deploy'[d].status # "absent"
                   \/ deploy'[d].version = deploy[d].version /\ deploy'[d].status = "gone"
<1>1. ASSUME NEW s \in Stages, NEW a \in Apps, Request(s, a) PROVE Goal
  BY <1>1, RequestFields DEF OnlyChanges, VersionInv
<1>2. ASSUME NEW e \in Deploys, Terminate(e) PROVE Goal
  BY <1>2, TerminateFields DEF OnlyChanges, Present
<1>3. ASSUME NEW e \in Deploys, Reap(e) PROVE Goal
  BY <1>3, ReapFields DEF OnlyChanges
<1>4. ASSUME NEW o \in Outcomes, DeleteCDStageDeploy(o) PROVE Goal
  BY <1>4, DeleteFields DEF OnlyChanges
<1>5. ASSUME NEW o \in Outcomes, UpdateStatus(o) PROVE Goal
  <2>1. rec.status # "absent"
    BY Counts
  <2> QED
    BY <1>5, <2>1, UpdateFields DEF OnlyChanges
<1>6. ASSUME deploy' = deploy PROVE Goal
  BY <1>6
<1>7. Idles => deploy' = deploy
  BY DEF Idles
<1>8. ASSUME NEW e \in Deploys, Reconcile(e) PROVE deploy' = deploy
  BY <1>8, ReconcileFields
<1>9. ASSUME NEW o \in Outcomes, \/ ResolveStatus(o) \/ shouldStartCDStageDeploy(o)
                                 \/ ProcessTriggerTemplate(o) \/ CreatePipelineRun(o)
      PROVE  deploy' = deploy
  BY <1>9, ChainStepHolds, CreateFields DEF ChainStep
<1>10. Goal
  <2> HIDE DEF Goal
  <2>1. Idles \/ (\E e \in Deploys : Reconcile(e)) => Goal
    BY <1>6, <1>7, <1>8
  <2>2. ASSUME NEW o \in Outcomes, \/ ResolveStatus(o) \/ shouldStartCDStageDeploy(o)
                                   \/ ProcessTriggerTemplate(o) \/ CreatePipelineRun(o)
        PROVE  Goal
    BY <1>6, <1>9, <2>2
  <2> QED
    BY <1>1, <1>2, <1>3, <1>4, <1>5, <2>1, <2>2, StepKinds
<1> QED
  BY <1>10

\* The resource of the reconcile in flight, when others act: its version grows with its
\* changes, so a copy that is not live stays so.
LEMMA VersionInvStep ==
    ASSUME TypeInv, Known, VersionInv, [Next]_vars
    PROVE  VersionInv'
<1>0. TypeInv'
  BY TypeStep
<1>1. ASSUME NEW d \in Deploys
      PROVE  /\ deploy'[d].status = "absent" => deploy'[d].version = 0
             /\ cachedDeploy'[d].version <= deploy'[d].version
             /\ cachedDeploy'[d].version = deploy'[d].version /\ Present(deploy'[d])
                   => cachedDeploy'[d] = deploy'[d]
  <2>1. /\ deploy[d].version \in Nat /\ cachedDeploy[d].version \in Nat
        /\ deploy'[d].version \in Nat
    <3>1. deploy'[d] \in DeployRecord
      BY <1>0 DEF TypeInv, TypeOK
    <3> QED
      BY <3>1, Counts DEF DeployRecord
  <2>2. CASE cachedDeploy' = deploy /\ deploy' = deploy
    BY <2>1, <2>2 DEF VersionInv
  <2>3. CASE cachedDeploy' = cachedDeploy
    <3>1. CASE deploy'[d] = deploy[d]
      BY <2>3, <3>1 DEF VersionInv
    <3>2. CASE deploy'[d].version = deploy[d].version + 1 /\ deploy'[d].status # "absent"
      BY <2>1, <2>3, <3>2 DEF VersionInv
    <3>3. CASE deploy'[d].version = deploy[d].version /\ deploy'[d].status = "gone"
      BY <2>1, <2>3, <3>3 DEF VersionInv, Present
    <3> QED
      BY <3>1, <3>2, <3>3, VersionsGrow
  <2> QED
    BY <2>2, <2>3, CacheStep
<1> DEFINE Copy == /\ pc # "idle" => rec.version <= deploy[rec.name].version
                   /\ pc # "idle" /\ Live => ~deploy[rec.name].terminating
                   /\ pc \in Chain /\ Live =>
                         (rec.status \in Opens <=> deploy[rec.name].status \in Opens)
                   /\ pc \in Chain \ {"resolve"} => rec.status \in Opens
<1>2. Copy /\ (pc # "idle" => rec.name \in Deploys)
  BY DEF VersionInv, TypeInv, InFlight
\* The copy is the same and its resource is the same, or has a new version, or is gone.
<1>3. ASSUME SameCopy, rec'.status = rec.status, pc' = pc
      PROVE  Copy'
  <2>1. CASE pc = "idle"
    BY <1>3, <2>1 DEF Chain
  <2>2. CASE pc # "idle"
    <3>1. /\ rec.name \in Deploys /\ rec.version <= deploy[rec.name].version
          /\ rec.version \in Nat /\ deploy[rec.name].version \in Nat
      BY <1>2, <2>2, Counts
    <3>2. CASE deploy'[rec.name] = deploy[rec.name]
      BY <1>2, <1>3, <2>2, <3>1, <3>2 DEF SameCopy, Live
    <3>3. CASE deploy'[rec.name].version = deploy[rec.name].version + 1
      BY <1>2, <1>3, <2>2, <3>1, <3>3 DEF SameCopy, Live
    <3>4. CASE deploy'[rec.name].version = deploy[rec.name].version /\ deploy'[rec.name].status = "gone"
      BY <1>2, <1>3, <2>2, <3>1, <3>4 DEF SameCopy, Live, Present
    <3> QED
      BY <3>1, <3>2, <3>3, <3>4, VersionsGrow
  <2> QED
    BY <2>1, <2>2
<1>4. ASSUME pc' = "idle" PROVE Copy'
  BY <1>4 DEF Chain
\* The reconcile leaves the chain.
<1>5. ASSUME deploy' = deploy, SameCopy, pc # "idle", pc' \in {"update", "delete"} PROVE Copy'
  BY <1>2, <1>5 DEF SameCopy, Live, Chain
<1>6. ASSUME NEW d \in Deploys, Reconcile(d) PROVE Copy'
  <2>1. CASE UNCHANGED <<pc, rec>>
    BY <1>3, <2>1 DEF SameCopy
  <2>2. CASE \E v : BeginsFrom(d, v)
    <3>1. PICK v : BeginsFrom(d, v)
      BY <2>2
    <3>2. deploy' = deploy
      BY <1>6, ReconcileFields
    <3>3. /\ v.version <= deploy[d].version
          /\ v.version = deploy[d].version /\ Present(deploy[d]) => v = deploy[d]
      BY <3>1, Counts DEF BeginsFrom, VersionInv
    <3>4. v.status = "failed" => v.status \in Opens
      BY DEF Opens
    <3> QED
      BY <3>1, <3>2, <3>3, <3>4 DEF BeginsFrom, Live, Chain
  <2> QED
    BY <1>6, <2>1, <2>2, ReconcileFields
<1>7. ASSUME NEW o \in Outcomes,
             ResolveStatus(o) \/ shouldStartCDStageDeploy(o) \/ ProcessTriggerTemplate(o)
      PROVE  Copy'
  <2>1. ChainStep /\ pc \in Chain
    BY <1>7, ChainStepHolds
  <2>2. CASE SameCopy /\ pc' \in Chain \ {"resolve"} /\ rec.status \in Opens /\ rec'.status \in Opens
    BY <1>2, <2>1, <2>2 DEF ChainStep, SameCopy, Live, Chain
  <2> QED
    BY <1>4, <1>5, <2>1, <2>2 DEF ChainStep, Chain
<1>8. ASSUME NEW o \in Outcomes, CreatePipelineRun(o) PROVE Copy'
  BY <1>5, <1>8, CreateFields
<1>9. ASSUME NEW o \in Outcomes, DeleteCDStageDeploy(o) PROVE Copy'
  <2>1. CASE pc' = "idle"
    BY <1>4, <2>1
  <2>2. CASE deploy' = deploy /\ pc' = "update" /\ SameCopy
    BY <1>5, <1>9, <2>2, DeleteFields
  <2>3. CASE deploy'[rec.name].status = "gone" /\ deploy'[rec.name].version = deploy[rec.name].version
             /\ pc' = "update" /\ SameCopy
    BY <1>2, <1>9, <2>3, DeleteFields DEF SameCopy, Live, Present, Chain
  <2> QED
    BY <1>9, <2>1, <2>2, <2>3, DeleteFields
<1>10. ASSUME NEW o \in Outcomes, UpdateStatus(o) PROVE Copy'
  BY <1>4, <1>10, UpdateFields
<1>11. ASSUME \/ Idles
              \/ \E s \in Stages, a \in Apps : Request(s, a)
              \/ \E d \in Deploys : Terminate(d) \/ Reap(d)
       PROVE  Copy'
  <2>1. (UNCHANGED <<pc, rec>>) \/ pc' = "idle"
    BY <1>11 DEF Idles, Request, Terminate, Reap
  <2> QED
    BY <1>3, <1>4, <2>1 DEF SameCopy
<1>12. Copy'
  <2> HIDE DEF Copy
  <2> QED
    BY <1>6, <1>7, <1>8, <1>9, <1>10, <1>11, StepKinds
<1> QED
  BY <1>1, <1>12 DEF VersionInv

(***************************************************************************)
(* The account.                                                            *)
(***************************************************************************)

\* What is spent is finite, and no more than what was requested.
LEMMA SpentCount ==
    ASSUME RunsInv
    PROVE  /\ IsFiniteSet(Spent) /\ Cardinality(Spent) \in Nat
           /\ Cardinality(Spent) <= Cardinality(Requested)
<1>1. IsFiniteSet(Requested) /\ Spent \subseteq Requested
  BY DEF RunsInv, Spent
<1> QED
  BY <1>1, FS_Subset, FS_CardinalityType

\* One resource changes: what is spent has one more, one less or the same.
LEMMA SpentChange ==
    ASSUME RunsInv, NEW d \in Deploys, OnlyChanges(d)
    PROVE  /\ IsFiniteSet(Requested')
           /\ d \in Spent /\ d \in Spent' => Cardinality(Spent') = Cardinality(Spent)
           /\ d \notin Spent /\ d \notin Spent' => Cardinality(Spent') = Cardinality(Spent)
           /\ d \notin Spent /\ d \in Spent' => Cardinality(Spent') = Cardinality(Spent) + 1
           /\ d \in Spent /\ d \notin Spent' => Cardinality(Spent') = Cardinality(Spent) - 1
<1>1. \A e \in Deploys \ {d} : (e \in Requested' <=> e \in Requested) /\ (e \in Spent' <=> e \in Spent)
  BY DEF OnlyChanges, Requested, Spent
<1>2. Spent \subseteq Deploys /\ Spent' \subseteq Deploys /\ Requested' \subseteq Deploys
  BY DEF Requested, Spent
<1>3. IsFiniteSet(Requested')
  <2>1. Requested' \subseteq Requested \cup {d}
    BY <1>1, <1>2
  <2>2. IsFiniteSet(Requested \cup {d})
    BY FS_AddElement DEF RunsInv
  <2> QED
    BY <2>1, <2>2, FS_Subset
<1>4. IsFiniteSet(Spent)
  BY SpentCount
<1>5. ASSUME d \in Spent <=> d \in Spent' PROVE Spent' = Spent
  BY <1>1, <1>2, <1>5
<1>6. ASSUME d \notin Spent, d \in Spent' PROVE Cardinality(Spent') = Cardinality(Spent) + 1
  <2>1. Spent' = Spent \cup {d}
    BY <1>1, <1>2, <1>6
  <2> QED
    BY <1>4, <1>6, <2>1, FS_AddElement
<1>7. ASSUME d \in Spent, d \notin Spent' PROVE Cardinality(Spent') = Cardinality(Spent) - 1
  <2>1. Spent' = Spent \ {d}
    BY <1>1, <1>2, <1>7
  <2> QED
    BY <1>4, <1>7, <2>1, FS_RemoveElement
<1> QED
  BY <1>3, <1>5, <1>6, <1>7

\* Nothing changes for the reconcile in flight if its resource and its copy do not change.
LEMMA SameTerms ==
    ASSUME pc' = pc, rec' = rec,
           pc # "idle" => rec.name \in Deploys /\ deploy'[rec.name] = deploy[rec.name]
    PROVE  Debt' = Debt /\ Refund' = Refund
<1>1. CASE pc = "idle"
  BY <1>1 DEF Debt, Refund, Chain
<1>2. CASE pc # "idle"
  <2>1. (Live' <=> Live) /\ (rec'.name \in Spent' <=> rec.name \in Spent)
    BY <1>2 DEF Live, Spent, Requested
  <2> QED
    BY <1>2, <2>1 DEF Debt, Refund
<1> QED
  BY <1>1, <1>2

\* The account stays balanced: a PipelineRun is added for a resource that is then marked as
\* running, or the fault or the stale read that keeps it from being marked pays for it.
LEMMA RunsInvStep ==
    ASSUME TypeInv, Known, DeployedBeforeGoneInv, VersionInv, RunsInv, [Next]_vars
    PROVE  RunsInv'
<1> DEFINE C == Cardinality(Spent)
           L == Len(runs)
           Balance == L + Debt <= C + faults + stale + Refund
<1>0. /\ C \in Nat /\ L \in Nat /\ faults \in Nat /\ stale \in Nat
      /\ Debt \in {0, 1} /\ Refund \in {0, 1} /\ Balance
      /\ Debt' \in {0, 1} /\ Refund' \in {0, 1} /\ IsFiniteSet(Requested)
  BY Counts, SpentCount DEF Debt, Refund, RunsInv
<1>1. ASSUME deploy' = deploy PROVE C' = C /\ IsFiniteSet(Requested')
  <2>1. Requested' = Requested /\ Spent' = Spent
    BY <1>1 DEF Requested, Spent
  <2> QED
    BY <1>0, <2>1
<1>2. pc # "idle" => rec.name \in Deploys /\ rec.name \in Requested
  BY DEF TypeInv, InFlight, Known, Created, Requested
<1>3. ASSUME pc = "idle" PROVE Debt = 0 /\ Refund = 0
  BY <1>3 DEF Debt, Refund, Chain
<1>4. ASSUME pc' = "idle" PROVE Debt' = 0 /\ Refund' = 0
  BY <1>4 DEF Debt, Refund, Chain
<1>5. ASSUME pc # "update" PROVE Refund = 0
  BY <1>5 DEF Refund
<1> DEFINE Goal == IsFiniteSet(Requested') /\ Balance'
<1> HIDE DEF C, L
\* It is enough to know the debt.
<1> DEFINE Enough(d) == \A r \in {0, 1} : L' + d <= C' + faults' + stale' + r
<1>6. ASSUME IsFiniteSet(Requested'), NEW d, Debt' = d, Enough(d) PROVE Goal
  BY <1>0, <1>6, Zenon
<1>7. ASSUME IsFiniteSet(Requested'), Enough(0), Enough(1) PROVE Goal
  BY <1>0, <1>6, <1>7
<1>10. ASSUME Idles PROVE Goal
  <2>1. deploy' = deploy /\ L' = L /\ stale' = stale
    BY <1>10 DEF Idles, L
  <2>2. CASE UNCHANGED <<pc, rec, faults>>
    <3>1. Debt' = Debt /\ Refund' = Refund
      BY <1>2, <2>1, <2>2, SameTerms
    <3> QED
      BY <1>0, <1>1, <2>1, <2>2, <3>1
  <2>3. CASE pc' = "idle" /\ faults' = faults + 1
    BY <1>0, <1>1, <1>4, <2>1, <2>3
  <2> QED
    BY <1>10, <2>2, <2>3 DEF Idles
<1>11. ASSUME NEW s \in Stages, NEW a \in Apps, Request(s, a) PROVE Goal
  <2>1. UNCHANGED <<runs, pc, rec, faults, stale>> /\ L' = L
    BY <1>11, RequestFields DEF L
  <2>2. FreshName \in Deploys /\ FreshName \notin Spent /\ FreshName \notin Spent' /\ FreshName \notin Requested
    BY <1>11, RequestFields DEF Spent, Requested, Opens
  <2>3. C' = C /\ IsFiniteSet(Requested')
    BY <1>11, <2>2, RequestFields, SpentChange DEF C
  <2>4. pc # "idle" => rec.name \in Deploys /\ deploy'[rec.name] = deploy[rec.name]
    BY <1>2, <1>11, <2>2, RequestFields DEF OnlyChanges
  <2>5. Debt' = Debt /\ Refund' = Refund
    BY <2>1, <2>4, SameTerms
  <2> QED
    BY <1>0, <2>1, <2>3, <2>5
<1>12. ASSUME NEW d \in Deploys, Terminate(d) PROVE Goal
  <2>1. UNCHANGED <<runs, pc, rec, faults, stale>> /\ L' = L
    BY <1>12, TerminateFields DEF L
  <2>2. d \in Spent' /\ (d \in Spent <=> deploy[d].status \notin Opens)
    BY <1>12, TerminateFields DEF Spent, Requested, Present
  <2>3. IsFiniteSet(Requested') /\ (d \in Spent => C' = C) /\ (d \notin Spent => C' = C + 1)
    BY <1>12, <2>2, TerminateFields, SpentChange DEF C
  <2>4. CASE pc = "idle" \/ d # rec.name
    <3>1. Debt' = Debt /\ Refund' = Refund
      BY <1>2, <1>12, <2>1, <2>4, TerminateFields, SameTerms DEF OnlyChanges
    <3> QED
      BY <1>0, <2>1, <2>3, <3>1
  <2>5. CASE pc # "idle" /\ d = rec.name
    <3>1. /\ deploy[d].version \in Nat /\ rec.version <= deploy[d].version /\ rec.version \in Nat
          /\ deploy'[d].version = deploy[d].version + 1
      BY <1>12, <2>5, TerminateFields, Counts DEF VersionInv
    <3>2. ~Live'
      BY <2>1, <2>5, <3>1 DEF Live
    <3>3. Refund' = 0 /\ (Refund = 1 => d \notin Spent)
      BY <2>5, <3>2 DEF Refund
    <3>4. Debt' = 1 => Debt = 1 \/ d \notin Spent
      BY <2>1, <2>2, <2>5, <3>2 DEF Debt, VersionInv
    <3>5. Debt' = 1 => Refund = 0
      BY <2>1, <3>2 DEF Debt, Refund, Chain
    <3> QED
      BY <1>0, <2>1, <2>3, <3>3, <3>4, <3>5
  <2> QED
    BY <2>4, <2>5
<1>13. ASSUME NEW d \in Deploys, Reap(d) PROVE Goal
  <2>1. UNCHANGED <<runs, pc, rec, faults, stale>> /\ L' = L
    BY <1>13, ReapFields DEF L
  <2>2. d \in Spent' /\ d \in Spent
    BY <1>13, ReapFields DEF Spent, Requested, Present
  <2>3. C' = C /\ IsFiniteSet(Requested')
    BY <1>13, <2>2, ReapFields, SpentChange DEF C
  <2>4. CASE pc = "idle" \/ d # rec.name
    <3>1. Debt' = Debt /\ Refund' = Refund
      BY <1>2, <1>13, <2>1, <2>4, ReapFields, SameTerms DEF OnlyChanges
    <3> QED
      BY <1>0, <2>1, <2>3, <3>1
  <2>5. CASE pc # "idle" /\ d = rec.name
    <3>1. ~Live /\ ~Live'
      BY <1>13, <2>1, <2>5, ReapFields DEF Live, Present, VersionInv
    <3>2. Refund' = Refund /\ Debt' = Debt
      BY <2>1, <3>1 DEF Refund, Debt
    <3> QED
      BY <1>0, <2>1, <2>3, <3>2
  <2> QED
    BY <2>4, <2>5
<1>14. ASSUME NEW d \in Deploys, Reconcile(d) PROVE Goal
  <2>1. UNCHANGED <<deploy, runs, faults>> /\ pc = "idle" /\ L' = L
    BY <1>14, ReconcileFields DEF L
  <2>2. /\ C' = C /\ IsFiniteSet(Requested') /\ L' = L /\ faults' = faults
        /\ Debt = 0 /\ Refund = 0
    BY <1>1, <1>3, <2>1
  <2>3. CASE UNCHANGED <<pc, rec>> /\ stale' \in {stale, stale + 1}
    <3>1. Debt' = 0
      BY <1>4, <2>1, <2>3
    <3>2. PICK k \in {0, 1} : stale' = stale + k
      BY <1>0, <2>3
    <3>3. Enough(0)
      BY <1>0, <2>2, <3>2
    <3> QED
      BY <1>6, <2>2, <3>1, <3>3
  <2>4. CASE \E v : BeginsFrom(d, v)
    <3>1. PICK v : BeginsFrom(d, v)
      BY <2>4
    <3>2. CASE v = deploy[d] /\ stale' = stale
      <4>1. Live' /\ pc' # "update"
        BY <2>1, <3>1, <3>2 DEF BeginsFrom, Live
      <4>2. Debt' = 0
        BY <4>1 DEF Debt
      <4>3. Enough(0)
        BY <1>0, <2>2, <3>2
      <4> QED
        BY <1>6, <2>2, <4>2, <4>3
    <3>3. CASE stale' = stale + 1
      <4>1. Enough(0) /\ Enough(1)
        BY <1>0, <2>2, <3>3
      <4> QED
        BY <1>7, <2>2, <4>1
    <3> QED
      BY <3>1, <3>2, <3>3 DEF BeginsFrom
  <2> QED
    BY <1>14, <2>3, <2>4, ReconcileFields
<1>15. ASSUME NEW o \in Outcomes,
              ResolveStatus(o) \/ shouldStartCDStageDeploy(o) \/ ProcessTriggerTemplate(o)
       PROVE  Goal
  <2>1. ChainStep /\ pc \in Chain
    BY <1>15, ChainStepHolds
  <2>2. UNCHANGED deploy /\ L' = L /\ Refund = 0
    BY <1>5, <2>1 DEF ChainStep, L, Chain
  <2>3. C' = C /\ IsFiniteSet(Requested')
    BY <1>1, <2>2
  <2>4. PICK k \in {0, 1} : stale' = stale + k
    BY <1>0, <2>1 DEF ChainStep
  <2>5. CASE faults' = faults + 1
    <3>1. Enough(0) /\ Enough(1)
      BY <1>0, <2>2, <2>3, <2>4, <2>5
    <3> QED
      BY <1>7, <2>3, <3>1
  <2>6. ASSUME faults' = faults, Debt' = 0 PROVE Goal
    <3>1. Enough(0)
      BY <1>0, <2>2, <2>3, <2>4, <2>6
    <3> QED
      BY <1>6, <2>3, <2>6, <3>1
  <2>7. CASE pc' = "idle" \/ pc' = "delete"
    BY <2>1, <2>5, <2>6, <2>7 DEF Debt, Chain, ChainStep
  <2>8. CASE faults' = faults /\ SameCopy /\ pc' = "update" /\ (rec'.status \in Opens => rec.status \in Opens)
    <3>1. ASSUME Live', rec'.status \in Opens PROVE rec'.name \notin Spent'
      <4>1. Live
        BY <2>2, <2>8, <3>1 DEF Live, SameCopy
      <4>2. deploy[rec.name].status \in Opens /\ ~deploy[rec.name].terminating
        BY <2>1, <2>8, <3>1, <4>1 DEF VersionInv, Chain
      <4> QED
        BY <2>2, <2>8, <4>2 DEF Spent, SameCopy
    <3>2. Debt' = 0
      BY <2>8, <3>1 DEF Debt, Chain
    <3> QED
      BY <2>6, <2>8, <3>2
  <2>9. CASE /\ faults' = faults /\ SameCopy /\ pc' \in Chain \ {"resolve"}
             /\ rec.status \in Opens /\ rec'.status \in Opens
    <3>1. Live' <=> Live
      BY <2>2, <2>9 DEF Live, SameCopy
    <3>2. Debt' = Debt
      BY <2>1, <2>9, <3>1 DEF Debt, Chain
    <3>3. Enough(Debt)
      BY <1>0, <2>2, <2>3, <2>4, <2>9
    <3> QED
      BY <1>6, <2>3, <3>2, <3>3
  <2> QED
    BY <2>1, <2>5, <2>7, <2>8, <2>9 DEF ChainStep
<1>16. ASSUME NEW o \in Outcomes, CreatePipelineRun(o) PROVE Goal
  <2>1. /\ UNCHANGED <<deploy, stale>> /\ pc = "create" /\ pc' = "update" /\ SameCopy
        /\ L' \in {L, L + 1} /\ Refund = 0
    BY <1>5, <1>16, CreateFields DEF L
  <2>2. Live' <=> Live
    BY <2>1 DEF Live, SameCopy
  <2>3. CASE ~Live
    <3>1. Debt = 1 /\ Debt' = 0
      BY <2>1, <2>2, <2>3 DEF Debt, Chain, VersionInv
    <3>2. PICK k \in {0, 1}, m \in {0, 1} : faults' = faults + k /\ L' = L + m
      BY <1>0, <1>16, <2>1, CreateFields
    <3>3. C' = C /\ IsFiniteSet(Requested') /\ stale' = stale
      BY <1>1, <2>1
    <3>4. Enough(0)
      BY <1>0, <2>1, <3>1, <3>2, <3>3
    <3> QED
      BY <1>6, <3>1, <3>3, <3>4
  <2>4. CASE Live
    <3>1. rec.status \in Opens /\ deploy[rec.name].status \in Opens /\ ~deploy[rec.name].terminating
      BY <2>1, <2>4 DEF VersionInv, Chain
    <3>2. rec'.name \notin Spent'
      BY <2>1, <3>1 DEF Spent, SameCopy
    <3>3. Debt' = 0 /\ (rec'.status = "running" => Refund' = 1)
      BY <2>1, <2>2, <2>4, <3>2 DEF Debt, Refund, Chain
    <3> QED
      BY <1>0, <1>1, <1>16, <2>1, <3>3, CreateFields
  <2> QED
    BY <2>3, <2>4
<1>17. ASSUME NEW o \in Outcomes, DeleteCDStageDeploy(o) PROVE Goal
  <2>1. UNCHANGED <<runs, stale>> /\ L' = L /\ pc = "delete" /\ Refund = 0 /\ rec.name \in Deploys
    BY <1>5, <1>17, DeleteFields DEF L
  <2>2. IsFiniteSet(Requested') /\ C' \in {C, C + 1}
    <3>1. CASE deploy' = deploy
      BY <1>1, <3>1
    <3>2. CASE OnlyChanges(rec.name) /\ deploy'[rec.name].status = "gone"
      <4>1. rec.name \in Spent'
        BY <2>1, <3>2 DEF Spent, Requested, Opens
      <4> QED
        BY <2>1, <3>2, <4>1, SpentChange DEF C
    <3> QED
      BY <1>17, <3>1, <3>2, DeleteFields
  <2>3. Debt = 0
    BY <2>1 DEF Debt, Chain
  <2>4. (faults' = faults /\ Debt' = 0) \/ faults' = faults + 1
    BY <1>4, <1>17, DeleteFields
  <2> QED
    BY <1>0, <2>1, <2>2, <2>3, <2>4
<1>18. ASSUME NEW o \in Outcomes, UpdateStatus(o) PROVE Goal
  <2>1. /\ UNCHANGED <<runs, stale>> /\ L' = L /\ pc = "update" /\ rec.name \in Deploys
        /\ Debt' = 0 /\ Refund' = 0
    BY <1>4, <1>18, UpdateFields DEF L
  <2>2. CASE deploy' = deploy /\ faults' = faults + 1
    BY <1>0, <1>1, <2>1, <2>2
  <2>3. CASE deploy' = deploy /\ faults' = faults /\ ~Live
    <3>1. Refund = 0
      BY <2>3 DEF Refund
    <3> QED
      BY <1>0, <1>1, <2>1, <2>3, <3>1
  <2>4. CASE /\ OnlyChanges(rec.name) /\ Live /\ faults' \in {faults, faults + 1}
             /\ deploy'[rec.name].status = rec.status
             /\ deploy'[rec.name].terminating = deploy[rec.name].terminating
    <3>1. ~deploy[rec.name].terminating /\ rec.status \in Opens \cup {"running"}
      BY <2>1, <2>4, Counts DEF VersionInv, DeployedBeforeGoneInv, Opens
    <3>2. rec.name \in Spent' <=> rec.status = "running"
      BY <2>1, <2>4, <3>1 DEF Spent, Requested, Opens
    <3>3. CASE rec.status = "running"
      <4>1. Refund = 1 <=> rec.name \notin Spent
        BY <2>1, <2>4, <3>3 DEF Refund
      <4>2. /\ IsFiniteSet(Requested')
            /\ (C' = C /\ rec.name \in Spent) \/ (C' = C + 1 /\ rec.name \notin Spent)
        BY <2>1, <2>4, <3>2, <3>3, SpentChange DEF C
      <4>3. L' = L /\ stale' = stale /\ faults' \in {faults, faults + 1} /\ Debt' = 0 /\ Refund' = 0
        BY <2>1, <2>4
      <4> QED
        BY <1>0, <4>1, <4>2, <4>3
    <3>4. CASE rec.status \in Opens
      <4>1. /\ Debt = 1 <=> rec.name \in Spent
            /\ Refund = 0
        BY <2>1, <2>4, <3>4 DEF Debt, Refund, Chain, Opens
      <4>2. /\ IsFiniteSet(Requested')
            /\ (C' = C - 1 /\ rec.name \in Spent) \/ (C' = C /\ rec.name \notin Spent)
        BY <2>1, <2>4, <3>2, <3>4, SpentChange DEF C, Opens
      <4>3. L' = L /\ stale' = stale /\ faults' \in {faults, faults + 1} /\ Debt' = 0 /\ Refund' = 0
        BY <2>1, <2>4
      <4> QED
        BY <1>0, <4>1, <4>2, <4>3
    <3> QED
      BY <3>1, <3>3, <3>4
  <2> QED
    BY <1>18, <2>2, <2>3, <2>4, UpdateFields
<1>19. Goal
  <2> HIDE DEF Goal
  <2> QED
    BY <1>10, <1>11, <1>12, <1>13, <1>14, <1>15, <1>16, <1>17, <1>18, StepKinds
<1> QED
  BY <1>19 DEF RunsInv, C, L

(***************************************************************************)
(* The theorem.                                                            *)
(***************************************************************************)

\* The versions and the account are in order at the start.
LEMMA AccountInit == Init => VersionInv /\ RunsInv
<1> SUFFICES ASSUME Init PROVE VersionInv /\ RunsInv
  OBVIOUS
<1>1. /\ \A d \in Deploys : deploy[d].status = "absent" /\ deploy[d].version = 0
      /\ cachedDeploy = deploy /\ pc = "idle" /\ runs = <<>> /\ faults = 0 /\ stale = 0
  BY DEF Init
<1>2. VersionInv
  BY <1>1 DEF VersionInv, Chain
<1>3. Requested = {} /\ Spent = {}
  BY <1>1 DEF Requested, Spent
<1>4. IsFiniteSet(Requested) /\ Cardinality(Spent) = 0
  BY <1>3, FS_EmptySet
<1>5. Debt = 0 /\ Refund = 0 /\ Len(runs) = 0
  BY <1>1 DEF Debt, Refund, Chain
<1> QED
  BY <1>1, <1>2, <1>4, <1>5 DEF RunsInv

\* There are no more spent resources than requested ones, and the one whose status is about to
\* be written is not spent yet.
LEMMA RunsAccountedForFollows == IndInv /\ RunsInv => RunsAccountedFor
<1> SUFFICES ASSUME IndInv, RunsInv PROVE RunsAccountedFor
  OBVIOUS
<1>1. /\ Cardinality(Spent) \in Nat /\ Cardinality(Requested) \in Nat
      /\ Cardinality(Spent) <= Cardinality(Requested)
  BY SpentCount, FS_CardinalityType DEF RunsInv
<1>2. /\ Len(runs) \in Nat /\ faults \in Nat /\ stale \in Nat
      /\ Debt \in {0, 1} /\ Refund \in {0, 1}
      /\ Len(runs) + Debt <= Cardinality(Spent) + faults + stale + Refund
  BY Counts DEF IndInv, RunsInv, Debt, Refund
<1>3. Len(runs) <= Cardinality(Requested) + faults + stale
  <2>1. CASE Refund = 0
    BY <1>1, <1>2, <2>1
  <2>2. CASE Refund = 1
    \* The resource of the update is not spent yet, so there are more requested than spent.
    <3>1. rec.name \in Requested \ Spent
      BY <2>2 DEF Refund, IndInv, TypeInv, InFlight, Known, Created, Requested
    <3>2. Cardinality(Spent) < Cardinality(Requested)
      <4>1. Spent \cup {rec.name} \subseteq Requested /\ IsFiniteSet(Requested) /\ IsFiniteSet(Spent)
        BY <3>1, SpentCount DEF Spent, RunsInv
      <4>2. Cardinality(Spent \cup {rec.name}) = Cardinality(Spent) + 1
        BY <3>1, <4>1, FS_AddElement
      <4>3. Cardinality(Spent \cup {rec.name}) <= Cardinality(Requested)
        BY <4>1, FS_Subset
      <4> QED
        BY <1>1, <4>2, <4>3
    <3> QED
      BY <1>1, <1>2, <2>2, <3>2
  <2> QED
    BY <1>2, <2>1, <2>2
<1> QED
  BY <1>3 DEF RunsAccountedFor, Requested

\* The controller never creates more PipelineRuns than there were CDStageDeploys, failed calls,
\* restarts and stale reads: no resource gets a second one without a reason, whatever the
\* order of retries, deletions and lost status updates.
THEOREM RunsArePaidFor == Spec => []RunsAccountedFor
<1> DEFINE Inv == IndInv /\ VersionInv /\ RunsInv
<1>1. Init => Inv
  BY IndInvInit, AccountInit
<1>2. Inv /\ [Next]_vars => Inv'
  <2>1. IndInv /\ [Next]_vars => IndInv'
    BY TypeStep, KnownStep, TagsGrowStep, RunsHaveReasonsStep, DeployedBeforeGoneStep,
       OneRunPerStageStep, NoOrphanRunStep, PayloadStep DEF IndInv
  <2> QED
    BY <2>1, VersionInvStep, RunsInvStep DEF IndInv
<1>3. Inv => RunsAccountedFor
  BY RunsAccountedForFollows
<1> QED
  BY <1>1, <1>2, <1>3, PTL DEF Spec

(***************************************************************************)
(* When nothing fails, the controller implements StageQueue.               *)
(***************************************************************************)

\* Nothing fails: no call, no restart, no stale read, and every stream has a tag.
Undisturbed == MaxFaults = 0 /\ MaxStale = 0 /\ \A a \in Apps : InitialTag[a] > 0

\* Every CDStageDeploy has one PipelineRun at most: once it has one, its status says so, or
\* the reconcile in flight is about to write it, and nobody but its owner gets in the way.
OnceInv ==
    /\ \A d \in Deploys : deploy[d].terminating => d \in Terminable
    /\ \A i, j \in DOMAIN runs : runs[i].by = runs[j].by => i = j
    /\ \A d \in Deploys : HasRun(d) /\ Present(deploy[d]) /\ ~deploy[d].terminating =>
          deploy[d].status = "running" \/ (pc = "update" /\ rec.name = d /\ rec.status = "running")
    /\ pc \in Chain \cup {"update"} /\ rec.status \in Opens => ~HasRun(rec.name)
    /\ pc # "idle" /\ Present(deploy[rec.name]) /\ ~deploy[rec.name].terminating => Live

\* When nothing can fail, nothing has.
LEMMA NothingFailed ==
    ASSUME Undisturbed, TypeInv
    PROVE  faults = 0 /\ stale = 0
BY DEF Undisturbed, TypeInv, TypeOK

\* A CDStageDeploy gets its PipelineRun from the creation of its reconcile only.
LEMMA HasRunStep ==
    ASSUME TypeInv, [Next]_vars, NEW d
    PROVE  /\ HasRun(d) => HasRun(d)'
           /\ HasRun(d)' => HasRun(d) \/ (d = rec.name /\ pc = "create" /\ pc' = "update")
BY RunsStep DEF HasRun, OldRun, NewRun

\* Steps keep the PipelineRuns at one for each CDStageDeploy.
LEMMA OnceStep ==
    ASSUME Undisturbed, TypeInv, Known, DeployedBeforeGoneInv, OneRunPerStageInv, VersionInv,
           OnceInv, [Next]_vars
    PROVE  OnceInv'
<1>0. TypeInv' /\ faults = 0 /\ stale = 0 /\ faults' = 0 /\ stale' = 0
  <2>1. TypeInv'
    BY TypeStep
  <2>2. faults' \in 0 .. MaxFaults /\ stale' \in 0 .. MaxStale
    BY <2>1 DEF TypeInv, TypeOK
  <2> QED
    BY <2>1, <2>2, NothingFailed DEF Undisturbed
<1>1. pc # "idle" => rec.name \in Deploys /\ Created(rec.name)
  BY DEF TypeInv, InFlight, Known
<1>2. \A i, j \in DOMAIN runs' : runs'[i].by = runs'[j].by => i = j
  <2> SUFFICES ASSUME NEW i \in DOMAIN runs', NEW j \in DOMAIN runs', runs'[i].by = runs'[j].by
               PROVE  i = j
    OBVIOUS
  <2>1. CASE OldRun(i) /\ OldRun(j)
    BY <2>1 DEF OldRun, OnceInv
  <2>2. CASE NewRun(i) /\ NewRun(j)
    BY <2>2 DEF NewRun
  <2>3. ASSUME NEW k, NEW l, NewRun(k), OldRun(l) PROVE runs'[k].by # runs'[l].by
    <3>1. ~HasRun(rec.name)
      BY <2>3 DEF NewRun, OnceInv, VersionInv, Chain
    <3> QED
      BY <2>3, <3>1 DEF NewRun, OldRun, HasRun
  <2> QED
    BY <2>1, <2>2, <2>3, RunsStep
<1> DEFINE Marked(d) == HasRun(d) /\ Present(deploy[d]) /\ ~deploy[d].terminating =>
                            \/ deploy[d].status = "running"
                            \/ pc = "update" /\ rec.name = d /\ rec.status = "running"
           Copy == /\ pc \in Chain \cup {"update"} /\ rec.status \in Opens => ~HasRun(rec.name)
                   /\ pc # "idle" /\ Present(deploy[rec.name]) /\ ~deploy[rec.name].terminating => Live
           Owned(d) == deploy[d].terminating => d \in Terminable
           Goal == (\A d \in Deploys : Owned(d)' /\ Marked(d)') /\ Copy'
<1>3. (\A d \in Deploys : Owned(d) /\ Marked(d)) /\ Copy
  BY DEF OnceInv
<1>4. ASSUME pc' = "idle" PROVE Copy'
  BY <1>4 DEF Chain
\* Steps that leave the PipelineRuns and the resource of the reconcile alone.
<1>5. ASSUME UNCHANGED <<runs, pc, rec>>,
             pc # "idle" => deploy'[rec.name] = deploy[rec.name]
      PROVE  Copy'
  BY <1>3, <1>5 DEF HasRun, Live, Chain
<1>6. ASSUME NEW s \in Stages, NEW a \in Apps, Request(s, a) PROVE Goal
  <2>1. /\ UNCHANGED <<runs, pc, rec>> /\ FreshName \in Deploys /\ ~Created(FreshName)
        /\ OnlyChanges(FreshName) /\ ~deploy'[FreshName].terminating
    BY <1>6, RequestFields DEF Created
  <2>2. ~HasRun(FreshName)
    BY <2>1 DEF HasRun, Known
  <2>3. \A d \in Deploys : Owned(d)' /\ Marked(d)'
    BY <1>3, <2>1, <2>2 DEF HasRun, OnlyChanges
  <2> QED
    BY <1>1, <1>5, <2>1, <2>3 DEF OnlyChanges
<1>7. ASSUME NEW e \in Deploys, Terminate(e) \/ Reap(e) PROVE Goal
  <2>1. /\ UNCHANGED <<runs, pc, rec>> /\ OnlyChanges(e) /\ deploy'[e].terminating /\ e \in Terminable
    BY <1>3, <1>7, TerminateFields, ReapFields DEF Terminate
  <2>2. \A d \in Deploys : Owned(d)' /\ Marked(d)'
    BY <1>3, <2>1 DEF HasRun, OnlyChanges
  <2>3. Copy'
    BY <1>1, <1>3, <2>1 DEF HasRun, Live, Chain, OnlyChanges
  <2> QED
    BY <2>2, <2>3
\* Steps that leave the resources alone, and do not end an update.
<1>8. ASSUME UNCHANGED <<deploy, runs>>, pc # "update" \/ UNCHANGED <<pc, rec>>
      PROVE  \A d \in Deploys : Owned(d)' /\ Marked(d)'
  BY <1>3, <1>8 DEF HasRun
<1>9. ASSUME Idles PROVE Goal
  <2>1. deploy' = deploy /\ UNCHANGED <<pc, rec>> /\ \A d : HasRun(d)' <=> HasRun(d)
    BY <1>0, <1>9, HasRunStep DEF Idles
  <2>2. \A d \in Deploys : Owned(d)' /\ Marked(d)'
    BY <1>3, <2>1
  <2>3. Copy'
    BY <1>3, <2>1 DEF Live, Chain
  <2> QED
    BY <2>2, <2>3
<1>10. ASSUME NEW d \in Deploys, Reconcile(d) PROVE Goal
  <2>1. UNCHANGED <<deploy, runs>> /\ pc = "idle"
    BY <1>10, ReconcileFields
  <2>2. \A e \in Deploys : Owned(e)' /\ Marked(e)'
    BY <1>8, <2>1
  <2>3. CASE UNCHANGED <<pc, rec>>
    BY <1>5, <2>1, <2>2, <2>3
  <2>4. CASE \E v : BeginsFrom(d, v)
    <3>1. PICK v : BeginsFrom(d, v)
      BY <2>4
    <3>2. v = deploy[d]
      BY <1>0, <3>1 DEF BeginsFrom
    <3>3. /\ Present(deploy[d]) /\ ~deploy[d].terminating /\ pc' \in {"trigger", "resolve"}
          /\ rec'.name = d /\ rec'.version = deploy[d].version /\ rec'.status = deploy[d].status
      BY <3>1, <3>2 DEF BeginsFrom
    <3>4. rec'.status \in Opens => ~HasRun(d)
      BY <1>3, <2>1, <3>3 DEF Opens
    <3>5. Copy'
      BY <2>1, <3>3, <3>4 DEF HasRun, Live
    <3> QED
      BY <2>2, <3>5
  <2> QED
    BY <1>10, <2>3, <2>4, ReconcileFields
<1>11. ASSUME NEW o \in Outcomes,
              ResolveStatus(o) \/ shouldStartCDStageDeploy(o) \/ ProcessTriggerTemplate(o)
       PROVE  Goal
  <2>1. ChainStep /\ pc \in Chain
    BY <1>11, ChainStepHolds
  <2>2. UNCHANGED <<deploy, runs>> /\ (pc' = "idle" \/ SameCopy)
        /\ (pc' \in Chain \cup {"update"} /\ rec'.status \in Opens => rec.status \in Opens)
    BY <2>1, <1>0 DEF ChainStep, Chain
  <2>3. \A d \in Deploys : Owned(d)' /\ Marked(d)'
    BY <1>8, <2>1, <2>2 DEF Chain
  <2>4. CASE SameCopy
    BY <1>3, <2>1, <2>2, <2>3, <2>4 DEF HasRun, Live, SameCopy, Chain
  <2> QED
    BY <1>4, <2>2, <2>3, <2>4
<1>12. ASSUME NEW o \in Outcomes, CreatePipelineRun(o) PROVE Goal
  <2>1. /\ deploy' = deploy /\ pc = "create" /\ pc' = "update" /\ SameCopy /\ rec'.status = "running"
    BY <1>0, <1>12, CreateFields
  <2>2. \A d \in Deploys : Owned(d)' /\ Marked(d)'
    BY <1>3, <2>1, HasRunStep DEF SameCopy
  <2>3. Copy'
    BY <1>3, <2>1 DEF Live, SameCopy, Chain, Opens
  <2> QED
    BY <2>2, <2>3
<1>13. ASSUME NEW o \in Outcomes, DeleteCDStageDeploy(o) PROVE Goal
  <2>1. pc = "delete" /\ pc' = "idle" /\ runs' = runs /\ rec.name \in Deploys
    BY <1>0, <1>13, DeleteFields
  <2>2. \A d \in Deploys : deploy'[d] = deploy[d] \/ (deploy'[d].status = "gone"
                                                      /\ deploy'[d].terminating = deploy[d].terminating)
    <3>1. deploy \in [Deploys -> DeployRecord] /\ \A d \in Deploys : deploy[d] \in DeployRecord
      BY Counts
    <3>2. deploy' = deploy \/ deploy' = [deploy EXCEPT ![rec.name].status = "gone"]
      BY <1>13 DEF DeleteCDStageDeploy
    <3> QED
      BY <2>1, <3>1, <3>2 DEF DeployRecord
  <2>3. \A d \in Deploys : Owned(d)' /\ Marked(d)'
    BY <1>3, <2>1, <2>2 DEF HasRun, Present
  <2> QED
    BY <1>4, <2>1, <2>3
<1>14. ASSUME NEW o \in Outcomes, UpdateStatus(o) PROVE Goal
  <2>1. pc = "update" /\ pc' = "idle" /\ runs' = runs /\ rec.name \in Deploys
    BY <1>14, UpdateFields
  <2>2. CASE deploy' = deploy /\ ~Live
    BY <1>3, <1>4, <2>1, <2>2 DEF HasRun
  <2>3. CASE /\ OnlyChanges(rec.name) /\ Live
             /\ deploy'[rec.name].status = rec.status
             /\ deploy'[rec.name].terminating = deploy[rec.name].terminating
    <3>1. HasRun(rec.name) => rec.status = "running"
      <4>1. rec.status \in Opens \cup {"running"}
        BY <2>1, Counts DEF DeployedBeforeGoneInv, Opens
      <4> QED
        BY <1>3, <2>1, <4>1
    <3>2. \A d \in Deploys : Owned(d)' /\ Marked(d)'
      BY <1>3, <2>1, <2>3, <3>1 DEF HasRun, OnlyChanges
    <3> QED
      BY <1>4, <2>1, <3>2
  <2> QED
    BY <1>0, <1>14, <2>2, <2>3, UpdateFields
<1>15. Goal
  <2> HIDE DEF Goal
  <2> QED
    BY <1>6, <1>7, <1>9, <1>10, <1>11, <1>12, <1>13, <1>14, StepKinds
<1> QED
  BY <1>2, <1>15 DEF OnceInv

\* What the steps do to the abstract state.
absStage == [d \in Deploys |-> deploy[d].stage]

LEMMA SameRequests ==
    ASSUME \A d \in Deploys : /\ deploy'[d].status = "absent" <=> deploy[d].status = "absent"
                              /\ Present(deploy'[d]) <=> Present(deploy[d])
    PROVE  abstractRequest' = abstractRequest
BY DEF abstractRequest

LEMMA SameWork ==
    ASSUME runs' = runs
    PROVE  abstractWork' = abstractWork
BY DEF abstractWork, RunsOf

\* The work of a CDStageDeploy with one PipelineRun is that PipelineRun's.
LEMMA WorkValues ==
    ASSUME NEW d \in Deploys
    PROVE  /\ abstractWork[d] = "none" <=> ~HasRun(d)
           /\ abstractWork[d] = "active" <=> \E i \in DOMAIN runs : runs[i].by = d /\ runs[i].active
           /\ abstractWork[d] = "complete" <=> HasRun(d) /\ Finished(d)
           /\ abstractWork[d] \in {"none", "active", "complete"}
BY DEF abstractWork, RunsOf, HasRun, Finished

\* A step of the controller and its environment is a step of the queue, or changes nothing
\* that the queue speaks of.
LEMMA QueueStep ==
    ASSUME Undisturbed, IndInv, VersionInv, OnceInv, [Next]_vars, TypeInv'
    PROVE  [Queue!Next]_(Queue!vars)
<1> USE DEF Queue!vars
<1>0. TypeInv /\ Known /\ DeployedBeforeGoneInv /\ OneRunPerStageInv /\ NoOrphanRunInv
  BY DEF IndInv
<1>1. faults = 0 /\ stale = 0 /\ faults' = 0 /\ stale' = 0
  <2>1. faults' \in 0 .. MaxFaults /\ stale' \in 0 .. MaxStale
    BY DEF TypeInv, TypeOK
  <2> QED
    BY <1>0, <2>1, NothingFailed DEF Undisturbed
<1>2. pc # "idle" => rec.name \in Deploys /\ Created(rec.name)
  BY <1>0 DEF TypeInv, InFlight, Known
<1>3. ASSUME UNCHANGED <<deploy, runs>> PROVE UNCHANGED Queue!vars
  BY <1>3 DEF abstractRequest, abstractWork, RunsOf
<1>4. \A i \in DOMAIN runs : runs[i] \in RunRecord /\ runs[i].by \in Deploys
  <2>1. \A i \in DOMAIN runs : runs[i] \in RunRecord
    BY <1>0 DEF TypeInv, TypeOK
  <2> QED
    BY <2>1 DEF RunRecord
<1>5. ASSUME NEW s \in Stages, NEW a \in Apps, Request(s, a) PROVE Queue!Next
  <2>1. PICK t : deploy' = [deploy EXCEPT ![FreshName] =
              [status |-> "pending", terminating |-> FALSE, stage |-> s,
               app |-> a, tag |-> tags[a], born |-> t, version |-> 1]]
    BY <1>5 DEF Request, CreateDeploy
  <2>2. /\ FreshName \in Deploys /\ deploy[FreshName].status = "absent" /\ OnlyChanges(FreshName)
        /\ deploy'[FreshName].status = "pending" /\ runs' = runs
    BY <1>0, <1>5, RequestFields
  <2>3. deploy'[FreshName].stage = s
    BY <1>0, <2>1, <2>2, Counts
  <2>4. abstractRequest[FreshName] = "absent"
    BY <2>2 DEF abstractRequest
  <2>5. abstractRequest' = [abstractRequest EXCEPT ![FreshName] = "open"]
    BY <2>2 DEF abstractRequest, OnlyChanges, Present
  <2>6. absStage' = [absStage EXCEPT ![FreshName] = s]
    BY <2>2, <2>3 DEF absStage, OnlyChanges
  <2>7. abstractWork' = abstractWork
    BY <2>2, SameWork
  <2>8. Queue!Open(FreshName, s)
    BY <2>4, <2>5, <2>6, <2>7 DEF Queue!Open, absStage
  <2> QED
    BY <2>2, <2>8 DEF Queue!Next
<1>6. ASSUME NEW d \in Deploys, Terminate(d) PROVE UNCHANGED Queue!vars
  <2>1. deploy[d] \in DeployRecord /\ deploy \in [Deploys -> DeployRecord]
    BY <1>0, Counts
  <2>2. \A e \in Deploys : deploy'[e].status = deploy[e].status /\ deploy'[e].stage = deploy[e].stage
    BY <1>6, <2>1 DEF Terminate, DeployRecord
  <2>3. abstractRequest' = abstractRequest
    BY <2>2, SameRequests DEF Present
  <2>4. absStage' = absStage /\ abstractWork' = abstractWork
    BY <1>6, <2>2, SameWork DEF absStage, Terminate
  <2> QED
    BY <2>3, <2>4 DEF absStage
<1>7. ASSUME NEW d \in Deploys, OnlyChanges(d), runs' = runs,
             Present(deploy[d]), deploy'[d].status = "gone", deploy'[d].stage = deploy[d].stage,
             \/ d \in Terminable
             \/ abstractWork[d] = "complete" \/ absStage[d] \in EmptyTemplate
      PROVE  Queue!Next
  <2>1. abstractRequest[d] = "open"
    BY <1>7 DEF abstractRequest, Present
  <2>2. abstractRequest' = [abstractRequest EXCEPT ![d] = "closed"]
    BY <1>7 DEF abstractRequest, OnlyChanges, Present
  <2>3. absStage' = absStage /\ abstractWork' = abstractWork
    BY <1>7, SameWork DEF absStage, OnlyChanges
  <2>4. Queue!Withdraw(d) \/ Queue!Close(d)
    BY <1>7, <2>1, <2>2, <2>3 DEF Queue!Withdraw, Queue!Close, absStage
  <2> QED
    BY <1>7, <2>4 DEF Queue!Next
<1>8. ASSUME NEW d \in Deploys, Reap(d) PROVE Queue!Next
  <2>1. deploy[d] \in DeployRecord /\ deploy \in [Deploys -> DeployRecord]
    BY <1>0, Counts
  <2>2. deploy'[d].stage = deploy[d].stage
    BY <1>8, <2>1 DEF Reap, DeployRecord
  <2>3. d \in Terminable
    BY <1>8 DEF Reap, OnceInv
  <2> QED
    BY <1>0, <1>7, <1>8, <2>2, <2>3, ReapFields
<1>9. ASSUME NEW i \in 1 .. MaxRuns, FinishRun(i) PROVE Queue!Next
  <2>1. /\ i \in DOMAIN runs /\ runs[i].active /\ runs' = [runs EXCEPT ![i].active = FALSE]
        /\ deploy' = deploy
    BY <1>9 DEF FinishRun
  <2> DEFINE d == runs[i].by
  <2>2. d \in Deploys
    BY <1>4, <2>1
  <2>3. /\ DOMAIN runs' = DOMAIN runs /\ ~runs'[i].active
        /\ \A j \in DOMAIN runs : runs'[j].by = runs[j].by /\ (j # i => runs'[j] = runs[j])
    BY <1>4, <2>1 DEF RunRecord
  <2>4. \A j \in DOMAIN runs : runs[j].by = d => j = i
    BY <2>1 DEF OnceInv
  <2>5. abstractWork[d] = "active"
    BY <2>1, <2>2, WorkValues
  <2>6. abstractWork' = [abstractWork EXCEPT ![d] = "complete"]
    <3>1. ASSUME NEW e \in Deploys PROVE abstractWork'[e] = IF e = d THEN "complete" ELSE abstractWork[e]
      BY <2>1, <2>3, <2>4 DEF abstractWork, RunsOf
    <3> QED
      BY <2>2, <3>1 DEF abstractWork
  <2>7. abstractRequest' = abstractRequest /\ absStage' = absStage
    BY <2>1 DEF abstractRequest, absStage
  <2>8. Queue!Complete(d)
    BY <2>5, <2>6, <2>7 DEF Queue!Complete, absStage
  <2> QED
    BY <2>2, <2>8 DEF Queue!Next
<1>10. ASSUME NEW o \in Outcomes, CreatePipelineRun(o) PROVE Queue!Next
  <2> DEFINE d == rec.name
             new == [by |-> rec.name, stage |-> RecStage, payload |-> rec.payload, active |-> TRUE]
  <2>1. /\ pc = "create" /\ deploy' = deploy /\ runs' = Append(runs, new)
        /\ d \in Deploys /\ Created(d)
    <3>1. o = "ok"
      BY <1>1, <1>10, OutcomeCounts DEF CreatePipelineRun
    <3> QED
      BY <1>2, <1>10, <3>1 DEF CreatePipelineRun
  <2>2. ~HasRun(d) /\ Quiet(RecStage) /\ RecStage \notin EmptyTemplate
    BY <1>0, <1>1, <2>1 DEF OnceInv, VersionInv, Chain, OneRunPerStageInv, IndInv, RunsHaveReasons
  <2>3. abstractRequest[d] # "absent" /\ abstractWork[d] = "none"
    BY <2>1, <2>2, WorkValues DEF abstractRequest, Created
  <2>4. ASSUME NEW q \in Deploys, deploy[q].stage = RecStage PROVE abstractWork[q] # "active"
    <3>1. \A i \in DOMAIN runs : runs[i].by = q => ~runs[i].active
      BY <1>0, <2>2, <2>4 DEF Known, Quiet
    <3> QED
      BY <3>1, WorkValues
  <2>5. abstractWork' = [abstractWork EXCEPT ![d] = "active"]
    <3>1. runs \in Seq(RunRecord) /\ new \in RunRecord
      BY <1>0, <2>1 DEF TypeInv, TypeOK, RecRecord, RunRecord, RecStage, DeployRecord
    <3>2. new.by = d /\ new.active
      OBVIOUS
    <3> HIDE DEF new
    <3>3. /\ DOMAIN runs' = DOMAIN runs \cup {Len(runs) + 1}
          /\ \A i \in DOMAIN runs : runs'[i] = runs[i]
          /\ runs'[Len(runs) + 1].by = d /\ runs'[Len(runs) + 1].active
      BY <2>1, <3>1, <3>2, AppendRun
    <3>4. ASSUME NEW e \in Deploys PROVE abstractWork'[e] = IF e = d THEN "active" ELSE abstractWork[e]
      BY <3>3 DEF abstractWork, RunsOf
    <3> QED
      BY <2>1, <3>4 DEF abstractWork
  <2>6. abstractRequest' = abstractRequest /\ absStage' = absStage /\ absStage[d] = RecStage
    BY <2>1 DEF abstractRequest, absStage, RecStage
  <2>7. Queue!Start(d)
    BY <2>2, <2>3, <2>4, <2>5, <2>6 DEF Queue!Start, absStage
  <2> QED
    BY <2>1, <2>7 DEF Queue!Next
<1>11. ASSUME NEW o \in Outcomes, DeleteCDStageDeploy(o) PROVE [Queue!Next]_(Queue!vars)
  <2>1. pc = "delete" /\ runs' = runs /\ rec.name \in Deploys
    BY <1>0, <1>11, DeleteFields
  <2>2. deploy[rec.name] \in DeployRecord /\ deploy \in [Deploys -> DeployRecord]
    BY <1>0, <2>1, Counts
  <2>3. \/ deploy' = deploy
        \/ /\ OnlyChanges(rec.name) /\ deploy'[rec.name].status = "gone"
           /\ deploy'[rec.name].stage = deploy[rec.name].stage
    BY <1>11, <2>1, <2>2 DEF DeleteCDStageDeploy, OnlyChanges, DeployRecord
  <2>4. CASE deploy' = deploy
    BY <1>3, <2>1, <2>4
  <2>5. CASE /\ OnlyChanges(rec.name) /\ deploy'[rec.name].status = "gone"
             /\ deploy'[rec.name].stage = deploy[rec.name].stage
             /\ Present(deploy[rec.name])
    <3>1. Finished(rec.name) /\ (HasRun(rec.name) \/ NothingToDeploy(rec.name))
      BY <1>0, <1>1, <2>1 DEF NoOrphanRunInv, DeployedBeforeGoneInv
    <3>2. ~\E a \in Apps : InitialTag[a] = 0
      BY ConstantsAssumption DEF Undisturbed
    <3>3. abstractWork[rec.name] = "complete" \/ absStage[rec.name] \in EmptyTemplate
      BY <2>1, <3>1, <3>2, WorkValues DEF NothingToDeploy, absStage
    <3> QED
      BY <1>7, <2>1, <2>5, <3>3
  <2>6. CASE /\ OnlyChanges(rec.name) /\ deploy'[rec.name].status = "gone"
             /\ deploy'[rec.name].stage = deploy[rec.name].stage
             /\ ~Present(deploy[rec.name])
    <3>1. deploy[rec.name].status = "gone"
      BY <1>2, <2>1, <2>6 DEF Present, Created
    <3>2. abstractRequest' = abstractRequest
      BY <2>1, <2>6, <3>1, SameRequests DEF OnlyChanges, Present
    <3>3. absStage' = absStage /\ abstractWork' = abstractWork
      BY <2>1, <2>6, SameWork DEF absStage, OnlyChanges
    <3> QED
      BY <3>2, <3>3 DEF absStage
  <2> QED
    BY <2>3, <2>4, <2>5, <2>6
<1>12. ASSUME NEW o \in Outcomes, UpdateStatus(o) PROVE UNCHANGED Queue!vars
  <2>1. pc = "update" /\ runs' = runs /\ rec.name \in Deploys
    BY <1>0, <1>12, UpdateFields
  <2>2. deploy[rec.name] \in DeployRecord /\ deploy \in [Deploys -> DeployRecord]
    BY <1>0, <2>1, Counts
  <2>3. CASE deploy' = deploy
    BY <1>3, <2>1, <2>3
  <2>4. CASE deploy' # deploy
    <3>1. /\ Present(deploy[rec.name])
          /\ deploy' = [deploy EXCEPT ![rec.name].status = rec.status, ![rec.name].version = @ + 1]
      BY <1>12, <2>4 DEF UpdateStatus
    <3>2. /\ OnlyChanges(rec.name) /\ deploy'[rec.name].status = rec.status
          /\ deploy'[rec.name].stage = deploy[rec.name].stage
      BY <2>1, <2>2, <3>1 DEF OnlyChanges, DeployRecord
    <3>3. rec.status \notin {"absent", "gone"}
      BY <1>0, Counts
    <3>4. abstractRequest' = abstractRequest
      BY <2>1, <3>1, <3>2, <3>3, SameRequests DEF OnlyChanges, Present
    <3>5. absStage' = absStage /\ abstractWork' = abstractWork
      BY <2>1, <3>2, SameWork DEF absStage, OnlyChanges
    <3> QED
      BY <3>4, <3>5 DEF absStage
  <2> QED
    BY <2>3, <2>4
<1>13. ASSUME NEW d \in Deploys, Reconcile(d) PROVE UNCHANGED Queue!vars
  BY <1>0, <1>3, <1>13, ReconcileFields
<1>14. ASSUME NEW o \in Outcomes,
              ResolveStatus(o) \/ shouldStartCDStageDeploy(o) \/ ProcessTriggerTemplate(o)
       PROVE  UNCHANGED Queue!vars
  BY <1>0, <1>3, <1>14, ChainStepHolds DEF ChainStep
<1>15. ASSUME (\E a \in Apps : PushTag(a)) \/ SyncDeploys \/ SyncRuns \/ Restart \/ UNCHANGED vars
       PROVE  UNCHANGED Queue!vars
  <2>1. UNCHANGED <<deploy, runs>>
    BY <1>15 DEF PushTag, SyncDeploys, SyncRuns, Restart, vars, clusterVars
  <2> QED
    BY <1>3, <2>1
<1> HIDE DEF Queue!vars
<1> QED
  BY <1>5, <1>6, <1>8, <1>9, <1>10, <1>11, <1>12, <1>13, <1>14, <1>15
     DEF Next, Controller, Step, Environment

\* At the start there is no PipelineRun.
LEMMA OnceInit == Init => OnceInv
<1> SUFFICES ASSUME Init PROVE OnceInv
  OBVIOUS
<1>1. /\ \A d \in Deploys : deploy[d].status = "absent" /\ deploy[d].terminating = FALSE
      /\ pc = "idle" /\ runs = <<>>
  BY DEF Init
<1> QED
  BY <1>1 DEF OnceInv, Chain, Present, HasRun

\* The initial states are initial states of the queue.
LEMMA QueueInit == Init => Queue!Init
<1> SUFFICES ASSUME Init PROVE Queue!Init
  OBVIOUS
<1>1. \A d \in Deploys : deploy[d].status = "absent" /\ deploy[d].stage \in Stages
  BY ConstantsAssumption DEF Init
<1>2. runs = <<>>
  BY DEF Init
<1>3. abstractRequest = [d \in Deploys |-> "absent"]
  BY <1>1 DEF abstractRequest
<1>4. abstractWork = [d \in Deploys |-> "none"]
  BY <1>2 DEF abstractWork, RunsOf
<1> QED
  BY <1>1, <1>3, <1>4 DEF Queue!Init

\* When nothing fails, the controller implements the abstract queue, for any number of requests
\* and stages, with equal timestamps and withdrawn requests: each CDStageDeploy gets one PipelineRun,
\* one at a time per stage, and is removed when that has completed. Liveness is left to the runs.
THEOREM QueueImplemented == Undisturbed => (Spec => Queue!Spec)
<1> SUFFICES ASSUME Undisturbed PROVE Spec => Queue!Spec
  OBVIOUS
<1> DEFINE Inv == IndInv /\ VersionInv /\ OnceInv
<1>1. Init => Inv
  BY IndInvInit, AccountInit, OnceInit
<1>2. Inv /\ [Next]_vars => Inv'
  <2>1. IndInv /\ [Next]_vars => IndInv'
    BY TypeStep, KnownStep, TagsGrowStep, RunsHaveReasonsStep, DeployedBeforeGoneStep,
       OneRunPerStageStep, NoOrphanRunStep, PayloadStep DEF IndInv
  <2> QED
    BY <2>1, VersionInvStep, OnceStep DEF IndInv
<1>3. Inv /\ Inv' /\ [Next]_vars => [Queue!Next]_(Queue!vars)
  BY QueueStep DEF IndInv
<1> QED
  BY <1>1, <1>2, <1>3, QueueInit, PTL DEF Spec, Queue!Spec
=============================================================================
