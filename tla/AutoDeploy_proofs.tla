-------------------------- MODULE AutoDeploy_proofs --------------------------
(***************************************************************************)
(* Proofs about auto-deployment: the CodebaseImageStream controller and    *)
(* the CDStageDeploy controller together, for any streams, labels and      *)
(* stages, and any number of pushes, faults, restarts and stale reads.     *)
(***************************************************************************)
EXTENDS AutoDeploy, CDStageDeployRuns_proofs

(***************************************************************************)
(* The inductive invariants.                                               *)
(***************************************************************************)

CisType == cisQueue \subseteq Apps /\ cisPc \in {"idle", "check", "create"} /\ cis \in CisRecord

\* The reconcile in flight has a tag that the stream has reached, and has taken the label it
\* handles from those that are left.
CisInv ==
    /\ cisPc # "idle" => cis.tag <= tags[cis.app]
    /\ cisPc = "create" => cis.stage \notin cis.todo

\* Between the count and the creation, an Auto stage has room for one more.
BoundInv ==
    /\ \A s \in Stages : IsFiniteSet(ofStage(deploy, s))
    /\ stale = 0 =>
          /\ \A s \in AutoStages : Cardinality(ofStage(deploy, s)) <= 2
          /\ cisPc = "create" /\ cis.stage \in AutoStages => Cardinality(ofStage(deploy, cis.stage)) <= 1

\* The CDStageDeploys ever created for a stage and an application, and those that the queue
\* and the reconcile in flight may still create.
RequestsOf(s, a) ==
    {d \in Deploys : deploy[d].status # "absent" /\ deploy[d].stage = s /\ deploy[d].app = a}
Waiting(s, a) == IF a \in cisQueue /\ s \in Labels[a] THEN 1 ELSE 0
Working(s, a) ==
    IF cisPc # "idle" /\ cis.app = a /\ (s \in cis.todo \/ (cisPc = "create" /\ cis.stage = s))
    THEN 1 ELSE 0

\* What was and may be created is paid for by a push or by a fault.
RequestInv ==
    \A s \in Stages, a \in Apps :
        /\ IsFiniteSet(RequestsOf(s, a))
        /\ Cardinality(RequestsOf(s, a)) + Waiting(s, a) + Working(s, a) + InitialTag[a]
              <= tags[a] + faults

AutoInv == IndInv /\ CisType /\ CisInv /\ BoundInv /\ RequestInv /\ VersionInv /\ RunsInv

(***************************************************************************)
(* What a step does.                                                       *)
(***************************************************************************)

\* The steps that are steps of the CDStageDeploy controller's specification.
Shared == Unaffected \/ (\E a \in Apps : PushTag(a)) \/ Restart \/ UNCHANGED vars

\* They are.
LEMMA SharedIsNext == Shared => [Next]_vars
BY DEF Shared, Unaffected, Next, Environment

\* Every step is one of those, the count of a stage's CDStageDeploys, or a creation.
LEMMA AutoSteps ==
    ASSUME [AutoNext]_allVars
    PROVE  \/ Shared /\ (cisPc' # "create" \/ UNCHANGED <<cisPc, cis>>)
           \/ \E s \in Stages, o \in Outcomes : CheckLabel(s, o)
           \/ \E o \in Outcomes : PutCDStageDeploy(o)
BY DEF AutoNext, CisStep, TagEvent, ReconcileImageStream, AllLabelsDone, RestartAll, Shared,
       allVars, cisVars

\* The empty local variables of the stream controller have their type.
LEMMA NoCisType == NoCis \in CisRecord
<1>1. (CHOOSE s \in Stages : TRUE) \in Stages /\ (CHOOSE a \in Apps : TRUE) \in Apps
  BY ConstantsAssumption
<1>2. 0 \in 0 .. MaxTag /\ {} \in SUBSET Stages
  BY ConstantsAssumption
<1> QED
  BY <1>1, <1>2 DEF NoCis, CisRecord

\* A call may fail, which is counted.
LEMMA FaultsGrow ==
    ASSUME TypeInv, NEW o, Outcome(o)
    PROVE  /\ faults' \in 0 .. MaxFaults /\ faults \in Nat /\ faults' \in Nat
           /\ o = "ok" => faults' = faults
           /\ o # "ok" => faults' = faults + 1
           /\ faults' = 0 => faults = 0
<1>1. faults \in 0 .. MaxFaults /\ MaxFaults \in Nat
  BY ConstantsAssumption DEF TypeInv, TypeOK
<1> QED
  BY <1>1 DEF Outcome

\* A count of the CDStageDeploys leaves the cluster alone; it reads them as they are, or
\* the stale read is counted.
LEMMA CheckFields ==
    ASSUME TypeInv, NEW s \in Stages, NEW o, CheckLabel(s, o)
    PROVE  /\ UNCHANGED <<deploy, runs, tags, clock, cachedRuns, queue, pc, rec>>
           /\ cachedDeploy' \in {deploy, cachedDeploy}
           /\ stale' \in 0 .. MaxStale /\ (stale' = 0 => stale = 0) /\ stale <= stale'
           /\ Outcome(o) /\ cisPc = "check" /\ s \in cis.todo
           /\ \/ o # "ok" /\ CisFails
              \/ /\ o = "ok" /\ cis' = [cis EXCEPT !.todo = cis.todo \ {s}, !.stage = s]
                 /\ cisQueue' = cisQueue /\ cisPc' \in {"check", "create"}
                 /\ stale' = 0 /\ s \in AutoStages /\ cisPc' = "create"
                       => ~(Cardinality(ofStage(deploy, s)) >= 2)
<1>0. stale \in 0 .. MaxStale /\ MaxStale \in Nat
  BY ConstantsAssumption DEF TypeInv, TypeOK
<1>1. PICK view \in {deploy, cachedDeploy} :
         /\ \/ (s \in AutoStages => view = deploy) /\ stale' = stale
            \/ stale < MaxStale /\ stale' = stale + 1
         /\ cachedDeploy' = IF stale < MaxStale THEN view ELSE cachedDeploy
         /\ \/ o = "error" /\ CisFails
            \/ /\ o = "ok"
               /\ cis' = [cis EXCEPT !.todo = cis.todo \ {s}, !.stage = s]
               /\ cisPc' = IF skipCDStageDeployCreation(view, s) THEN "check" ELSE "create"
               /\ cisQueue' = cisQueue
  BY DEF CheckLabel, ReadDeploys, Read
<1>2. /\ stale' \in 0 .. MaxStale /\ (stale' = 0 => stale = 0) /\ stale <= stale'
      /\ stale' = 0 /\ s \in AutoStages => view = deploy
  BY <1>0, <1>1
<1>3. cachedDeploy' \in {deploy, cachedDeploy}
  BY <1>1
<1>4. ASSUME o = "ok", stale' = 0, s \in AutoStages, cisPc' = "create"
      PROVE  ~(Cardinality(ofStage(deploy, s)) >= 2)
  <2>1. view = deploy
    BY <1>2, <1>4
  <2>2. ~skipCDStageDeployCreation(view, s)
    BY <1>1, <1>4
  <2> QED
    BY <1>4, <2>1, <2>2 DEF skipCDStageDeployCreation
<1> QED
  BY <1>1, <1>2, <1>3, <1>4 DEF CheckLabel, clusterVars

\* A creation adds one CDStageDeploy with a new name, or none.
Adds(s, a, n) ==
    /\ FreshName \in Deploys /\ deploy[FreshName].status = "absent"
    /\ deploy'[FreshName].status = "pending" /\ deploy'[FreshName].stage = s
    /\ deploy'[FreshName].app = a /\ deploy'[FreshName].tag = n
    /\ deploy'[FreshName].version = 1 /\ ~deploy'[FreshName].terminating
    /\ \A d \in Deploys \ {FreshName} : deploy'[d] = deploy[d]

LEMMA PutFields ==
    ASSUME TypeInv, CisType, NEW o, PutCDStageDeploy(o)
    PROVE  /\ UNCHANGED <<runs, tags, cachedDeploy, cachedRuns, pc, rec, stale>>
           /\ deploy' \in [Deploys -> DeployRecord] /\ clock' \in Nat /\ queue' \subseteq Deploys
           /\ Outcome(o) /\ cisPc = "create"
           /\ deploy' = deploy \/ Adds(cis.stage, cis.app, cis.tag)
           /\ \/ o # "ok" /\ CisFails
              \/ o = "ok" /\ cisPc' = "check" /\ cisQueue' = cisQueue /\ cis' = cis
<1>1. cis.stage \in Stages /\ cis.app \in Apps /\ cis.tag \in 0 .. MaxTag
  BY DEF CisType, CisRecord
<1>2. CASE o = "error"
  BY <1>2 DEF PutCDStageDeploy, cacheVars, TypeInv, TypeOK
<1>3. CASE o # "error"
  <2>1. CreateDeploy(cis.stage, cis.app, cis.tag)
    BY <1>3 DEF PutCDStageDeploy
  <2>2. deploy' \in [Deploys -> DeployRecord] /\ clock' \in Nat /\ queue' \subseteq Deploys
    BY <1>1, <2>1, CreateDeployType DEF TypeInv
  <2>3. FreshName \in Deploys /\ deploy[FreshName].status = "absent"
    BY <2>1, FreshNameIsFresh DEF CreateDeploy
  <2>4. PICK t : deploy' = [deploy EXCEPT ![FreshName] =
              [status |-> "pending", terminating |-> FALSE, stage |-> cis.stage,
               app |-> cis.app, tag |-> cis.tag, born |-> t, version |-> 1]]
    BY <2>1 DEF CreateDeploy
  <2>5. deploy \in [Deploys -> DeployRecord]
    BY DEF TypeInv, TypeOK
  <2>6. Adds(cis.stage, cis.app, cis.tag)
    BY <2>3, <2>4, <2>5 DEF Adds
  <2> QED
    BY <2>2, <2>6 DEF PutCDStageDeploy, cacheVars
<1> QED
  BY <1>2, <1>3

(***************************************************************************)
(* The invariant of the CDStageDeploy controller holds in the composition. *)
(***************************************************************************)

\* The stream controller's read of the cache keeps it.
LEMMA CheckKeepsInv ==
    ASSUME IndInv, NEW s \in Stages, NEW o, CheckLabel(s, o)
    PROVE  IndInv'
<1>0. TypeInv
  BY DEF IndInv
<1>1. /\ UNCHANGED <<deploy, runs, tags, clock, cachedRuns, queue, pc, rec>>
      /\ cachedDeploy' \in {deploy, cachedDeploy}
      /\ stale' \in 0 .. MaxStale /\ (stale' = 0 => stale = 0)
      /\ faults' \in 0 .. MaxFaults /\ (faults' = 0 => faults = 0)
  BY <1>0, CheckFields, FaultsGrow
<1>2. TypeInv'
  BY <1>0, <1>1 DEF TypeInv, TypeOK, InFlight
<1>3. Known' /\ TagsGrow' /\ RunsHaveReasons'
  BY <1>1 DEF IndInv, Known, TagsGrow, RunsHaveReasons, Created, RecStage
<1>4. DeployedBeforeGoneInv'
  BY <1>1 DEF IndInv, DeployedBeforeGoneInv, HasRun, NothingToDeploy
<1>5. OneRunPerStageInv'
  BY <1>1 DEF IndInv, OneRunPerStageInv, Quiet, RecStage
<1>6. NoOrphanRunInv' /\ PayloadInv'
  BY <1>1 DEF IndInv, NoOrphanRunInv, Deleted, Finished, PayloadInv, Covers
<1> QED
  BY <1>2, <1>3, <1>4, <1>5, <1>6 DEF IndInv

\* So does a creation: nothing mentions the new CDStageDeploy yet, and its tag is one that
\* the stream has reached, although newer ones may have been pushed since it was read.
LEMMA PutKeepsInv ==
    ASSUME IndInv, CisType, CisInv, NEW o, PutCDStageDeploy(o)
    PROVE  IndInv'
<1>0. TypeInv
  BY DEF IndInv
<1>1. /\ UNCHANGED <<runs, tags, cachedDeploy, cachedRuns, pc, rec, stale>>
      /\ deploy' \in [Deploys -> DeployRecord] /\ clock' \in Nat /\ queue' \subseteq Deploys
      /\ faults' \in 0 .. MaxFaults /\ (faults' = 0 => faults = 0)
      /\ deploy' = deploy \/ Adds(cis.stage, cis.app, cis.tag)
  BY <1>0, PutFields, FaultsGrow
<1>2. TypeInv'
  BY <1>0, <1>1 DEF TypeInv, TypeOK, InFlight
<1>3. \A d \in Deploys : \/ deploy'[d] = deploy[d]
                         \/ /\ ~Created(d) /\ deploy'[d].status = "pending"
                            /\ deploy'[d].tag <= tags[deploy'[d].app]
  BY <1>0, <1>1, PutFields DEF Adds, Created, CisInv
<1>4. \A d \in Deploys : Created(d) => deploy'[d] = deploy[d]
  BY <1>3
<1>5. pc # "idle" => rec.name \in Deploys /\ deploy'[rec.name] = deploy[rec.name]
  BY <1>4 DEF IndInv, Known, TypeInv, InFlight
<1>6. \A i \in DOMAIN runs : runs[i].by \in Deploys /\ deploy'[runs[i].by] = deploy[runs[i].by]
  <2>1. \A i \in DOMAIN runs : runs[i] \in RunRecord
    BY <1>0 DEF TypeInv, TypeOK
  <2> QED
    BY <2>1, <1>4 DEF IndInv, Known, RunRecord
<1>7. Known'
  BY <1>1, <1>3, <1>5, <1>6 DEF IndInv, Known, Created
<1>8. TagsGrow'
  BY <1>1, <1>3 DEF IndInv, TagsGrow, Created
<1>9. RunsHaveReasons'
  BY <1>1, <1>5 DEF IndInv, RunsHaveReasons, RecStage
<1>10. DeployedBeforeGoneInv'
  <2>1. \A d \in Deploys : /\ deploy'[d].status # "completed"
                           /\ deploy'[d].status = "running" => HasRun(d)
                           /\ deploy'[d].status = "gone" => deploy'[d] = deploy[d]
    BY <1>3 DEF IndInv, DeployedBeforeGoneInv
  <2> QED
    BY <1>1, <1>5, <2>1 DEF IndInv, DeployedBeforeGoneInv, HasRun, NothingToDeploy
<1>11. OneRunPerStageInv'
  BY <1>1, <1>3, <1>5 DEF IndInv, OneRunPerStageInv, Quiet, RecStage
<1>12. NoOrphanRunInv'
  <2>1. \A d \in Deploys : Deleted(d)' => Deleted(d)
    BY <1>3 DEF Deleted
  <2> QED
    BY <1>1, <1>5, <2>1 DEF IndInv, NoOrphanRunInv, Deleted, Finished
<1>13. PayloadInv'
  BY <1>1, <1>5, <1>6 DEF IndInv, PayloadInv, Covers
<1> QED
  BY <1>2, <1>7, <1>8, <1>9, <1>10, <1>11, <1>12, <1>13 DEF IndInv

\* And so does every other step, which the CDStageDeploy controller could see alone too.
LEMMA AutoKeepsInv ==
    ASSUME IndInv, CisType, CisInv, [AutoNext]_allVars
    PROVE  IndInv'
<1>1. CASE Shared
  BY <1>1, SharedIsNext, TypeStep, KnownStep, TagsGrowStep, RunsHaveReasonsStep,
     DeployedBeforeGoneStep, OneRunPerStageStep, NoOrphanRunStep, PayloadStep DEF IndInv
<1> QED
  BY <1>1, AutoSteps, CheckKeepsInv, PutKeepsInv

(***************************************************************************)
(* So does the account of the PipelineRuns.                                *)
(***************************************************************************)

\* The stream controller makes no PipelineRun and no new version of a CDStageDeploy that
\* a reconcile has in hand; its failed calls and stale reads only add to the credit.
LEMMA AccountKept ==
    ASSUME IndInv, VersionInv, RunsInv, UNCHANGED <<runs, pc, rec>>,
           faults' \in Nat, stale' \in Nat, faults <= faults', stale <= stale',
           \/ deploy' = deploy /\ cachedDeploy' \in {deploy, cachedDeploy}
           \/ cachedDeploy' = cachedDeploy /\ \E s, a, n : Adds(s, a, n)
    PROVE  VersionInv' /\ RunsInv'
<1>0. TypeInv /\ (pc # "idle" => rec.name \in Deploys /\ deploy[rec.name].status # "absent")
  BY DEF IndInv, TypeInv, InFlight, Known, Created
<1>1. \A d \in Deploys : deploy[d].version \in Nat /\ cachedDeploy[d].version \in Nat
  BY <1>0, Counts
<1>2. pc # "idle" => deploy'[rec.name] = deploy[rec.name]
  BY <1>0 DEF Adds
<1>3. Debt' = Debt /\ Refund' = Refund /\ (pc # "idle" => (Live' <=> Live))
  BY <1>0, <1>2, SameTerms DEF Live
<1>4. VersionInv'
  <2>1. ASSUME NEW d \in Deploys
        PROVE  /\ deploy'[d].status = "absent" => deploy'[d].version = 0
               /\ cachedDeploy'[d].version <= deploy'[d].version
               /\ cachedDeploy'[d].version = deploy'[d].version /\ Present(deploy'[d])
                     => cachedDeploy'[d] = deploy'[d]
    <3>1. CASE deploy'[d] = deploy[d]
      BY <1>1, <2>1, <3>1 DEF VersionInv
    <3>2. CASE /\ cachedDeploy' = cachedDeploy /\ deploy[d].status = "absent"
               /\ deploy'[d].status = "pending" /\ deploy'[d].version = 1
      BY <1>1, <2>1, <3>2 DEF VersionInv
    <3> QED
      BY <3>1, <3>2 DEF Adds
  <2>2. /\ pc # "idle" => rec.version <= deploy[rec.name].version
        /\ pc # "idle" /\ Live => ~deploy[rec.name].terminating
        /\ pc \in Chain /\ Live => (rec.status \in Opens <=> deploy[rec.name].status \in Opens)
        /\ pc \in Chain \ {"resolve"} => rec.status \in Opens
    BY DEF VersionInv
  <2>3. pc \in Chain => pc # "idle"
    BY DEF Chain
  <2> QED
    BY <1>2, <1>3, <2>1, <2>2, <2>3 DEF VersionInv
<1>5. IsFiniteSet(Requested') /\ Cardinality(Spent') = Cardinality(Spent)
  <2>1. CASE deploy' = deploy
    BY <2>1 DEF Requested, Spent, RunsInv
  <2>2. CASE \E s, a, n : Adds(s, a, n)
    <3>1. FreshName \in Deploys /\ OnlyChanges(FreshName)
      BY <2>2 DEF Adds, OnlyChanges
    <3>2. FreshName \notin Spent /\ FreshName \notin Spent'
      BY <2>2 DEF Adds, Spent, Requested, Opens
    <3> QED
      BY <3>1, <3>2, SpentChange
  <2> QED
    BY <2>1, <2>2
<1>6. /\ Cardinality(Spent) \in Nat /\ Len(runs) \in Nat /\ faults \in Nat /\ stale \in Nat
      /\ Debt \in {0, 1} /\ Refund \in {0, 1}
      /\ Len(runs) + Debt <= Cardinality(Spent) + faults + stale + Refund
  BY <1>0, Counts, SpentCount DEF RunsInv, Debt, Refund
<1>7. Len(runs') + Debt' <= Cardinality(Spent') + faults' + stale' + Refund'
  BY <1>3, <1>5, <1>6
<1> QED
  BY <1>4, <1>5, <1>7 DEF RunsInv

\* Every step keeps it.
LEMMA AccountStep ==
    ASSUME IndInv, CisType, VersionInv, RunsInv, [AutoNext]_allVars
    PROVE  VersionInv' /\ RunsInv'
<1>0. TypeInv /\ stale \in Nat
  BY Counts DEF IndInv
<1>1. CASE Shared
  BY <1>1, SharedIsNext, VersionInvStep, RunsInvStep DEF IndInv
<1>2. ASSUME NEW s \in Stages, NEW o \in Outcomes, CheckLabel(s, o) PROVE VersionInv' /\ RunsInv'
  <2>1. /\ UNCHANGED <<runs, pc, rec>> /\ deploy' = deploy /\ cachedDeploy' \in {deploy, cachedDeploy}
        /\ stale' \in 0 .. MaxStale /\ stale <= stale' /\ Outcome(o)
    BY <1>0, <1>2, CheckFields
  <2>2. faults' \in Nat /\ faults <= faults' /\ stale' \in Nat
    BY <1>0, <2>1, FaultsGrow
  <2> QED
    BY <2>1, <2>2, AccountKept
<1>3. ASSUME NEW o \in Outcomes, PutCDStageDeploy(o) PROVE VersionInv' /\ RunsInv'
  <2>1. /\ UNCHANGED <<runs, cachedDeploy, pc, rec, stale>> /\ Outcome(o)
        /\ deploy' = deploy \/ \E s, a, n : Adds(s, a, n)
    BY <1>0, <1>3, PutFields
  <2>2. faults' \in Nat /\ faults <= faults' /\ stale' \in Nat /\ stale <= stale'
    BY <1>0, <2>1, FaultsGrow
  <2> QED
    BY <2>1, <2>2, AccountKept
<1> QED
  BY <1>1, <1>2, <1>3, AutoSteps

(***************************************************************************)
(* The stream controller's own state.                                      *)
(***************************************************************************)

\* What a step does to it: nothing, a push or a restart, the beginning and the end of a
\* reconcile, a label, a failure.
LEMMA CisSteps ==
    ASSUME TypeInv, CisType, [AutoNext]_allVars
    PROVE  \/ Shared /\ UNCHANGED cisVars /\ UNCHANGED tags
           \/ \E a \in Apps : TagEvent(a)
           \/ \E a \in Apps : ReconcileImageStream(a)
           \/ \E s \in Stages, o \in Outcomes : CheckLabel(s, o)
           \/ \E o \in Outcomes : PutCDStageDeploy(o)
           \/ cisPc = "check" /\ cisPc' = "idle" /\ cis' = NoCis /\ UNCHANGED <<vars, cisQueue>>
           \/ RestartAll
<1>1. Unaffected => UNCHANGED tags
  BY DEF Unaffected, Controller, Step, Reconcile, ResolveStatus, shouldStartCDStageDeploy,
     ProcessTriggerTemplate, CreatePipelineRun, DeleteCDStageDeploy, UpdateStatus, Terminate,
     Reap, FinishRun, SyncDeploys, SyncRuns, clusterVars
<1> QED
  BY <1>1 DEF AutoNext, CisStep, AllLabelsDone, Shared, allVars, vars, clusterVars

\* The local variables after the beginning of a reconcile.
LEMMA BeginFields ==
    ASSUME TypeInv, NEW a \in Apps, ReconcileImageStream(a)
    PROVE  /\ cis'.app = a /\ cis'.tag = tags[a] /\ cis'.todo = Labels[a] /\ cis' \in CisRecord
           /\ cisPc = "idle" /\ cisPc' = "check" /\ a \in cisQueue /\ cisQueue' = cisQueue \ {a}
           /\ UNCHANGED vars
<1>1. cis' = [NoCis EXCEPT !.app = a, !.tag = tags[a], !.todo = Labels[a]]
  BY DEF ReconcileImageStream
<1>2. tags[a] \in 0 .. MaxTag /\ Labels[a] \in SUBSET Stages
  BY LabelsAssumption DEF TypeInv, TypeOK, Payloads
<1>3. /\ cis'.app = a /\ cis'.tag = tags[a] /\ cis'.todo = Labels[a] /\ cis' \in CisRecord
  BY <1>1, <1>2, NoCisType DEF CisRecord
<1> QED
  BY <1>3 DEF ReconcileImageStream

\* The local variables after a label was taken.
LEMMA TakeFields ==
    ASSUME CisType, NEW s \in Stages, cis' = [cis EXCEPT !.todo = cis.todo \ {s}, !.stage = s]
    PROVE  /\ cis' \in CisRecord /\ cis'.app = cis.app /\ cis'.tag = cis.tag
           /\ cis'.todo = cis.todo \ {s} /\ cis'.stage = s
BY DEF CisType, CisRecord

\* A step of the stream controller keeps its types.
LEMMA CisTypeStep ==
    ASSUME TypeInv, CisType, [AutoNext]_allVars
    PROVE  CisType'
<1>1. cis.app \in Apps
  BY DEF CisType, CisRecord
<1>2. CisFails => CisType'
  BY <1>1, NoCisType DEF CisFails, CisType
<1>3. ASSUME NEW a \in Apps, TagEvent(a) PROVE CisType'
  BY <1>3 DEF TagEvent, CisType
<1>4. ASSUME NEW a \in Apps, ReconcileImageStream(a) PROVE CisType'
  BY <1>4, BeginFields DEF CisType
<1>5. ASSUME NEW s \in Stages, NEW o, CheckLabel(s, o) PROVE CisType'
  BY <1>2, <1>5, CheckFields, TakeFields DEF CisType
<1>6. ASSUME NEW o, PutCDStageDeploy(o) PROVE CisType'
  BY <1>2, <1>6 DEF PutCDStageDeploy, CisType
<1> QED
  BY <1>3, <1>4, <1>5, <1>6, NoCisType, CisSteps DEF CisType, RestartAll, cisVars

\* And what it knows: the tags of a stream never go back.
LEMMA CisInvStep ==
    ASSUME TypeInv, CisType, CisInv, [AutoNext]_allVars
    PROVE  CisInv'
<1>0. cis.app \in Apps /\ cis.tag \in Nat /\ \A a \in Apps : tags[a] \in Nat
  BY ConstantsAssumption DEF CisType, CisRecord, TypeInv, TypeOK, Payloads
<1>2. CisFails => CisInv'
  BY DEF CisFails, CisInv
<1>3. ASSUME NEW a \in Apps, TagEvent(a) PROVE CisInv'
  <2>1. tags[cis.app] <= tags'[cis.app]
    BY <1>0, <1>3 DEF TagEvent, PushTag, TypeInv, TypeOK, Payloads
  <2>2. tags'[cis.app] \in Nat
    BY <1>0, <1>3 DEF TagEvent, PushTag, TypeInv, TypeOK, Payloads
  <2>3. cis' = cis /\ cisPc' = cisPc
    BY <1>3 DEF TagEvent
  <2> QED
    BY <1>0, <2>1, <2>2, <2>3 DEF CisInv
<1>4. ASSUME NEW a \in Apps, ReconcileImageStream(a) PROVE CisInv'
  <2>1. cis'.app = a /\ cis'.tag = tags[a] /\ cisPc' = "check" /\ tags' = tags
    BY <1>4, BeginFields DEF vars, clusterVars
  <2> QED
    BY <1>0, <2>1 DEF CisInv
<1>5. ASSUME NEW s \in Stages, NEW o, CheckLabel(s, o) PROVE CisInv'
  BY <1>2, <1>5, CheckFields, TakeFields DEF CisInv
<1>6. ASSUME NEW o, PutCDStageDeploy(o) PROVE CisInv'
  BY <1>2, <1>6, PutFields DEF CisInv
<1> QED
  BY <1>3, <1>4, <1>5, <1>6, CisSteps DEF CisInv, RestartAll, cisVars

(***************************************************************************)
(* The bound of an Auto stage.                                             *)
(***************************************************************************)

\* The other steps create nothing: the CDStageDeploys of a stage become fewer, and those
\* that were ever created stay the same.
LEMMA SharedCreatesNone ==
    ASSUME TypeInv, Known, Shared
    PROVE  \A d \in Deploys :
              /\ Present(deploy'[d]) => Present(deploy[d])
              /\ deploy'[d].status = "absent" <=> deploy[d].status = "absent"
              /\ deploy'[d].stage = deploy[d].stage /\ deploy'[d].app = deploy[d].app
<1> SUFFICES ASSUME NEW d \in Deploys
             PROVE  /\ Present(deploy'[d]) => Present(deploy[d])
                    /\ deploy'[d].status = "absent" <=> deploy[d].status = "absent"
                    /\ deploy'[d].stage = deploy[d].stage /\ deploy'[d].app = deploy[d].app
  OBVIOUS
<1>1. deploy \in [Deploys -> DeployRecord] /\ deploy[d] \in DeployRecord
  BY DEF TypeInv, TypeOK
<1>2. CASE deploy' = deploy
  BY <1>2
<1>3. ASSUME NEW e \in Deploys, Terminate(e) \/ Reap(e)
      PROVE  /\ Present(deploy'[d]) => Present(deploy[d])
             /\ deploy'[d].status = "absent" <=> deploy[d].status = "absent"
             /\ deploy'[d].stage = deploy[d].stage /\ deploy'[d].app = deploy[d].app
  BY <1>1, <1>3 DEF Terminate, Reap, Present, DeployRecord
<1>4. ASSUME NEW o, DeleteCDStageDeploy(o)
      PROVE  /\ Present(deploy'[d]) => Present(deploy[d])
             /\ deploy'[d].status = "absent" <=> deploy[d].status = "absent"
             /\ deploy'[d].stage = deploy[d].stage /\ deploy'[d].app = deploy[d].app
  <2>1. rec.name \in Deploys /\ Created(rec.name)
    BY <1>4 DEF DeleteCDStageDeploy, TypeInv, InFlight, Known
  <2>2. deploy' = deploy \/ deploy' = [deploy EXCEPT ![rec.name].status = "gone"]
    BY <1>4 DEF DeleteCDStageDeploy
  <2> QED
    BY <1>1, <2>1, <2>2 DEF Present, Created, DeployRecord
<1>5. ASSUME NEW o, UpdateStatus(o)
      PROVE  /\ Present(deploy'[d]) => Present(deploy[d])
             /\ deploy'[d].status = "absent" <=> deploy[d].status = "absent"
             /\ deploy'[d].stage = deploy[d].stage /\ deploy'[d].app = deploy[d].app
  <2>1. rec.name \in Deploys /\ rec.status \in Statuses
    BY <1>5 DEF UpdateStatus, TypeInv, TypeOK, InFlight, RecRecord
  <2>2. \/ deploy' = deploy
        \/ /\ deploy' = [deploy EXCEPT ![rec.name].status = rec.status, ![rec.name].version = @ + 1]
           /\ Present(deploy[rec.name])
    BY <1>5 DEF UpdateStatus
  <2> QED
    BY <1>1, <2>1, <2>2 DEF Present, DeployRecord
<1> QED
  BY <1>2, <1>3, <1>4, <1>5 DEF Shared, Unaffected, Controller, Step, Reconcile, ResolveStatus,
     shouldStartCDStageDeploy, ProcessTriggerTemplate, CreatePipelineRun, PushTag, FinishRun,
     SyncDeploys, SyncRuns, Restart, clusterVars, vars

\* A stale read or a fault is not forgotten, and nothing else changes the counts.
LEMMA SharedCounts ==
    ASSUME TypeInv, Shared
    PROVE  /\ faults \in Nat /\ faults' \in Nat /\ faults <= faults'
           /\ stale' = 0 => stale = 0
<1>1. faults \in Nat /\ stale \in Nat
  BY DEF TypeInv, TypeOK
<1>2. \A o : Outcome(o) => faults' \in Nat /\ faults <= faults'
  BY <1>1 DEF Outcome
<1>3. stale' = 0 => stale = 0
  BY SharedIsNext, CountsGrow
<1>4. CASE faults' = faults
  BY <1>1, <1>3, <1>4
<1>5. CASE Restart
  BY <1>1, <1>3, <1>5 DEF Restart
<1> QED
  BY <1>1, <1>2, <1>3, <1>4, <1>5 DEF Shared, Unaffected, Controller, Step, Reconcile, ResolveStatus,
     shouldStartCDStageDeploy, ProcessTriggerTemplate, CreatePipelineRun, DeleteCDStageDeploy,
     UpdateStatus, PushTag, Terminate, Reap, FinishRun, SyncDeploys, SyncRuns, vars

\* A stage with fewer CDStageDeploys is still finite and within its bound.
LEMMA Fewer ==
    ASSUME NEW S, NEW T, T \subseteq S, IsFiniteSet(S)
    PROVE  /\ IsFiniteSet(T) /\ Cardinality(T) \in Nat /\ Cardinality(S) \in Nat
           /\ Cardinality(T) <= Cardinality(S)
BY FS_Subset, FS_CardinalityType

\* One more name makes a set one larger.
LEMMA OneMore ==
    ASSUME NEW S, NEW x, x \notin S, IsFiniteSet(S)
    PROVE  /\ IsFiniteSet(S \cup {x}) /\ Cardinality(S) \in Nat
           /\ Cardinality(S \cup {x}) = Cardinality(S) + 1
BY FS_AddElement, FS_CardinalityType

\* Only a creation makes a stage's CDStageDeploys more, by one, and only those of its stage.
LEMMA StageGrows ==
    ASSUME TypeInv, NEW t, NEW a, NEW n, Adds(t, a, n), NEW s
    PROVE  /\ s # t => ofStage(deploy', s) = ofStage(deploy, s)
           /\ s = t => /\ FreshName \notin ofStage(deploy, s)
                       /\ ofStage(deploy', s) = ofStage(deploy, s) \cup {FreshName}
BY DEF Adds, ofStage, Present

\* The bound is kept: what is created was counted, and nothing is created in between.
LEMMA BoundStep ==
    ASSUME TypeInv, Known, CisType, BoundInv, [AutoNext]_allVars
    PROVE  BoundInv'
<1>0. \A s \in Stages : IsFiniteSet(ofStage(deploy, s)) /\ Cardinality(ofStage(deploy, s)) \in Nat
  BY FS_CardinalityType DEF BoundInv
<1>a. cis.stage \in Stages /\ AutoStages \subseteq Stages
  BY LabelsAssumption DEF CisType, CisRecord
<1>1. ASSUME Shared, cisPc' # "create" \/ UNCHANGED <<cisPc, cis>> PROVE BoundInv'
  <2>1. \A s : ofStage(deploy', s) \subseteq ofStage(deploy, s)
    BY <1>1, SharedCreatesNone DEF ofStage
  <2>2. \A s \in Stages : /\ IsFiniteSet(ofStage(deploy', s)) /\ Cardinality(ofStage(deploy', s)) \in Nat
                          /\ Cardinality(ofStage(deploy', s)) <= Cardinality(ofStage(deploy, s))
    BY <1>0, <2>1, Fewer
  <2>3. stale' = 0 => stale = 0
    BY <1>1, SharedCounts
  <2>4. ASSUME stale' = 0, NEW s \in AutoStages PROVE Cardinality(ofStage(deploy', s)) <= 2
    <3>1. Cardinality(ofStage(deploy, s)) <= 2
      BY <2>3, <2>4 DEF BoundInv
    <3> QED
      BY <1>0, <1>a, <2>2, <3>1
  <2>5. ASSUME stale' = 0, cisPc' = "create", cis'.stage \in AutoStages
        PROVE  Cardinality(ofStage(deploy', cis'.stage)) <= 1
    <3>1. cis' = cis /\ Cardinality(ofStage(deploy, cis.stage)) <= 1
      BY <1>1, <2>3, <2>5 DEF BoundInv
    <3> QED
      BY <1>0, <1>a, <2>2, <3>1
  <2> QED
    BY <2>2, <2>4, <2>5 DEF BoundInv
<1>2. ASSUME NEW s \in Stages, NEW o, CheckLabel(s, o) PROVE BoundInv'
  <2>1. deploy' = deploy /\ (stale' = 0 => stale = 0)
    BY <1>2, CheckFields
  <2>2. ASSUME stale' = 0, cisPc' = "create", cis'.stage \in AutoStages
        PROVE  Cardinality(ofStage(deploy, cis'.stage)) <= 1
    <3>1. cis'.stage = s
      BY <1>2, <2>2, CheckFields, TakeFields DEF CisFails
    <3>2. ~(Cardinality(ofStage(deploy, s)) >= 2)
      BY <1>2, <2>2, <3>1, CheckFields DEF CisFails
    <3> QED
      BY <1>0, <3>1, <3>2
  <2> QED
    BY <2>1, <2>2 DEF BoundInv
<1>3. ASSUME NEW o, PutCDStageDeploy(o) PROVE BoundInv'
  <2>1. /\ stale' = stale /\ cisPc = "create" /\ cisPc' # "create"
        /\ deploy' = deploy \/ Adds(cis.stage, cis.app, cis.tag)
    BY <1>3, PutFields DEF CisFails
  <2>2. CASE deploy' = deploy
    BY <2>1, <2>2 DEF BoundInv
  <2>3. CASE Adds(cis.stage, cis.app, cis.tag)
    <3>1. ASSUME NEW s \in Stages, s # cis.stage
          PROVE  ofStage(deploy', s) = ofStage(deploy, s)
      BY <2>3, <3>1, StageGrows
    <3>2. /\ IsFiniteSet(ofStage(deploy', cis.stage))
          /\ Cardinality(ofStage(deploy', cis.stage)) = Cardinality(ofStage(deploy, cis.stage)) + 1
      BY <1>0, <1>a, <2>3, StageGrows, OneMore
    <3>3. ASSUME stale' = 0, cis.stage \in AutoStages PROVE Cardinality(ofStage(deploy', cis.stage)) <= 2
      <4>1. Cardinality(ofStage(deploy, cis.stage)) <= 1
        BY <2>1, <3>3 DEF BoundInv
      <4> QED
        BY <1>0, <1>a, <3>2, <4>1
    <3>4. \A s \in Stages : IsFiniteSet(ofStage(deploy', s))
      BY <1>0, <3>1, <3>2
    <3>5. stale' = 0 => \A s \in AutoStages : Cardinality(ofStage(deploy', s)) <= 2
      BY <1>a, <2>1, <3>1, <3>3 DEF BoundInv
    <3> QED
      BY <2>1, <3>4, <3>5 DEF BoundInv
  <2> QED
    BY <2>1, <2>2, <2>3
<1> QED
  BY <1>1, <1>2, <1>3, AutoSteps

(***************************************************************************)
(* The account of the requests.                                            *)
(***************************************************************************)

\* What is counted for a stage and an application, as numbers.
LEMMA CountType ==
    ASSUME TypeInv, RequestInv, NEW s \in Stages, NEW a \in Apps
    PROVE  /\ Cardinality(RequestsOf(s, a)) \in Nat
           /\ Waiting(s, a) \in {0, 1} /\ Working(s, a) \in {0, 1}
           /\ InitialTag[a] \in Nat /\ tags[a] \in Nat /\ faults \in Nat
BY ConstantsAssumption, FS_CardinalityType DEF RequestInv, Waiting, Working, TypeInv, TypeOK, Payloads

\* A failed reconcile puts its stream back: at most one more CDStageDeploy for a stage, and
\* the fault pays for it.
LEMMA FailsWaits ==
    ASSUME CisFails, NEW s, NEW a
    PROVE  Waiting(s, a)' \in {0, 1} /\ Working(s, a)' = 0
BY DEF CisFails, Waiting, Working

\* A creation makes the requests of its stage and application one more.
LEMMA RequestsGrow ==
    ASSUME TypeInv, NEW t, NEW b, NEW n, Adds(t, b, n), NEW s, NEW a
    PROVE  /\ ~(s = t /\ a = b) => RequestsOf(s, a)' = RequestsOf(s, a)
           /\ s = t /\ a = b => /\ FreshName \notin RequestsOf(s, a)
                                /\ RequestsOf(s, a)' = RequestsOf(s, a) \cup {FreshName}
BY DEF Adds, RequestsOf

\* What is created is paid for.
LEMMA RequestStep ==
    ASSUME TypeInv, Known, CisType, CisInv, RequestInv, [AutoNext]_allVars
    PROVE  RequestInv'
<1> SUFFICES ASSUME NEW s \in Stages, NEW a \in Apps
             PROVE  /\ IsFiniteSet(RequestsOf(s, a)')
                    /\ Cardinality(RequestsOf(s, a)') + Waiting(s, a)' + Working(s, a)' + InitialTag[a]
                          <= tags'[a] + faults'
  BY DEF RequestInv
<1> DEFINE Goal == /\ IsFiniteSet(RequestsOf(s, a)')
                   /\ Cardinality(RequestsOf(s, a)') + Waiting(s, a)' + Working(s, a)' + InitialTag[a]
                         <= tags'[a] + faults'
           N == Cardinality(RequestsOf(s, a))
<1>0. /\ N \in Nat /\ InitialTag[a] \in Nat /\ tags[a] \in Nat /\ faults \in Nat
      /\ Waiting(s, a) \in {0, 1} /\ Working(s, a) \in {0, 1}
      /\ N + Waiting(s, a) + Working(s, a) + InitialTag[a] <= tags[a] + faults
      /\ IsFiniteSet(RequestsOf(s, a))
  BY CountType DEF RequestInv
<1>2. ASSUME Shared, UNCHANGED cisVars, UNCHANGED tags PROVE Goal
  <2>1. RequestsOf(s, a)' = RequestsOf(s, a)
    BY <1>2, SharedCreatesNone DEF RequestsOf
  <2>2. Waiting(s, a)' = Waiting(s, a) /\ Working(s, a)' = Working(s, a)
    BY <1>2 DEF cisVars, Waiting, Working
  <2>3. faults' \in Nat /\ faults <= faults'
    BY <1>2, SharedCounts
  <2> QED
    BY <1>0, <1>2, <2>1, <2>2, <2>3
<1>3. ASSUME NEW b \in Apps, TagEvent(b) PROVE Goal
  <2>1. /\ RequestsOf(s, a)' = RequestsOf(s, a) /\ faults' = faults
        /\ Working(s, a)' = Working(s, a) /\ Waiting(s, a)' \in {0, 1}
    BY <1>3 DEF TagEvent, PushTag, RequestsOf, Working, Waiting
  <2>2. b # a => Waiting(s, a)' = Waiting(s, a) /\ tags'[a] = tags[a]
    BY <1>3 DEF TagEvent, PushTag, Waiting, TypeInv, TypeOK, Payloads
  <2>3. b = a => tags'[a] = tags[a] + 1
    BY <1>3 DEF TagEvent, PushTag, TypeInv, TypeOK, Payloads
  <2> QED
    BY <1>0, <2>1, <2>2, <2>3
<1>4. ASSUME NEW b \in Apps, ReconcileImageStream(b) PROVE Goal
  <2>1. RequestsOf(s, a)' = RequestsOf(s, a) /\ faults' = faults /\ tags' = tags
    BY <1>4, BeginFields DEF vars, clusterVars, RequestsOf
  <2>2. Working(s, a) = 0
    BY <1>4, BeginFields DEF Working
  <2>3. b # a => Working(s, a)' = 0 /\ Waiting(s, a)' = Waiting(s, a)
    BY <1>4, BeginFields DEF Working, Waiting
  <2>4. b = a => Waiting(s, a)' = 0 /\ Working(s, a)' = Waiting(s, a)
    BY <1>4, BeginFields DEF Working, Waiting
  <2> QED
    BY <1>0, <2>1, <2>2, <2>3, <2>4
<1>5. ASSUME NEW t \in Stages, NEW o, CheckLabel(t, o) PROVE Goal
  <2>1. RequestsOf(s, a)' = RequestsOf(s, a) /\ tags' = tags /\ Outcome(o)
    BY <1>5, CheckFields DEF RequestsOf
  <2>2. CASE o # "ok"
    <3>1. Waiting(s, a)' \in {0, 1} /\ Working(s, a)' = 0
      BY <1>5, <2>2, CheckFields, FailsWaits
    <3>2. faults' = faults + 1
      BY <2>1, <2>2, FaultsGrow
    <3> QED
      BY <1>0, <2>1, <3>1, <3>2
  <2>3. CASE o = "ok"
    <3>1. /\ cisQueue' = cisQueue /\ cis'.app = cis.app /\ cis'.todo = cis.todo \ {t} /\ cis'.stage = t
          /\ cisPc = "check" /\ t \in cis.todo
      BY <1>5, <2>3, CheckFields, TakeFields
    <3>2. Waiting(s, a)' = Waiting(s, a)
      BY <3>1 DEF Waiting
    <3>3. Working(s, a)' \in {0, 1} /\ (Working(s, a)' = 1 => Working(s, a) = 1)
      BY <3>1 DEF Working
    <3>4. faults' = faults
      BY <2>1, <2>3, FaultsGrow
    <3> QED
      BY <1>0, <2>1, <3>2, <3>3, <3>4
  <2> QED
    BY <2>2, <2>3
<1>6. ASSUME NEW o, PutCDStageDeploy(o) PROVE Goal
  <2>1. /\ tags' = tags /\ Outcome(o) /\ cisPc = "create"
        /\ deploy' = deploy \/ Adds(cis.stage, cis.app, cis.tag)
    BY <1>6, PutFields
  <2>2. /\ IsFiniteSet(RequestsOf(s, a)')
        /\ \/ Cardinality(RequestsOf(s, a)') = N
           \/ Cardinality(RequestsOf(s, a)') = N + 1 /\ s = cis.stage /\ a = cis.app
    <3>1. CASE deploy' = deploy \/ ~(s = cis.stage /\ a = cis.app)
      <4>1. CASE deploy' = deploy
        BY <1>0, <4>1 DEF RequestsOf
      <4>2. CASE Adds(cis.stage, cis.app, cis.tag) /\ ~(s = cis.stage /\ a = cis.app)
        <5>1. RequestsOf(s, a)' = RequestsOf(s, a)
          BY <4>2, RequestsGrow
        <5> QED
          BY <1>0, <5>1
      <4> QED
        BY <2>1, <3>1, <4>1, <4>2
    <3>2. CASE Adds(cis.stage, cis.app, cis.tag) /\ s = cis.stage /\ a = cis.app
      <4>1. /\ FreshName \notin RequestsOf(s, a)
            /\ RequestsOf(s, a)' = RequestsOf(s, a) \cup {FreshName}
        BY <3>2, RequestsGrow
      <4> QED
        BY <1>0, <3>2, <4>1, OneMore
    <3> QED
      BY <2>1, <3>1, <3>2
  <2>3. s = cis.stage /\ a = cis.app => Working(s, a) = 1
    BY <2>1 DEF Working
  <2>4. CASE o # "ok"
    <3>1. Waiting(s, a)' \in {0, 1} /\ Working(s, a)' = 0
      BY <1>6, <2>4, PutFields, FailsWaits
    <3>2. faults' = faults + 1
      BY <2>1, <2>4, FaultsGrow
    <3> HIDE DEF N
    <3> QED
      BY <1>0, <2>1, <2>2, <2>3, <3>1, <3>2
  <2>5. CASE o = "ok"
    <3>1. cisQueue' = cisQueue /\ cis' = cis /\ cisPc' = "check"
      BY <1>6, <2>5, PutFields
    <3>2. Waiting(s, a)' = Waiting(s, a)
      BY <3>1 DEF Waiting
    <3>3. /\ Working(s, a)' \in {0, 1} /\ (Working(s, a)' = 1 => Working(s, a) = 1)
          /\ s = cis.stage /\ a = cis.app => Working(s, a)' = 0
      BY <2>1, <3>1 DEF Working, CisInv
    <3>4. faults' = faults
      BY <2>1, <2>5, FaultsGrow
    <3> HIDE DEF N
    <3> QED
      BY <1>0, <2>1, <2>2, <2>3, <3>2, <3>3, <3>4
  <2> QED
    BY <2>4, <2>5
<1>7. ASSUME cisPc = "check", cisPc' = "idle", cis' = NoCis, UNCHANGED <<vars, cisQueue>> PROVE Goal
  <2>1. RequestsOf(s, a)' = RequestsOf(s, a) /\ tags' = tags /\ faults' = faults
    BY <1>7 DEF vars, clusterVars, RequestsOf
  <2>2. Waiting(s, a)' = Waiting(s, a) /\ Working(s, a)' = 0
    BY <1>7 DEF Waiting, Working
  <2> QED
    BY <1>0, <2>1, <2>2
<1>8. CASE RestartAll
  <2>1. RequestsOf(s, a)' = RequestsOf(s, a) /\ tags' = tags /\ faults' = faults + 1
    BY <1>8 DEF RestartAll, Restart, clusterVars, RequestsOf
  <2>2. Waiting(s, a)' = 0 /\ Working(s, a)' = 0
    BY <1>8 DEF RestartAll, Waiting, Working
  <2> QED
    BY <1>0, <2>1, <2>2
<1> QED
  BY <1>2, <1>3, <1>4, <1>5, <1>6, <1>7, <1>8, CisSteps

(***************************************************************************)
(* The theorems.                                                           *)
(***************************************************************************)

\* The invariants hold at the start.
LEMMA AutoInvInit == AutoInit => AutoInv
<1> SUFFICES ASSUME AutoInit PROVE AutoInv
  OBVIOUS
<1>1. IndInv /\ TypeInv
  BY IndInvInit DEF AutoInit, IndInv
<1>2. CisType /\ CisInv
  BY NoCisType DEF AutoInit, CisType, CisInv
<1>3. \A d \in Deploys : deploy[d].status = "absent"
  BY DEF AutoInit, Init
<1>4. /\ \A s : ofStage(deploy, s) = {}
      /\ \A s, a : RequestsOf(s, a) = {}
  BY <1>3 DEF ofStage, Present, RequestsOf
<1>5. IsFiniteSet({}) /\ Cardinality({}) = 0
  BY FS_EmptySet
<1>6. BoundInv
  BY <1>4, <1>5 DEF BoundInv
<1>7. RequestInv
  <2> SUFFICES ASSUME NEW s \in Stages, NEW a \in Apps
               PROVE  /\ IsFiniteSet(RequestsOf(s, a))
                      /\ Cardinality(RequestsOf(s, a)) + Waiting(s, a) + Working(s, a) + InitialTag[a]
                            <= tags[a] + faults
    BY DEF RequestInv
  <2>1. Waiting(s, a) = 0 /\ Working(s, a) = 0 /\ tags[a] = InitialTag[a] /\ faults = 0
    BY DEF AutoInit, Init, Waiting, Working
  <2>2. InitialTag[a] \in Nat
    BY ConstantsAssumption
  <2>3. IsFiniteSet(RequestsOf(s, a)) /\ Cardinality(RequestsOf(s, a)) = 0
    BY <1>4, <1>5
  <2> QED
    BY <2>1, <2>2, <2>3
<1>8. VersionInv /\ RunsInv
  BY AccountInit DEF AutoInit
<1> QED
  BY <1>1, <1>2, <1>6, <1>7, <1>8 DEF AutoInv

\* They always hold.
LEMMA AutoInvHolds == AutoSpec => []AutoInv
<1>1. AutoInv /\ [AutoNext]_allVars => AutoInv'
  <2> SUFFICES ASSUME AutoInv, [AutoNext]_allVars PROVE AutoInv'
    OBVIOUS
  <2>1. TypeInv /\ Known
    BY DEF AutoInv, IndInv
  <2> QED
    BY <2>1, AutoKeepsInv, CisTypeStep, CisInvStep, BoundStep, RequestStep, AccountStep DEF AutoInv
<1> QED
  BY <1>1, AutoInvInit, PTL DEF AutoSpec

\* The state of both controllers always has its type.
THEOREM AutoTypesCorrect == AutoSpec => []CisTypeOK
<1>1. AutoInv => CisTypeOK
  BY DEF AutoInv, IndInv, TypeInv, CisType, CisTypeOK
<1> QED
  BY <1>1, AutoInvHolds, PTL

\* A stage with the trigger type Auto never has more than two CDStageDeploys, however many
\* tags are pushed and whatever fails, as long as the lists that were counted were up to date.
THEOREM QueueIsBounded == AutoSpec => []AutoQueueBound
<1>1. AutoInv => AutoQueueBound
  BY DEF AutoInv, BoundInv, AutoQueueBound
<1> QED
  BY <1>1, AutoInvHolds, PTL

\* A stage gets at most one CDStageDeploy of an application for each pushed tag and each fault:
\* neither the queue nor a reconcile that starts over multiplies them.
THEOREM RequestsArePaidFor == AutoSpec => []RequestsAccountedFor
<1>1. AutoInv => RequestsAccountedFor
  <2> SUFFICES ASSUME AutoInv, NEW s \in Stages, NEW a \in Apps
               PROVE  Cardinality(RequestsOf(s, a)) <= tags[a] - InitialTag[a] + faults
    BY DEF RequestsAccountedFor, RequestsOf
  <2>1. /\ Cardinality(RequestsOf(s, a)) \in Nat
        /\ Waiting(s, a) \in {0, 1} /\ Working(s, a) \in {0, 1}
        /\ InitialTag[a] \in Nat /\ tags[a] \in Nat /\ faults \in Nat
    BY CountType DEF AutoInv, IndInv
  <2>2. Cardinality(RequestsOf(s, a)) + Waiting(s, a) + Working(s, a) + InitialTag[a]
           <= tags[a] + faults
    BY DEF AutoInv, RequestInv
  <2> QED
    BY <2>1, <2>2
<1> QED
  BY <1>1, AutoInvHolds, PTL

\* The CDStageDeploy controller keeps its promises when its requests are made by the stream
\* controller, which reads the same caches and may ask for a tag that is no longer the newest.
THEOREM CompositionKeepsPromises ==
    AutoSpec => [](/\ DeployedBeforeGone /\ OneRunPerStage /\ RunsAccountedFor
                   /\ NoOrphanRun /\ PayloadCoversRequest)
<1>1. AutoInv => DeployedBeforeGone
  BY DEF AutoInv, IndInv, DeployedBeforeGoneInv, DeployedBeforeGone, RunsOf, HasRun, NothingToDeploy
<1>2. AutoInv => NoOrphanRun
  BY DEF AutoInv, IndInv, NoOrphanRunInv, NoOrphanRun, RunsOf, Deleted, Finished
<1>3. AutoInv => PayloadCoversRequest
  BY DEF AutoInv, IndInv, PayloadInv, PayloadCoversRequest, Covers
<1>4. AutoInv => OneRunPerStage /\ RunsAccountedFor
  BY OneRunPerStageFollows, RunsAccountedForFollows DEF AutoInv
<1> QED
  BY <1>1, <1>2, <1>3, <1>4, AutoInvHolds, PTL

(***************************************************************************)
(* When nothing fails, both controllers together implement StageQueue.     *)
(***************************************************************************)

\* A step of the stream controller leaves the resources and the PipelineRuns alone, or
\* makes a new request.
LEMMA StreamStep ==
    ASSUME AutoInv, [AutoNext]_allVars
    PROVE  \/ Shared
           \/ /\ UNCHANGED <<runs, pc, rec>>
              /\ deploy' = deploy \/ \E s \in Stages : \E a, n : Adds(s, a, n)
<1>0. TypeInv /\ CisType /\ cis.stage \in Stages
  BY DEF AutoInv, IndInv, CisType, CisRecord
<1>1. ASSUME NEW s \in Stages, NEW o \in Outcomes, CheckLabel(s, o)
      PROVE  UNCHANGED <<deploy, runs, pc, rec>>
  BY <1>1 DEF CheckLabel, clusterVars
<1>2. ASSUME NEW o \in Outcomes, PutCDStageDeploy(o)
      PROVE  /\ UNCHANGED <<runs, pc, rec>>
             /\ deploy' = deploy \/ Adds(cis.stage, cis.app, cis.tag)
  BY <1>0, <1>2, PutFields
<1> QED
  BY <1>0, <1>1, <1>2, AutoSteps

\* No PipelineRun is one of a request that is only just made.
LEMMA AutoOnceStep ==
    ASSUME Undisturbed, AutoInv, OnceInv, [AutoNext]_allVars
    PROVE  OnceInv'
<1>0. IndInv /\ TypeInv /\ Known /\ VersionInv
  BY DEF AutoInv, IndInv
<1>1. CASE Shared
  BY <1>0, <1>1, SharedIsNext, OnceStep DEF IndInv
<1>2. CASE UNCHANGED <<deploy, runs, pc, rec>>
  BY <1>2 DEF OnceInv, HasRun, Live
<1>3. CASE UNCHANGED <<runs, pc, rec>> /\ \E s, a, n : Adds(s, a, n)
  <2>1. /\ \A d \in Deploys \ {FreshName} : deploy'[d] = deploy[d]
        /\ ~deploy'[FreshName].terminating /\ deploy[FreshName].status = "absent"
    BY <1>3 DEF Adds
  <2>2. ~HasRun(FreshName) /\ (pc # "idle" => rec.name \in Deploys \ {FreshName})
    BY <1>0, <2>1 DEF Known, Created, HasRun, TypeInv, InFlight
  <2>3. \A d : HasRun(d)' <=> HasRun(d)
    BY <1>3 DEF HasRun
  <2>4. pc # "idle" => deploy'[rec.name] = deploy[rec.name] /\ (Live' <=> Live)
    BY <1>3, <2>1, <2>2 DEF Live
  <2>5. \A d \in Deploys : deploy'[d].terminating => d \in Terminable
    BY <2>1 DEF OnceInv
  <2>6. \A d \in Deploys : HasRun(d) /\ Present(deploy'[d]) /\ ~deploy'[d].terminating =>
           deploy'[d].status = "running" \/ (pc = "update" /\ rec.name = d /\ rec.status = "running")
    BY <2>1, <2>2 DEF OnceInv
  <2>7. pc \in Chain \cup {"update"} => pc # "idle"
    BY DEF Chain
  <2> QED
    BY <1>3, <2>2, <2>3, <2>4, <2>5, <2>6, <2>7 DEF OnceInv
<1> QED
  BY <1>1, <1>2, <1>3, StreamStep

\* A request of the stream controller is a request to the queue.
LEMMA AutoQueueStep ==
    ASSUME Undisturbed, AutoInv, AutoInv', OnceInv, [AutoNext]_allVars
    PROVE  [Queue!Next]_(Queue!vars)
<1>0. IndInv /\ VersionInv /\ TypeInv'
  BY DEF AutoInv, IndInv
<1>1. CASE Shared
  BY <1>0, <1>1, SharedIsNext, QueueStep
<1>2. CASE UNCHANGED <<deploy, runs, pc, rec>>
  BY <1>2 DEF Queue!vars, abstractRequest, abstractWork, RunsOf
<1>3. ASSUME runs' = runs, NEW s \in Stages, NEW a, NEW n, Adds(s, a, n) PROVE Queue!Next
  <2>1. /\ FreshName \in Deploys /\ OnlyChanges(FreshName)
        /\ deploy[FreshName].status = "absent" /\ deploy'[FreshName].status = "pending"
        /\ deploy'[FreshName].stage = s
    BY <1>3 DEF Adds, OnlyChanges
  <2>2. abstractRequest[FreshName] = "absent"
    BY <2>1 DEF abstractRequest
  <2>3. abstractRequest' = [abstractRequest EXCEPT ![FreshName] = "open"]
    BY <2>1 DEF abstractRequest, OnlyChanges, Present
  <2>4. absStage' = [absStage EXCEPT ![FreshName] = s]
    BY <2>1 DEF absStage, OnlyChanges
  <2>5. abstractWork' = abstractWork
    BY <1>3, SameWork
  <2>6. Queue!Open(FreshName, s)
    BY <2>2, <2>3, <2>4, <2>5 DEF Queue!Open, absStage
  <2> QED
    BY <2>1, <2>6 DEF Queue!Next
<1> QED
  BY <1>1, <1>2, <1>3, StreamStep

\* When nothing fails, what the stream controller requests is worked on as the abstract queue
\* promises: each CDStageDeploy that a pushed tag causes gets one PipelineRun, one at a time per
\* stage, although the two controllers interleave between the count, the creation and the status.
THEOREM AutoQueueImplemented == Undisturbed => (AutoSpec => Queue!Spec)
<1> SUFFICES ASSUME Undisturbed PROVE AutoSpec => Queue!Spec
  OBVIOUS
<1>1. AutoInit => OnceInv /\ Queue!Init
  BY OnceInit, QueueInit DEF AutoInit
<1>2. AutoInv /\ OnceInv /\ [AutoNext]_allVars => OnceInv'
  BY AutoOnceStep
<1>3. AutoInv /\ AutoInv' /\ OnceInv /\ [AutoNext]_allVars => [Queue!Next]_(Queue!vars)
  BY AutoQueueStep
<1> QED
  BY <1>1, <1>2, <1>3, AutoInvHolds, PTL DEF AutoSpec, Queue!Spec
=============================================================================
