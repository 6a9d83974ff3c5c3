------------------------ MODULE CodebaseBranch_proofs ------------------------
(***************************************************************************)
(* Proofs about the CodebaseBranch controller, for every kind of branch,   *)
(* any number of versions, and any number of builds, marks, changes,       *)
(* failed calls and restarts.                                              *)
(***************************************************************************)
EXTENDS CodebaseBranch, TLAPS

(***************************************************************************)
(* Types.  A build number is bounded by the number of builds, which are    *)
(* counted as edits: this is needed to keep it in its type.                *)
(***************************************************************************)

BuildInv == cr.build <= edits /\ cached.build <= edits /\ rec.build <= edits

TypeInv == TypeOK /\ BuildInv

\* A version appended to a history of versions gives one.
LEMMA HistoryType ==
    ASSUME NEW h \in Seq(1 .. MaxVersion), NEW v \in 1 .. MaxVersion
    PROVE  Append(h, v) \in Seq(1 .. MaxVersion)
OBVIOUS

\* The numbers that the actions write.
LEMMA NumberType ==
    /\ 0 \in NoBuild .. MaxEdits /\ NoBuild \in NoBuild .. MaxEdits
    /\ NoSuccess \in 0 .. MaxEdits /\ NoVersion \in Versions
BY CodebaseBranchAssumption DEF NoBuild, NoSuccess, NoVersion, Versions

\* A branch as it is created has its type.
LEMMA NewType ==
    ASSUME NEW p \in BOOLEAN, NEW v \in Versions
    PROVE  NewBranch(p, v) \in BranchRecord /\ NewBranch(p, v).build = NoBuild
<1>1. <<>> \in Seq(1 .. MaxVersion)
  OBVIOUS
<1> QED
  BY <1>1, NumberType DEF NewBranch, BranchRecord

\* So has the empty copy.
LEMMA NoCopyType == NoCopy \in BranchRecord /\ NoCopy.build = NoBuild
BY NewType, NumberType DEF NoCopy

\* So has a branch with one field changed; the build number is kept.
LEMMA FieldType ==
    ASSUME NEW r \in BranchRecord, NEW b \in BOOLEAN
    PROVE  /\ [r EXCEPT !.exists = b] \in BranchRecord /\ [r EXCEPT !.exists = b].build = r.build
           /\ [r EXCEPT !.pipelines = b] \in BranchRecord /\ [r EXCEPT !.pipelines = b].build = r.build
           /\ [r EXCEPT !.owned = b] \in BranchRecord /\ [r EXCEPT !.owned = b].build = r.build
           /\ [r EXCEPT !.labelled = b] \in BranchRecord /\ [r EXCEPT !.labelled = b].build = r.build
           /\ [r EXCEPT !.finalizer = b] \in BranchRecord /\ [r EXCEPT !.finalizer = b].build = r.build
           /\ [r EXCEPT !.deleting = b] \in BranchRecord /\ [r EXCEPT !.deleting = b].build = r.build
           /\ [r EXCEPT !.git = b] \in BranchRecord /\ [r EXCEPT !.git = b].build = r.build
           /\ [r EXCEPT !.stale = b] \in BranchRecord /\ [r EXCEPT !.stale = b].build = r.build
BY DEF BranchRecord

\* The same for the fields that are not Boolean.
LEMMA ValueType ==
    ASSUME NEW r \in BranchRecord
    PROVE  /\ failed(r) \in BranchRecord /\ failed(r).build = r.build
           /\ inactive(r) \in BranchRecord /\ inactive(r).build = r.build
           /\ intermediate(r) \in BranchRecord /\ intermediate(r).build = r.build
           /\ streamFailed(r) \in BranchRecord /\ streamFailed(r).build = r.build
           /\ [r EXCEPT !.value = "active"] \in BranchRecord
           /\ [r EXCEPT !.value = "active"].build = r.build
           /\ [r EXCEPT !.build = 0] \in BranchRecord /\ [r EXCEPT !.build = 0].build = 0
           /\ \A v \in Versions :
                 [r EXCEPT !.version = v] \in BranchRecord /\ [r EXCEPT !.version = v].build = r.build
           /\ \A n \in NoBuild .. MaxEdits :
                 [r EXCEPT !.build = n] \in BranchRecord /\ [r EXCEPT !.build = n].build = n
           /\ \A n \in 0 .. MaxEdits :
                 [r EXCEPT !.last = n] \in BranchRecord /\ [r EXCEPT !.last = n].build = r.build
<1>1. failed(r) \in BranchRecord /\ inactive(r) \in BranchRecord /\ intermediate(r) \in BranchRecord
  BY DEF BranchRecord, failed, inactive, intermediate
<1>2. streamFailed(r) \in BranchRecord
  BY <1>1, NumberType DEF BranchRecord, streamFailed
<1>3. /\ failed(r).build = r.build /\ inactive(r).build = r.build
      /\ intermediate(r).build = r.build /\ streamFailed(r).build = r.build
  BY DEF BranchRecord, failed, inactive, intermediate, streamFailed
<1>4. /\ [r EXCEPT !.value = "active"] \in BranchRecord
      /\ [r EXCEPT !.value = "active"].build = r.build
      /\ [r EXCEPT !.build = 0] \in BranchRecord /\ [r EXCEPT !.build = 0].build = 0
  BY NumberType DEF BranchRecord
<1>5. \A v \in Versions :
         [r EXCEPT !.version = v] \in BranchRecord /\ [r EXCEPT !.version = v].build = r.build
  BY DEF BranchRecord
<1>6. \A n \in NoBuild .. MaxEdits :
         [r EXCEPT !.build = n] \in BranchRecord /\ [r EXCEPT !.build = n].build = n
  BY DEF BranchRecord
<1>7. \A n \in 0 .. MaxEdits :
         [r EXCEPT !.last = n] \in BranchRecord /\ [r EXCEPT !.last = n].build = r.build
  BY DEF BranchRecord
<1> QED
  BY <1>1, <1>2, <1>3, <1>4, <1>5, <1>6, <1>7

\* The same for a new version.
LEMMA NewVersionType ==
    ASSUME NEW r \in BranchRecord, r.version # NoVersion
    PROVE  newVersion(r) \in BranchRecord /\ newVersion(r).build = 0
<1>0. r.version \in Versions
  BY DEF BranchRecord
<1>1. r.version \in 1 .. MaxVersion
  BY <1>0, CodebaseBranchAssumption DEF Versions, NoVersion
<1>2. Append(r.history, r.version) \in Seq(1 .. MaxVersion)
  BY <1>1, HistoryType DEF BranchRecord
<1> QED
  BY <1>2, NumberType DEF newVersion, BranchRecord

\* What an update writes over the branch has its type, and the build number of the copy
\* or of the branch.
LEMMA WrittenType ==
    ASSUME cr \in BranchRecord, NEW r \in BranchRecord
    PROVE  /\ resourceOf(r) \in BranchRecord /\ resourceOf(r).build = cr.build
           /\ statusOf(r) \in BranchRecord /\ statusOf(r).build = r.build
BY DEF resourceOf, statusOf, BranchRecord

\* So has the copy with the conditions of the cache.
LEMMA FetchedType ==
    ASSUME cached \in BranchRecord, NEW r \in BranchRecord
    PROVE  fetchedConditions(r) \in BranchRecord /\ fetchedConditions(r).build = r.build
BY DEF fetchedConditions, BranchRecord

\* A copy that is well typed and whose build number was counted.
Sized(r) == r \in BranchRecord /\ r.build <= edits

\* A call keeps its counters, and leaves what people do alone.
LEMMA OutcomeType ==
    ASSUME TypeInv, NEW o, Outcome(o)
    PROVE  /\ spec' \in Starts /\ missed' \in BOOLEAN /\ edits' = edits
           /\ faults' \in 0 .. MaxFaults /\ edits' \in 0 .. MaxEdits
BY CodebaseBranchAssumption DEF Outcome, TypeInv, TypeOK

\* What the three parts of a call write, taken together.
LEMMA CallType ==
    ASSUME TypeInv, NEW o, Outcome(o), Sized(cr'), cached' = cached, cacheCurrent' \in BOOLEAN,
           Sized(rec'), recCurrent' \in BOOLEAN, pc' \in Phases, queued' \in BOOLEAN,
           codebase' = codebase, remote' \in RemoteStates, stream' \in StreamStates,
           streamSeen' \in BOOLEAN
    PROVE  TypeInv'
BY OutcomeType DEF TypeInv, TypeOK, BuildInv, Sized

\* The parts: an update of the branch,
LEMMA WriteType ==
    ASSUME TypeInv, NEW o, NEW current, NEW new, Sized(new), WriteCR(o, current, new)
    PROVE  Sized(cr') /\ cached' = cached /\ cacheCurrent' \in BOOLEAN
BY DEF WriteCR, TypeInv, TypeOK, BuildInv, Sized

\* the end of a reconcile,
LEMMA EndType ==
    ASSUME TypeInv, Done \/ Requeue
    PROVE  /\ Sized(rec') /\ recCurrent' \in BOOLEAN /\ pc' \in Phases /\ queued' \in BOOLEAN
<1>1. edits \in Nat
  BY CodebaseBranchAssumption DEF TypeInv, TypeOK
<1>2. Sized(NoCopy)
  BY <1>1, NoCopyType DEF Sized, NoBuild
<1> QED
  BY <1>2 DEF Done, Requeue, TypeInv, TypeOK, Phases

\* and the call that comes next.
LEMMA ChainType ==
    ASSUME TypeInv, NEW r, Sized(r), chain(r) \/ afterLabel(r)
    PROVE  Sized(rec') /\ pc' \in Phases /\ queued' = queued
<1>1. edits \in Nat
  BY CodebaseBranchAssumption DEF TypeInv, TypeOK
<1>2. Sized([r EXCEPT !.build = 0])
  <2>1. [r EXCEPT !.build = 0] \in BranchRecord /\ [r EXCEPT !.build = 0].build = 0
    BY ValueType DEF Sized
  <2>2. 0 <= edits
    BY <1>1
  <2> QED
    BY <2>1, <2>2 DEF Sized
<1>3. ASSUME chain(r) PROVE Sized(rec') /\ pc' \in Phases /\ queued' = queued
  <2>1. rec' \in {r, [r EXCEPT !.build = 0]}
    BY <1>3 DEF chain, Continue
  <2>2. pc' \in Phases /\ queued' = queued
    BY <1>3 DEF chain, Continue, Phases
  <2> QED
    BY <1>2, <2>1, <2>2
<1> QED
  BY <1>3 DEF afterLabel, Continue, Phases

\* The status update of a handler keeps the types.
LEMMA UpdateStatusType ==
    ASSUME TypeInv, NEW o, NEW r, Sized(r), NEW f, Sized(f), NEW phase \in Phases,
           UpdateStatus(o, r, phase, f)
    PROVE  TypeInv'
<1>1. Sized(statusOf(r))
  BY WrittenType DEF Sized, TypeInv, TypeOK
<1>2. Sized(cr') /\ cached' = cached /\ cacheCurrent' \in BOOLEAN
  BY <1>1, WriteType DEF UpdateStatus
<1>3. Sized(rec') /\ recCurrent' \in BOOLEAN /\ pc' \in Phases /\ queued' \in BOOLEAN
  BY DEF UpdateStatus, Continue, ChainFails, TypeInv, TypeOK, Phases
<1> QED
  BY <1>2, <1>3, CallType DEF UpdateStatus, outVars, TypeInv, TypeOK

\* The steps up to the chain keep the types.
LEMMA PrepareTypeOK ==
    ASSUME TypeInv, NEW o \in Outcomes, Reconcile \/ Prepare(o)
    PROVE  TypeInv'
<1> USE DEF TypeInv, TypeOK, Phases
<1>0. Sized(cr) /\ Sized(cached) /\ Sized(rec)
  BY DEF Sized, BuildInv
<1>1. CASE Reconcile
  <2>1. Sized([cached EXCEPT !.owned = TRUE])
    BY <1>0, FieldType DEF Sized
  <2>2. rec' \in {rec, cached, [cached EXCEPT !.owned = TRUE]} /\ recCurrent' \in BOOLEAN
    BY <1>1 DEF Reconcile
  <2>3. pc' \in Phases /\ queued' \in BOOLEAN /\ missed' \in BOOLEAN
    BY <1>1 DEF Reconcile
  <2>4. Sized(rec')
    BY <1>0, <2>1, <2>2
  <2> QED
    BY <1>1, <2>2, <2>3, <2>4 DEF Reconcile, Sized, crVars, outVars, bounds, BuildInv
<1>2. CASE setDefaultValues(o)
  <2>1. Sized([cr EXCEPT !.pipelines = TRUE])
    BY <1>0, FieldType DEF Sized
  <2>2. Sized(cr') /\ cached' = cached /\ cacheCurrent' \in BOOLEAN
    BY <1>2, <2>1, WriteType DEF setDefaultValues
  <2>3. Sized(rec') /\ recCurrent' \in BOOLEAN /\ pc' \in Phases /\ queued' \in BOOLEAN
    BY <1>2, EndType DEF setDefaultValues
  <2> QED
    BY <1>2, <2>2, <2>3, CallType DEF setDefaultValues, outVars
<1>3. CASE AddCodebaseLabel(o)
  <2> DEFINE r == [rec EXCEPT !.labelled = TRUE]
  <2>1. Sized(r)
    BY <1>0, FieldType DEF Sized
  <2>2. Sized(resourceOf(r))
    BY <1>0, <2>1, WrittenType DEF Sized
  <2>3. Sized(cr') /\ cached' = cached /\ cacheCurrent' \in BOOLEAN /\ recCurrent' \in BOOLEAN
    <3>1. CASE rec.labelled
      BY <1>0, <1>3, <3>1 DEF AddCodebaseLabel, crVars
    <3>2. CASE ~rec.labelled
      BY <1>3, <2>2, <3>2, WriteType DEF AddCodebaseLabel
    <3> QED
      BY <3>1, <3>2
  <2>4. Sized(rec') /\ pc' \in Phases /\ queued' = queued
    BY <1>3, <2>1, ChainType DEF AddCodebaseLabel
  <2> QED
    BY <1>3, <2>3, <2>4, CallType DEF AddCodebaseLabel, outVars
<1>4. CASE AddFinalizer(o)
  <2> DEFINE r == [rec EXCEPT !.finalizer = TRUE]
  <2>1. Sized(r)
    BY <1>0, FieldType DEF Sized
  <2>2. Sized(resourceOf(r))
    BY <1>0, <2>1, WrittenType DEF Sized
  <2>3. Sized(cr') /\ cached' = cached /\ cacheCurrent' \in BOOLEAN
    BY <1>4, <2>2, WriteType DEF AddFinalizer
  <2>4. Sized(rec') /\ pc' \in Phases /\ queued' \in BOOLEAN /\ recCurrent' \in BOOLEAN
    BY <1>4, <2>1, ChainType, EndType DEF AddFinalizer
  <2> QED
    BY <1>4, <2>3, <2>4, CallType DEF AddFinalizer, outVars
<1>5. CASE RemoveFinalizer(o)
  <2>1. Sized([cr EXCEPT !.finalizer = FALSE])
    BY <1>0, FieldType DEF Sized
  <2>2. Sized(cr') /\ cached' = cached /\ cacheCurrent' \in BOOLEAN
    BY <1>5, <2>1, WriteType DEF RemoveFinalizer
  <2>3. Sized(rec') /\ recCurrent' \in BOOLEAN /\ pc' \in Phases /\ queued' \in BOOLEAN
    BY <1>5, EndType DEF RemoveFinalizer
  <2> QED
    BY <1>5, <2>2, <2>3, CallType DEF RemoveFinalizer, outVars
<1> QED
  BY <1>1, <1>2, <1>3, <1>4, <1>5 DEF Prepare

\* The steps of the chain keep the types.
LEMMA ChainTypeOK ==
    ASSUME TypeInv, NEW o \in Outcomes, Chain(o)
    PROVE  TypeInv'
<1>0. /\ Sized(cr) /\ Sized(cached) /\ Sized(rec) /\ pc \in Phases
      /\ cacheCurrent \in BOOLEAN /\ recCurrent \in BOOLEAN /\ queued \in BOOLEAN
      /\ remote \in RemoteStates /\ stream \in StreamStates /\ streamSeen \in BOOLEAN
      /\ edits \in Nat /\ rec \in BranchRecord
  BY CodebaseBranchAssumption DEF Sized, BuildInv, TypeInv, TypeOK
<1>a. Sized(failed(rec)) /\ Sized(inactive(rec)) /\ Sized(intermediate(rec)) /\ Sized(streamFailed(rec))
  BY <1>0, ValueType DEF Sized
<1>b. /\ "accept" \in Phases /\ "available" \in Phases /\ "created" \in Phases /\ "version" \in Phases
      /\ "intermediate" \in Phases /\ "resource" \in Phases /\ "stream" \in Phases
      /\ "finish" \in Phases /\ "failure" \in Phases
  BY DEF Phases
<1>1. CASE CheckReferenceExists(o)
  <2>1. Sized(rec') /\ recCurrent' \in BOOLEAN /\ pc' \in Phases /\ queued' \in BOOLEAN
    BY <1>0, <1>1, <1>a, <1>b DEF CheckReferenceExists, Continue, ChainFails
  <2> QED
    BY <1>0, <1>1, <2>1, CallType DEF CheckReferenceExists, crVars, outVars
<1>2. CASE acceptRegistration(o)
  BY <1>2, <1>a, <1>b, UpdateStatusType DEF acceptRegistration
<1>3. CASE CreateRemoteBranch(o)
  <2>1. Sized(rec') /\ recCurrent' \in BOOLEAN /\ pc' \in Phases /\ queued' \in BOOLEAN
    BY <1>0, <1>3, <1>a, <1>b DEF CreateRemoteBranch, Continue, ChainFails
  <2>2. remote' \in RemoteStates
    BY <1>0, <1>3 DEF CreateRemoteBranch, RemoteStates
  <2> QED
    BY <1>0, <1>3, <2>1, <2>2, CallType DEF CreateRemoteBranch, crVars
<1>4. CASE recordCreated(o)
  <2>1. Sized([rec EXCEPT !.git = TRUE])
    BY <1>0, FieldType DEF Sized
  <2> QED
    BY <1>4, <1>a, <1>b, <2>1, UpdateStatusType DEF recordCreated
<1>5. CASE ProcessNewVersion(o)
  <2>1. CASE codebase = "gone" \/ ~isSemver \/ rec.version = NoVersion \/ ~HasNewVersion(rec)
    <3>1. Sized(rec') /\ recCurrent' \in BOOLEAN /\ pc' \in Phases /\ queued' \in BOOLEAN
      BY <1>0, <1>5, <1>b, <2>1 DEF ProcessNewVersion, Continue, ChainFails
    <3>2. Outcome(o) /\ UNCHANGED <<crVars, outVars>>
      BY <1>5, <2>1 DEF ProcessNewVersion
    <3> QED
      BY <1>0, <3>1, <3>2, CallType DEF crVars, outVars
  <2>2. CASE ~(codebase = "gone" \/ ~isSemver \/ rec.version = NoVersion \/ ~HasNewVersion(rec))
    <3>1. newVersion(rec) \in BranchRecord /\ newVersion(rec).build = 0
      BY <1>0, <2>2, NewVersionType
    <3>2. Sized(newVersion(rec))
      BY <1>0, <3>1 DEF Sized
    <3>3. UpdateStatus(o, newVersion(rec), "intermediate", newVersion(rec))
      BY <1>5, <2>2 DEF ProcessNewVersion
    <3> QED
      BY <1>b, <3>2, <3>3, UpdateStatusType
  <2> QED
    BY <2>1, <2>2
<1>6. CASE setIntermediateSuccessFields(o)
  BY <1>6, <1>a, <1>b, UpdateStatusType DEF setIntermediateSuccessFields
<1>7. CASE updateResource(o)
  <2>1. Sized(resourceOf(rec))
    BY <1>0, WrittenType DEF Sized
  <2>2. Sized(cr') /\ cached' = cached /\ cacheCurrent' \in BOOLEAN
    BY <1>7, <2>1, WriteType DEF updateResource
  <2>3. Sized(rec') /\ recCurrent' \in BOOLEAN /\ pc' \in Phases /\ queued' \in BOOLEAN
    BY <1>0, <1>7, <1>b DEF updateResource, Continue, ChainFails
  <2> QED
    BY <1>0, <1>7, <2>2, <2>3, CallType DEF updateResource, outVars
<1>8. CASE createCodebaseImageStreamIfNotExists(o)
  <2>1. Sized(rec') /\ recCurrent' \in BOOLEAN /\ pc' \in Phases /\ queued' \in BOOLEAN
    BY <1>0, <1>8, <1>a, <1>b DEF createCodebaseImageStreamIfNotExists, Continue, ChainFails
  <2>2. stream' \in StreamStates /\ streamSeen' \in BOOLEAN
    BY <1>0, <1>8 DEF createCodebaseImageStreamIfNotExists, StreamStates
  <2> QED
    BY <1>0, <1>8, <2>1, <2>2, CallType DEF createCodebaseImageStreamIfNotExists, crVars
<1> QED
  BY <1>1, <1>2, <1>3, <1>4, <1>5, <1>6, <1>7, <1>8 DEF Chain

\* So do the check of the Codebase and the last writes of a reconcile.
LEMMA LastTypeOK ==
    ASSUME TypeInv, NEW o \in Outcomes,
           checkCodebaseAvailable \/ setSuccessStatus(o) \/ updateStatusOfFailure(o)
    PROVE  TypeInv'
<1>0. /\ Sized(cr) /\ Sized(cached) /\ Sized(rec) /\ pc \in Phases /\ rec \in BranchRecord
      /\ recCurrent \in BOOLEAN /\ queued \in BOOLEAN
      /\ remote \in RemoteStates /\ stream \in StreamStates /\ streamSeen \in BOOLEAN
  BY DEF Sized, BuildInv, TypeInv, TypeOK
<1>1. CASE checkCodebaseAvailable
  <2>1. Sized(failed(rec))
    BY <1>0, ValueType DEF Sized
  <2>2. CASE Requeue
    BY <1>1, <2>2, EndType DEF checkCodebaseAvailable, TypeInv, TypeOK, BuildInv, Sized, crVars, outVars, bounds
  <2>3. CASE ~Requeue
    <3>1. Sized(rec') /\ recCurrent' \in BOOLEAN /\ pc' \in Phases /\ queued' \in BOOLEAN
      BY <1>0, <1>1, <2>1, <2>3 DEF checkCodebaseAvailable, Continue, ChainFails, Phases
    <3> QED
      BY <1>1, <3>1 DEF checkCodebaseAvailable, TypeInv, TypeOK, BuildInv, Sized, crVars, outVars, bounds
  <2> QED
    BY <2>2, <2>3
<1>2. CASE setSuccessStatus(o)
  <2>1. Sized([rec EXCEPT !.value = "active"])
    BY <1>0, ValueType DEF Sized
  <2>2. Sized(statusOf(fetchedConditions([rec EXCEPT !.value = "active"])))
    BY <1>0, <2>1, WrittenType, FetchedType DEF Sized
  <2>3. Sized(cr') /\ cached' = cached /\ cacheCurrent' \in BOOLEAN
    BY <1>2, <2>2, WriteType DEF setSuccessStatus, updateStatus
  <2>4. Sized(rec') /\ recCurrent' \in BOOLEAN /\ pc' \in Phases /\ queued' \in BOOLEAN
    BY <1>2, EndType DEF setSuccessStatus
  <2> QED
    BY <1>0, <1>2, <2>3, <2>4, CallType DEF setSuccessStatus, outVars
<1>3. CASE updateStatusOfFailure(o)
  <2>1. Sized(statusOf(fetchedConditions(rec)))
    BY <1>0, WrittenType, FetchedType DEF Sized
  <2>2. Sized(cr') /\ cached' = cached /\ cacheCurrent' \in BOOLEAN
    BY <1>3, <2>1, WriteType DEF updateStatusOfFailure, updateStatus
  <2>3. Sized(rec') /\ recCurrent' \in BOOLEAN /\ pc' \in Phases /\ queued' \in BOOLEAN
    BY <1>3, EndType DEF updateStatusOfFailure
  <2> QED
    BY <1>0, <1>3, <2>2, <2>3, CallType DEF updateStatusOfFailure, outVars
<1> QED
  BY <1>1, <1>2, <1>3

\* What others write has the type, and a build number that was counted.
LEMMA OthersTypeOK ==
    ASSUME TypeInv,
           StartBuild \/ FinishBuild \/ MarkBranch \/ ChangeVersion \/ Delete
              \/ GarbageCollect \/ Collect
    PROVE  TypeInv'
<1>0. /\ cr \in BranchRecord /\ cr.build \in NoBuild .. MaxEdits /\ cr.build <= edits
      /\ edits \in 0 .. MaxEdits /\ MaxEdits \in Nat
  BY CodebaseBranchAssumption DEF TypeInv, TypeOK, BuildInv, BranchRecord
<1>1. ASSUME NEW new, Others(new), new \in BranchRecord, new.build <= edits', edits' \in 0 .. MaxEdits,
             edits <= edits', missed' \in BOOLEAN, UNCHANGED <<spec, rec, pc, queued, outVars, faults>>
      PROVE  TypeInv'
  <2>1. cached.build <= edits' /\ rec.build <= edits'
    <3>1. /\ cached.build \in NoBuild .. MaxEdits /\ rec.build \in NoBuild .. MaxEdits
          /\ cached.build <= edits /\ rec.build <= edits
      BY DEF TypeInv, TypeOK, BuildInv, BranchRecord
    <3> QED
      BY <1>0, <1>1, <3>1 DEF NoBuild
  <2> QED
    BY <1>1, <2>1 DEF Others, TypeInv, TypeOK, BuildInv, outVars
<1>2. ASSUME Edit PROVE edits' \in 0 .. MaxEdits /\ edits <= edits' /\ cr.build + 1 \in NoBuild .. MaxEdits
                        /\ cr.build + 1 <= edits' /\ cr.build <= edits'
  BY <1>0, <1>2 DEF Edit, NoBuild
<1>3. CASE StartBuild
  <2>1. /\ [cr EXCEPT !.build = cr.build + 1] \in BranchRecord
        /\ [cr EXCEPT !.build = cr.build + 1].build = cr.build + 1
    BY <1>0, <1>2, <1>3, ValueType DEF StartBuild
  <2>2. missed' \in BOOLEAN
    BY <1>3 DEF StartBuild, TypeInv, TypeOK
  <2>3. Others([cr EXCEPT !.build = cr.build + 1]) /\ UNCHANGED <<spec, rec, pc, queued, outVars, faults>>
    BY <1>3 DEF StartBuild
  <2>4. Edit
    BY <1>3 DEF StartBuild
  <2>5. [cr EXCEPT !.build = cr.build + 1].build <= edits'
    BY <1>2, <2>1, <2>4
  <2> QED
    BY <1>1, <1>2, <2>1, <2>2, <2>3, <2>4, <2>5
<1>4. CASE FinishBuild
  <2>0. cr.build \in 0 .. MaxEdits
    BY <1>0, <1>4 DEF FinishBuild, NoBuild
  <2>1. [cr EXCEPT !.last = cr.build] \in BranchRecord /\ [cr EXCEPT !.last = cr.build].build = cr.build
    BY <1>0, <2>0, ValueType
  <2>2. missed' \in BOOLEAN
    BY <1>4 DEF FinishBuild, TypeInv, TypeOK
  <2>3. Others([cr EXCEPT !.last = cr.build]) /\ UNCHANGED <<spec, rec, pc, queued, outVars, faults>> /\ Edit
    BY <1>4 DEF FinishBuild
  <2> QED
    BY <1>1, <1>2, <2>1, <2>2, <2>3
<1>5. CASE MarkBranch
  <2>1. (~cr.stale) \in BOOLEAN
    OBVIOUS
  <2>2. [cr EXCEPT !.stale = ~cr.stale] \in BranchRecord /\ [cr EXCEPT !.stale = ~cr.stale].build = cr.build
    BY <1>0, <2>1, FieldType
  <2>3. Others([cr EXCEPT !.stale = ~cr.stale]) /\ UNCHANGED <<spec, rec, pc, queued, outVars, faults>> /\ Edit
        /\ missed' \in BOOLEAN
    BY <1>5 DEF MarkBranch, TypeInv, TypeOK
  <2> QED
    BY <1>1, <1>2, <2>2, <2>3
<1>6. CASE ChangeVersion
  <2>1. PICK v \in Versions \ {NoVersion, cr.version} : Others([cr EXCEPT !.version = v])
    BY <1>6 DEF ChangeVersion
  <2>2. [cr EXCEPT !.version = v] \in BranchRecord /\ [cr EXCEPT !.version = v].build = cr.build
    BY <1>0, ValueType
  <2>3. UNCHANGED <<spec, rec, pc, queued, outVars, faults>> /\ Edit /\ missed' \in BOOLEAN
    BY <1>6 DEF ChangeVersion, TypeInv, TypeOK
  <2> QED
    BY <1>1, <1>2, <2>1, <2>2, <2>3
<1>7. CASE Delete
  <2>1. deleted \in BranchRecord /\ deleted.build = cr.build
    BY <1>0, FieldType DEF deleted
  <2>2. Others(deleted) /\ UNCHANGED <<spec, rec, pc, queued, outVars, faults>> /\ Edit /\ missed' \in BOOLEAN
    BY <1>7 DEF Delete, TypeInv, TypeOK
  <2> QED
    BY <1>1, <1>2, <2>1, <2>2
<1>8. CASE GarbageCollect
  <2>1. deleted \in BranchRecord /\ deleted.build = cr.build
    BY <1>0, FieldType DEF deleted
  <2>2. Others(deleted) /\ UNCHANGED <<spec, rec, pc, queued, outVars, faults>> /\ edits' = edits
        /\ missed' \in BOOLEAN
    BY <1>8 DEF GarbageCollect, bounds, TypeInv, TypeOK
  <2> QED
    BY <1>0, <1>1, <2>1, <2>2
<1>9. CASE Collect
  <2>1. [cr EXCEPT !.exists = FALSE] \in BranchRecord /\ [cr EXCEPT !.exists = FALSE].build = cr.build
    BY <1>0, FieldType
  <2>2. Others([cr EXCEPT !.exists = FALSE]) /\ UNCHANGED <<spec, rec, pc, queued, outVars, faults>>
        /\ edits' = edits /\ missed' \in BOOLEAN
    BY <1>9 DEF Collect, bounds, TypeInv, TypeOK
  <2>3. /\ [cr EXCEPT !.exists = FALSE].build <= edits'
        /\ edits' \in 0 .. MaxEdits /\ edits <= edits'
    BY <1>0, <2>1, <2>2
  <2> QED
    BY <1>1, <2>1, <2>2, <2>3
<1> QED
  BY <1>3, <1>4, <1>5, <1>6, <1>7, <1>8, <1>9

\* The watches, a restart, the Codebase and the git server keep the types.
LEMMA EnvironmentTypeOK ==
    ASSUME TypeInv,
           Watch \/ WatchStream \/ Restart \/ RemoveRemoteBranch \/ CodebasePushed
              \/ CodebaseAvailable \/ CodebaseBusy \/ DeleteCodebase
    PROVE  TypeInv'
<1> USE DEF TypeInv, TypeOK, BuildInv
<1>0. ASSUME Edit PROVE /\ edits' \in 0 .. MaxEdits
                        /\ cr.build <= edits' /\ cached.build <= edits' /\ rec.build <= edits'
  <2>1. /\ cr.build \in NoBuild .. MaxEdits /\ cached.build \in NoBuild .. MaxEdits
        /\ rec.build \in NoBuild .. MaxEdits
    BY DEF BranchRecord
  <2> QED
    BY <1>0, <2>1, CodebaseBranchAssumption DEF Edit, NoBuild
<1>1. CASE Watch
  BY <1>1 DEF Watch, outVars, bounds
<1>2. CASE WatchStream
  BY <1>2 DEF WatchStream, crVars, recVars, bounds
<1>3. CASE Restart
  <2>1. faults' \in 0 .. MaxFaults
    BY <1>3, CodebaseBranchAssumption DEF Restart
  <2>2. NoCopy.build <= edits
    BY NoCopyType, CodebaseBranchAssumption DEF NoBuild
  <2>3. queued' \in BOOLEAN
    BY <1>3 DEF Restart, BranchRecord
  <2> QED
    BY <1>3, <2>1, <2>2, <2>3, NoCopyType DEF Restart, Phases
<1>4. CASE RemoveRemoteBranch
  BY <1>0, <1>4 DEF RemoveRemoteBranch, RemoteStates, crVars, recVars
<1>5. CASE CodebasePushed
  BY <1>5 DEF CodebasePushed, Lifecycle!Pushed, Lifecycle!CodebaseStates, crVars, recVars, bounds
<1>6. CASE CodebaseAvailable
  BY <1>6 DEF CodebaseAvailable, Lifecycle!Available, Lifecycle!CodebaseStates, crVars, recVars, bounds
<1>7. CASE CodebaseBusy
  BY <1>0, <1>7 DEF CodebaseBusy, Lifecycle!Busy, Lifecycle!CodebaseStates, crVars, recVars
<1>8. CASE DeleteCodebase
  BY <1>0, <1>8 DEF DeleteCodebase, Lifecycle!Deleted, Lifecycle!CodebaseStates, crVars, recVars
<1> QED
  BY <1>1, <1>2, <1>3, <1>4, <1>5, <1>6, <1>7, <1>8

\* The types hold at the start.
LEMMA InitTypeOK == Init => TypeInv
<1> SUFFICES ASSUME Init PROVE TypeInv
  OBVIOUS
<1>1. spec \in Starts /\ spec.pipelines \in BOOLEAN /\ spec.version \in Versions /\ spec.stream \in StreamStates
  BY CodebaseBranchAssumption DEF Init, Versions, NoVersion, StreamStates
<1>2. cr \in BranchRecord /\ cr.build = NoBuild
  BY <1>1, NewType DEF Init
<1>3. 0 \in 0 .. MaxFaults /\ 0 \in 0 .. MaxEdits /\ NoBuild <= 0
  BY CodebaseBranchAssumption DEF NoBuild
<1> QED
  BY <1>1, <1>2, <1>3, NoCopyType
     DEF Init, TypeInv, TypeOK, BuildInv, Phases, RemoteStates, Lifecycle!Init, Lifecycle!CodebaseStates

\* Every step keeps the types.
LEMMA NextTypeOK == TypeInv /\ [Next]_vars => TypeInv'
<1> SUFFICES ASSUME TypeInv, [Next]_vars PROVE TypeInv'
  OBVIOUS
<1>1. CASE Controller
  BY <1>1, PrepareTypeOK, ChainTypeOK, LastTypeOK DEF Controller, Outcomes
<1>2. CASE Environment
  BY <1>2, OthersTypeOK, EnvironmentTypeOK DEF Environment
<1>3. CASE StartBuild \/ FinishBuild \/ MarkBranch
  BY <1>3, OthersTypeOK
<1>4. CASE UNCHANGED vars
  BY <1>4 DEF vars, crVars, recVars, outVars, bounds, TypeInv, TypeOK, BuildInv
<1> QED
  BY <1>1, <1>2, <1>3, <1>4 DEF Next

\* The state of the controller, the caches and the outside always has its type: build numbers
\* stay within the builds that were started, whichever stale copy is written.
THEOREM TypesCorrect == Spec => []TypeOK
<1>1. Spec => []TypeInv
  BY InitTypeOK, NextTypeOK, PTL DEF Spec
<1>2. TypeInv => TypeOK
  BY DEF TypeInv
<1> QED
  BY <1>1, <1>2, PTL

(***************************************************************************)
(* The inductive invariants.                                               *)
(***************************************************************************)

\* The phases of the chain, and those after a handler has done its work.
ChainPhases ==
    {"reference", "accept", "available", "create", "created", "version", "intermediate",
     "resource", "stream", "finish"}
AfterCreated == {"version", "intermediate", "resource", "stream", "finish"}
AfterVersion == {"intermediate", "resource", "stream", "finish"}
AfterResource == {"stream", "finish"}

\* A branch is known to be created only after it was on the git server.
GitInv ==
    /\ cr.git \/ cached.git \/ rec.git => remote # "absent"
    /\ pc = "created" => remote # "absent"

\* No history has a version twice.
DistinctInv ==
    IsInjective(cr.history) /\ IsInjective(cached.history) /\ IsInjective(rec.history)

\* The copies against the branch: how far they may lag behind.
LagInv ==
    /\ cacheCurrent => cached = cr
    /\ cached.deleting \/ rec.deleting => cr.deleting
    /\ pc = "release" => rec.deleting
    /\ cached.owned => cr.owned
    /\ recCurrent => rec.finalizer = cr.finalizer /\ rec.stale = cr.stale
    /\ pc \in ChainPhases \cup {"label", "finalizer"} => rec.owned

\* What the chain has established when it comes to a phase.
PhaseInv ==
    /\ pc \in ChainPhases => rec.finalizer /\ (isSemver => rec.build # NoBuild)
    /\ pc \in AfterCreated => rec.git
    /\ pc \in AfterVersion /\ isSemver => rec.history # <<>>
    /\ pc = "finish" => stream = "there"

\* The resource is stored: the owner, and the finalizer unless the branch is being deleted.
Stored == cr.owned /\ (cr.finalizer \/ cr.deleting)

\* A status that says active says the rest too.
StatusOK(r) ==
    r.value = "active" => r.git /\ (isSemver => r.build # NoBuild /\ r.history # <<>>)

\* Once the branch is active, what it stands for is there, whichever copy says so.
ActiveInv ==
    /\ pc \in AfterResource => Stored
    /\ cr.value = "active" \/ cached.value = "active" \/ rec.value = "active"
          => Stored /\ stream = "there"
    /\ StatusOK(cr) /\ StatusOK(cached) /\ StatusOK(rec)

\* A copy that missed nothing has the progress of the branch, or one version more.
SameProgress ==
    /\ rec.history = cr.history
    /\ rec.build = cr.build \/ (cr.build = NoBuild /\ rec.build = 0)

NewProgress ==
    /\ pc = "failure" /\ rec.version # NoVersion /\ rec.history = Append(cr.history, rec.version)
    /\ rec.build = 0 /\ rec.last = NoSuccess

ProgressInv == ~missed /\ pc # "idle" => SameProgress \/ NewProgress

\* The fields of the empty copy that matter.
LEMMA NoCopyFields ==
    /\ ~NoCopy.git /\ NoCopy.history = <<>> /\ NoCopy.value = "" /\ ~NoCopy.deleting
    /\ ~NoCopy.owned
BY DEF NoCopy, NewBranch

\* What Reconcile reads: nothing, the cached branch, or that with its owner.
LEMMA ReconcileFields ==
    ASSUME TypeInv, Reconcile
    PROVE  /\ UNCHANGED <<spec, cr, cached, cacheCurrent, codebase, remote, stream>>
           /\ \/ pc = "idle" /\ pc' = "idle" /\ rec' = rec /\ recCurrent' = recCurrent
              \/ /\ cached.exists /\ recCurrent' = cacheCurrent
                 /\ \/ pc' = "release" /\ rec' = cached /\ cached.deleting
                    \/ pc' \in {"defaults", "failure"} /\ rec' = cached
                    \/ pc' = "label" /\ rec' = [cached EXCEPT !.owned = TRUE]
BY DEF Reconcile, crVars, outVars

\* The owner is all that the copy adds to the cached branch.
LEMMA OwnedFields ==
    ASSUME NEW r \in BranchRecord, NEW s, s = [r EXCEPT !.owned = TRUE]
    PROVE  /\ s.owned /\ s.finalizer = r.finalizer /\ s.deleting = r.deleting
           /\ s.git = r.git /\ s.value = r.value /\ s.build = r.build /\ s.last = r.last
           /\ s.history = r.history /\ s.stale = r.stale
BY DEF BranchRecord

\* An update of the resource leaves the status alone.
LEMMA ResourceFields ==
    ASSUME cr \in BranchRecord, NEW r, NEW s, s = resourceOf(r)
    PROVE  /\ s.owned = r.owned /\ s.finalizer = r.finalizer /\ s.deleting = cr.deleting
           /\ s.git = cr.git /\ s.value = cr.value /\ s.build = cr.build /\ s.last = cr.last
           /\ s.history = cr.history /\ s.stale = cr.stale
BY DEF BranchRecord, resourceOf

\* An update of the status leaves the resource alone.
LEMMA StatusFields ==
    ASSUME cr \in BranchRecord, NEW r, NEW s, s = statusOf(r)
    PROVE  /\ s.owned = cr.owned /\ s.finalizer = cr.finalizer /\ s.deleting = cr.deleting
           /\ s.git = r.git /\ s.value = r.value /\ s.build = r.build /\ s.last = r.last
           /\ s.history = r.history /\ s.stale = r.stale
BY DEF BranchRecord, statusOf

\* Where the chain starts, and with which copy.
LEMMA ChainFields ==
    ASSUME NEW r \in BranchRecord, chain(r)
    PROVE  /\ rec'.owned = r.owned /\ rec'.finalizer = r.finalizer /\ rec'.deleting = r.deleting
           /\ rec'.git = r.git /\ rec'.value = r.value /\ rec'.last = r.last
           /\ rec'.history = r.history /\ rec'.stale = r.stale
           /\ rec'.build = r.build \/ (r.build = NoBuild /\ rec'.build = 0)
           /\ isSemver => rec'.build # NoBuild
           /\ pc' \in {"version", "accept", "reference"} /\ (pc' = "version" => r.git)
<1>1. rec' = IF isSemver /\ r.build = NoBuild THEN [r EXCEPT !.build = 0] ELSE r
  BY DEF chain, Continue
<1>2. pc' \in {"version", "accept", "reference"} /\ (pc' = "version" => r.git)
  BY DEF chain, Continue
<1>3. CASE isSemver /\ r.build = NoBuild
  <2>1. rec' = [r EXCEPT !.build = 0]
    BY <1>1, <1>3
  <2>2. /\ rec'.owned = r.owned /\ rec'.finalizer = r.finalizer /\ rec'.deleting = r.deleting
        /\ rec'.git = r.git /\ rec'.value = r.value /\ rec'.last = r.last
        /\ rec'.history = r.history /\ rec'.build = 0 /\ rec'.stale = r.stale
    BY <2>1 DEF BranchRecord
  <2>3. 0 # NoBuild
    BY DEF NoBuild
  <2> QED
    BY <1>2, <1>3, <2>2, <2>3
<1>4. CASE ~(isSemver /\ r.build = NoBuild)
  <2>1. rec' = r
    BY <1>1, <1>4
  <2> QED
    BY <1>2, <1>4, <2>1
<1> QED
  BY <1>3, <1>4

\* What follows the labels: the deletion, the finalizer or the chain.
LEMMA AfterLabelFields ==
    ASSUME NEW r \in BranchRecord, afterLabel(r)
    PROVE  \/ r.deleting /\ pc' = "release" /\ rec' = r
           \/ pc' = "finalizer" /\ rec' = r
           \/ r.finalizer /\ chain(r)
BY DEF afterLabel, Continue

\* The labels are stored, or they are not; the copy has them.
LEMMA LabelFields ==
    ASSUME TypeInv, NEW o, AddCodebaseLabel(o)
    PROVE  /\ \/ cr' = cr /\ cacheCurrent' = cacheCurrent
              \/ recCurrent /\ cr' = resourceOf([rec EXCEPT !.labelled = TRUE]) /\ ~cacheCurrent'
           /\ cached' = cached /\ (recCurrent' => recCurrent)
           /\ afterLabel([rec EXCEPT !.labelled = TRUE]) /\ pc = "label"
           /\ [rec EXCEPT !.labelled = TRUE] \in BranchRecord
           /\ UNCHANGED <<spec, missed, codebase, remote, stream>>
<1>1. rec \in BranchRecord /\ recCurrent \in BOOLEAN /\ cacheCurrent \in BOOLEAN
  BY DEF TypeInv, TypeOK
<1>2. [rec EXCEPT !.labelled = TRUE] \in BranchRecord
  BY <1>1, FieldType
<1>3. CASE rec.labelled
  BY <1>1, <1>2, <1>3 DEF AddCodebaseLabel, Outcome, outVars, crVars
<1>4. CASE ~rec.labelled
  BY <1>1, <1>2, <1>4 DEF AddCodebaseLabel, Outcome, outVars, WriteCR, Writes
<1> QED
  BY <1>3, <1>4

\* The labels are all that the copy adds.
LEMMA LabelledFields ==
    ASSUME NEW r \in BranchRecord, NEW s, s = [r EXCEPT !.labelled = TRUE]
    PROVE  /\ s.owned = r.owned /\ s.finalizer = r.finalizer /\ s.deleting = r.deleting
           /\ s.git = r.git /\ s.value = r.value /\ s.build = r.build /\ s.last = r.last
           /\ s.history = r.history /\ s.stale = r.stale
BY DEF BranchRecord

\* The finalizer is all that the copy adds.
LEMMA FinalizedFields ==
    ASSUME NEW r \in BranchRecord, NEW s, s = [r EXCEPT !.finalizer = TRUE]
    PROVE  /\ s.owned = r.owned /\ s.finalizer /\ s.deleting = r.deleting
           /\ s.git = r.git /\ s.value = r.value /\ s.build = r.build /\ s.last = r.last
           /\ s.history = r.history /\ s.stale = r.stale
BY DEF BranchRecord

\* The finalizer is stored before the chain starts.
LEMMA FinalizerFields ==
    ASSUME TypeInv, NEW o, AddFinalizer(o)
    PROVE  /\ \/ cr'.owned = cr.owned /\ cr'.finalizer = cr.finalizer /\ pc' = "idle"
              \/ cr'.owned = rec.owned /\ cr'.finalizer /\ recCurrent
           /\ cr'.deleting = cr.deleting /\ cr'.git = cr.git /\ cr'.value = cr.value
           /\ cr'.build = cr.build /\ cr'.history = cr.history /\ cr'.stale = cr.stale
           /\ pc = "finalizer" /\ cached' = cached /\ (cacheCurrent' => cacheCurrent /\ cr' = cr)
           /\ UNCHANGED <<spec, missed, codebase, remote, stream>>
           /\ \/ pc' = "idle" /\ rec' = NoCopy /\ recCurrent' = FALSE
              \/ /\ rec'.owned = rec.owned /\ rec'.finalizer /\ rec'.deleting = rec.deleting
                 /\ rec'.git = rec.git /\ rec'.value = rec.value /\ rec'.history = rec.history
                 /\ rec'.stale = rec.stale /\ recCurrent' = recCurrent
                 /\ rec'.build = rec.build \/ (rec.build = NoBuild /\ rec'.build = 0)
                 /\ isSemver => rec'.build # NoBuild
                 /\ pc' \in {"version", "accept", "reference"} /\ (pc' = "version" => rec'.git)
                 /\ cr'.finalizer
<1> DEFINE r == [rec EXCEPT !.finalizer = TRUE]
<1>1. /\ cr \in BranchRecord /\ rec \in BranchRecord /\ cacheCurrent \in BOOLEAN
  BY DEF TypeInv, TypeOK
<1>2. r \in BranchRecord
  BY <1>1, FieldType
<1>3. /\ r.owned = rec.owned /\ r.finalizer /\ r.deleting = rec.deleting
      /\ r.git = rec.git /\ r.value = rec.value /\ r.build = rec.build
      /\ r.history = rec.history /\ r.stale = rec.stale
  BY <1>1, FinalizedFields
<1>4. /\ \/ cr' = cr /\ pc' = "idle"
         \/ recCurrent /\ cr' = resourceOf(r) /\ ~cacheCurrent'
      /\ \/ chain(r) /\ cr' = resourceOf(r) /\ recCurrent' = recCurrent
         \/ pc' = "idle" /\ rec' = NoCopy /\ recCurrent' = FALSE
      /\ pc = "finalizer" /\ cached' = cached /\ (cacheCurrent' => cacheCurrent /\ cr' = cr)
      /\ UNCHANGED <<spec, missed, codebase, remote, stream>>
  BY <1>1 DEF AddFinalizer, Outcome, outVars, WriteCR, Writes, Requeue
<1> HIDE DEF r
<1>5. cr' = resourceOf(r) => /\ cr'.owned = rec.owned /\ cr'.finalizer /\ cr'.deleting = cr.deleting
                             /\ cr'.git = cr.git /\ cr'.value = cr.value
                             /\ cr'.build = cr.build /\ cr'.history = cr.history
                             /\ cr'.stale = cr.stale
  BY <1>1, <1>3, ResourceFields
<1>6. chain(r) =>
         /\ rec'.owned = rec.owned /\ rec'.finalizer /\ rec'.deleting = rec.deleting
         /\ rec'.git = rec.git /\ rec'.value = rec.value /\ rec'.history = rec.history
         /\ rec'.stale = rec.stale
         /\ rec'.build = rec.build \/ (rec.build = NoBuild /\ rec'.build = 0)
         /\ isSemver => rec'.build # NoBuild
         /\ pc' \in {"version", "accept", "reference"} /\ (pc' = "version" => rec'.git)
  BY <1>2, <1>3, ChainFields
<1> QED
  BY <1>4, <1>5, <1>6

\* A new version is appended to the history and starts from zero.
LEMMA NewVersionFields ==
    ASSUME NEW r \in BranchRecord, r.version # NoVersion, NEW s, s = newVersion(r)
    PROVE  /\ s.owned = r.owned /\ s.finalizer = r.finalizer /\ s.deleting = r.deleting
           /\ s.git = r.git /\ s.value = r.value /\ s.version = r.version
           /\ s.build = 0 /\ s.last = NoSuccess /\ s.stale = r.stale
           /\ s.history = Append(r.history, r.version) /\ s.history # <<>>
<1>1. r.history \in Seq(1 .. MaxVersion) /\ r.version \in Versions
  BY DEF BranchRecord
<1>2. r.version \in 1 .. MaxVersion
  BY <1>1, CodebaseBranchAssumption DEF Versions, NoVersion
<1>3. Append(r.history, r.version) # <<>>
  BY <1>1, <1>2
<1> QED
  BY <1>3 DEF BranchRecord, newVersion

\* What ProcessNewVersion does: nothing, or the status update of a new version.
LEMMA VersionFields ==
    ASSUME TypeInv, NEW o, ProcessNewVersion(o)
    PROVE  /\ pc = "version" /\ cached' = cached
           /\ UNCHANGED <<spec, missed, codebase, remote, stream>>
           /\ \/ /\ cr' = cr /\ cacheCurrent' = cacheCurrent /\ rec' = rec
                 /\ \/ pc' = "failure" /\ ~recCurrent'
                    \/ /\ pc' = "intermediate" /\ recCurrent' = recCurrent
                       /\ isSemver => ~HasNewVersion(rec)
              \/ /\ rec.version # NoVersion /\ HasNewVersion(rec) /\ rec' = newVersion(rec)
                 /\ \/ cr' = cr /\ cacheCurrent' = cacheCurrent /\ pc' = "failure" /\ ~recCurrent'
                    \/ /\ cr' = statusOf(newVersion(rec)) /\ ~cacheCurrent'
                       /\ \/ pc' = "failure" /\ ~recCurrent'
                          \/ pc' = "intermediate" /\ recCurrent' = recCurrent
<1>1. CASE codebase = "gone" \/ ~isSemver \/ rec.version = NoVersion \/ ~HasNewVersion(rec)
  BY <1>1 DEF ProcessNewVersion, Outcome, crVars, outVars, ChainFails, Continue
<1>2. CASE ~(codebase = "gone" \/ ~isSemver \/ rec.version = NoVersion \/ ~HasNewVersion(rec))
  <2>1. UpdateStatus(o, newVersion(rec), "intermediate", newVersion(rec)) /\ pc = "version"
    BY <1>2 DEF ProcessNewVersion
  <2>2. cacheCurrent \in BOOLEAN
    BY DEF TypeInv, TypeOK
  <2> QED
    BY <1>2, <2>1, <2>2 DEF UpdateStatus, Outcome, outVars, WriteCR, Writes, ChainFails, Continue
<1> QED
  BY <1>1, <1>2

\* A history that has the version is not empty.
LEMMA KnownVersion ==
    ASSUME NEW r \in BranchRecord, ~HasNewVersion(r)
    PROVE  r.history # <<>>
BY DEF HasNewVersion

\* A failure is all that the copy adds.
LEMMA FailedFields ==
    ASSUME NEW r \in BranchRecord, NEW s, s = failed(r)
    PROVE  /\ s.owned = r.owned /\ s.finalizer = r.finalizer /\ s.deleting = r.deleting
BY DEF BranchRecord, failed

\* A sequence is a prefix of itself and of what is appended to it, which is another one.
LEMMA PrefixOf ==
    ASSUME NEW S, NEW s \in Seq(S), NEW v \in S
    PROVE  IsPrefix(s, s) /\ IsPrefix(s, Append(s, v)) /\ Append(s, v) # s
<1>1. Len(s) \in Nat /\ Len(Append(s, v)) = Len(s) + 1
  OBVIOUS
<1>2. SubSeq(Append(s, v), 1, Len(s)) = SubSeq(s, 1, Len(s))
  OBVIOUS
<1>3. Len(s) <= Len(s) /\ Len(s) <= Len(Append(s, v))
  BY <1>1
<1>4. Append(s, v) # s
  BY <1>1
<1> QED
  BY <1>2, <1>3, <1>4 DEF IsPrefix

\* A version that is not in the history can be appended.
LEMMA AppendDistinct ==
    ASSUME NEW r \in BranchRecord, r.version # NoVersion, HasNewVersion(r), IsInjective(r.history)
    PROVE  IsInjective(Append(r.history, r.version))
<1> DEFINE h == r.history
           v == r.version
<1>1. h \in Seq(1 .. MaxVersion) /\ v \in Versions
  BY DEF BranchRecord
<1>2. v \in 1 .. MaxVersion
  BY <1>1, CodebaseBranchAssumption DEF Versions, NoVersion
<1>3. /\ DOMAIN h = 1 .. Len(h) /\ DOMAIN Append(h, v) = 1 .. (Len(h) + 1) /\ Len(h) \in Nat
      /\ Append(h, v)[Len(h) + 1] = v
      /\ \A i \in 1 .. Len(h) : Append(h, v)[i] = h[i]
  BY <1>1, <1>2
<1>4. /\ \A i \in 1 .. Len(h) : h[i] # v
      /\ \A i, j \in 1 .. Len(h) : h[i] = h[j] => i = j
  BY <1>3 DEF HasNewVersion, IsInjective
<1> HIDE DEF h, v
<1>5. ASSUME NEW i \in 1 .. (Len(h) + 1), NEW j \in 1 .. (Len(h) + 1), Append(h, v)[i] = Append(h, v)[j]
      PROVE  i = j
  <2>1. i \in 1 .. Len(h) \/ i = Len(h) + 1
    BY <1>3
  <2>2. j \in 1 .. Len(h) \/ j = Len(h) + 1
    BY <1>3
  <2> QED
    BY <1>3, <1>4, <1>5, <2>1, <2>2
<1> QED
  BY <1>3, <1>5 DEF IsInjective, h, v

\* The empty history has no version twice.
LEMMA EmptyDistinct == IsInjective(<<>>)
BY DEF IsInjective

\* A build number that was initialised stays so when it is counted up.
LEMMA CountedUp ==
    ASSUME NEW n \in NoBuild .. MaxEdits, n # NoBuild
    PROVE  n + 1 # NoBuild
BY CodebaseBranchAssumption DEF NoBuild

\* What others do is counted.
LEMMA EditCounted ==
    ASSUME TypeInv, Edit
    PROVE  edits' # edits
<1>1. edits \in Nat
  BY CodebaseBranchAssumption DEF TypeInv, TypeOK
<1> QED
  BY <1>1 DEF Edit

(***************************************************************************)
(* The invariants are inductive.  A step that is not listed with more than *)
(* its definitions leaves alone what the invariant speaks of, or moves it  *)
(* as it is from the branch to the cache, to the copy, and back.           *)
(***************************************************************************)

USE DEF Outcome, Continue, ChainFails, Done, Requeue, Writes, WriteCR, Others, Edit,
        crVars, recVars, outVars, bounds, vars

\* A step that says "created" follows one that saw the branch created.
LEMMA NextGit == TypeInv /\ GitInv /\ [Next]_vars => GitInv'
<1> SUFFICES ASSUME TypeInv, GitInv, [Next]_vars PROVE GitInv'
  OBVIOUS
<1> USE DEF GitInv, TypeInv, TypeOK, BranchRecord
<1>1. CASE Reconcile
  BY <1>1 DEF Reconcile
<1>2. ASSUME NEW o \in Outcomes, setDefaultValues(o) PROVE GitInv'
  BY <1>2, NoCopyFields DEF setDefaultValues
<1>3. ASSUME NEW o \in Outcomes, AddCodebaseLabel(o) PROVE GitInv'
  BY <1>3 DEF AddCodebaseLabel, afterLabel, chain, resourceOf
<1>4. ASSUME NEW o \in Outcomes, AddFinalizer(o) PROVE GitInv'
  BY <1>4, NoCopyFields DEF AddFinalizer, chain, resourceOf
<1>5. ASSUME NEW o \in Outcomes, RemoveFinalizer(o) PROVE GitInv'
  BY <1>5, NoCopyFields DEF RemoveFinalizer
<1>6. ASSUME NEW o \in Outcomes, CheckReferenceExists(o) PROVE GitInv'
  BY <1>6 DEF CheckReferenceExists, failed
<1>7. ASSUME NEW o \in Outcomes, acceptRegistration(o) PROVE GitInv'
  BY <1>7 DEF acceptRegistration, UpdateStatus, inactive, statusOf
<1>8. CASE checkCodebaseAvailable
  BY <1>8, NoCopyFields DEF checkCodebaseAvailable, failed
<1>9. ASSUME NEW o \in Outcomes, CreateRemoteBranch(o) PROVE GitInv'
  BY <1>9 DEF CreateRemoteBranch, failed
<1>10. ASSUME NEW o \in Outcomes, recordCreated(o) PROVE GitInv'
  BY <1>10 DEF recordCreated, UpdateStatus, failed, statusOf
<1>11. ASSUME NEW o \in Outcomes, ProcessNewVersion(o) PROVE GitInv'
  BY <1>11 DEF ProcessNewVersion, UpdateStatus, newVersion, statusOf
<1>12. ASSUME NEW o \in Outcomes, setIntermediateSuccessFields(o) PROVE GitInv'
  BY <1>12 DEF setIntermediateSuccessFields, UpdateStatus, intermediate, statusOf
<1>13. ASSUME NEW o \in Outcomes, updateResource(o) PROVE GitInv'
  BY <1>13 DEF updateResource, resourceOf
<1>14. ASSUME NEW o \in Outcomes, createCodebaseImageStreamIfNotExists(o) PROVE GitInv'
  BY <1>14 DEF createCodebaseImageStreamIfNotExists, failed, streamFailed
<1>15. ASSUME NEW o \in Outcomes, setSuccessStatus(o) PROVE GitInv'
  BY <1>15, NoCopyFields DEF setSuccessStatus, updateStatus, fetchedConditions, statusOf
<1>16. ASSUME NEW o \in Outcomes, updateStatusOfFailure(o) PROVE GitInv'
  BY <1>16, NoCopyFields DEF updateStatusOfFailure, updateStatus, fetchedConditions, statusOf
<1>17. CASE Watch
  BY <1>17 DEF Watch
<1>18. CASE WatchStream
  BY <1>18 DEF WatchStream
<1>19. CASE Delete
  BY <1>19 DEF Delete, deleted
<1>20. CASE GarbageCollect
  BY <1>20 DEF GarbageCollect, deleted
<1>21. CASE Collect
  BY <1>21 DEF Collect
<1>22. CASE Restart
  BY <1>22, NoCopyFields DEF Restart
<1>23. CASE ChangeVersion
  BY <1>23 DEF ChangeVersion
<1>24. CASE RemoveRemoteBranch
  BY <1>24 DEF RemoveRemoteBranch
<1>25. CASE CodebasePushed
  BY <1>25 DEF CodebasePushed, Lifecycle!Pushed
<1>26. CASE CodebaseAvailable
  BY <1>26 DEF CodebaseAvailable, Lifecycle!Available
<1>27. CASE CodebaseBusy
  BY <1>27 DEF CodebaseBusy, Lifecycle!Busy
<1>28. CASE DeleteCodebase
  BY <1>28 DEF DeleteCodebase, Lifecycle!Deleted
<1>29. CASE StartBuild
  BY <1>29 DEF StartBuild
<1>30. CASE FinishBuild
  BY <1>30 DEF FinishBuild
<1>31. CASE MarkBranch
  BY <1>31 DEF MarkBranch
<1>32. CASE UNCHANGED vars
  BY <1>32
<1> HIDE DEF GitInv, TypeInv, TypeOK, BranchRecord
<1> QED
  BY <1>1, <1>2, <1>3, <1>4, <1>5, <1>6, <1>7, <1>8, <1>9, <1>10, <1>11, <1>12, <1>13, <1>14,
     <1>15, <1>16, <1>17, <1>18, <1>19, <1>20, <1>21, <1>22, <1>23, <1>24, <1>25, <1>26, <1>27,
     <1>28, <1>29, <1>30, <1>31, <1>32
     DEF Next, Controller, Environment, Prepare, Chain

\* A version is appended only by ProcessNewVersion, to the history it was looked up in.
LEMMA NextDistinct == TypeInv /\ DistinctInv /\ [Next]_vars => DistinctInv'
<1> SUFFICES ASSUME TypeInv, DistinctInv, [Next]_vars PROVE DistinctInv'
  OBVIOUS
<1> USE DEF DistinctInv, TypeInv, TypeOK, BranchRecord
<1>1. CASE Reconcile
  BY <1>1 DEF Reconcile
<1>2. ASSUME NEW o \in Outcomes, setDefaultValues(o) PROVE DistinctInv'
  BY <1>2, NoCopyFields, EmptyDistinct DEF setDefaultValues
<1>3. ASSUME NEW o \in Outcomes, AddCodebaseLabel(o) PROVE DistinctInv'
  BY <1>3 DEF AddCodebaseLabel, afterLabel, chain, resourceOf
<1>4. ASSUME NEW o \in Outcomes, AddFinalizer(o) PROVE DistinctInv'
  BY <1>4, NoCopyFields, EmptyDistinct DEF AddFinalizer, chain, resourceOf
<1>5. ASSUME NEW o \in Outcomes, RemoveFinalizer(o) PROVE DistinctInv'
  BY <1>5, NoCopyFields, EmptyDistinct DEF RemoveFinalizer
<1>6. ASSUME NEW o \in Outcomes, CheckReferenceExists(o) PROVE DistinctInv'
  BY <1>6 DEF CheckReferenceExists, failed
<1>7. ASSUME NEW o \in Outcomes, acceptRegistration(o) PROVE DistinctInv'
  BY <1>7 DEF acceptRegistration, UpdateStatus, inactive, statusOf
<1>8. CASE checkCodebaseAvailable
  BY <1>8, NoCopyFields, EmptyDistinct DEF checkCodebaseAvailable, failed
<1>9. ASSUME NEW o \in Outcomes, CreateRemoteBranch(o) PROVE DistinctInv'
  BY <1>9 DEF CreateRemoteBranch, failed
<1>10. ASSUME NEW o \in Outcomes, recordCreated(o) PROVE DistinctInv'
  BY <1>10 DEF recordCreated, UpdateStatus, failed, statusOf
<1>11. ASSUME NEW o \in Outcomes, ProcessNewVersion(o) PROVE DistinctInv'
  <2> HIDE DEF BranchRecord, TypeInv, TypeOK
  <2>0. cr \in BranchRecord /\ cached \in BranchRecord /\ rec \in BranchRecord
    BY DEF TypeInv, TypeOK
  <2>1. CASE rec' = rec /\ cr' = cr
    BY <1>11, <2>1, VersionFields
  <2>2. CASE rec' = newVersion(rec) /\ rec.version # NoVersion /\ HasNewVersion(rec)
    <3>1. IsInjective(rec'.history)
      BY <2>0, <2>2, NewVersionFields, AppendDistinct
    <3>2. cr' = cr \/ cr'.history = rec'.history
      BY <1>11, <2>0, <2>2, VersionFields, StatusFields
    <3> QED
      BY <1>11, <3>1, <3>2, VersionFields
  <2> QED
    BY <1>11, <2>1, <2>2, VersionFields
<1>12. ASSUME NEW o \in Outcomes, setIntermediateSuccessFields(o) PROVE DistinctInv'
  BY <1>12 DEF setIntermediateSuccessFields, UpdateStatus, intermediate, statusOf
<1>13. ASSUME NEW o \in Outcomes, updateResource(o) PROVE DistinctInv'
  BY <1>13 DEF updateResource, resourceOf
<1>14. ASSUME NEW o \in Outcomes, createCodebaseImageStreamIfNotExists(o) PROVE DistinctInv'
  BY <1>14 DEF createCodebaseImageStreamIfNotExists, failed, streamFailed
<1>15. ASSUME NEW o \in Outcomes, setSuccessStatus(o) PROVE DistinctInv'
  BY <1>15, NoCopyFields, EmptyDistinct DEF setSuccessStatus, updateStatus, fetchedConditions, statusOf
<1>16. ASSUME NEW o \in Outcomes, updateStatusOfFailure(o) PROVE DistinctInv'
  BY <1>16, NoCopyFields, EmptyDistinct DEF updateStatusOfFailure, updateStatus, fetchedConditions, statusOf
<1>17. CASE Watch
  BY <1>17 DEF Watch
<1>18. CASE WatchStream
  BY <1>18 DEF WatchStream
<1>19. CASE Delete
  BY <1>19 DEF Delete, deleted
<1>20. CASE GarbageCollect
  BY <1>20 DEF GarbageCollect, deleted
<1>21. CASE Collect
  BY <1>21 DEF Collect
<1>22. CASE Restart
  BY <1>22, NoCopyFields, EmptyDistinct DEF Restart
<1>23. CASE ChangeVersion
  BY <1>23 DEF ChangeVersion
<1>24. CASE RemoveRemoteBranch
  BY <1>24 DEF RemoveRemoteBranch
<1>25. CASE CodebasePushed
  BY <1>25 DEF CodebasePushed, Lifecycle!Pushed
<1>26. CASE CodebaseAvailable
  BY <1>26 DEF CodebaseAvailable, Lifecycle!Available
<1>27. CASE CodebaseBusy
  BY <1>27 DEF CodebaseBusy, Lifecycle!Busy
<1>28. CASE DeleteCodebase
  BY <1>28 DEF DeleteCodebase, Lifecycle!Deleted
<1>29. CASE StartBuild
  BY <1>29 DEF StartBuild
<1>30. CASE FinishBuild
  BY <1>30 DEF FinishBuild
<1>31. CASE MarkBranch
  BY <1>31 DEF MarkBranch
<1>32. CASE UNCHANGED vars
  BY <1>32
<1> HIDE DEF DistinctInv, TypeInv, TypeOK, BranchRecord
<1> QED
  BY <1>1, <1>2, <1>3, <1>4, <1>5, <1>6, <1>7, <1>8, <1>9, <1>10, <1>11, <1>12, <1>13, <1>14,
     <1>15, <1>16, <1>17, <1>18, <1>19, <1>20, <1>21, <1>22, <1>23, <1>24, <1>25, <1>26, <1>27,
     <1>28, <1>29, <1>30, <1>31, <1>32
     DEF Next, Controller, Environment, Prepare, Chain

\* The owner and a deletion are never taken back; a copy with the last version has the
\* finalizer and the condition of the branch.
LEMMA NextLag == TypeInv /\ LagInv /\ [Next]_vars => LagInv'
<1> SUFFICES ASSUME TypeInv, LagInv, [Next]_vars PROVE LagInv'
  OBVIOUS
<1> USE DEF LagInv, ChainPhases, TypeInv, TypeOK, BranchRecord
<1>1. CASE Reconcile
  <2> HIDE DEF BranchRecord, TypeInv, TypeOK
  <2>0. cr \in BranchRecord /\ cached \in BranchRecord /\ rec \in BranchRecord
    BY DEF TypeInv, TypeOK
  <2> QED
    BY <1>1, <2>0, ReconcileFields, OwnedFields
<1>2. ASSUME NEW o \in Outcomes, setDefaultValues(o) PROVE LagInv'
  BY <1>2, NoCopyFields DEF setDefaultValues
<1>3. ASSUME NEW o \in Outcomes, AddCodebaseLabel(o) PROVE LagInv'
  <2> HIDE DEF BranchRecord, TypeInv, TypeOK
  <2>0. cr \in BranchRecord /\ cached \in BranchRecord /\ rec \in BranchRecord
    BY DEF TypeInv, TypeOK
  <2>1. /\ (cr'.owned = cr.owned /\ cr'.finalizer = cr.finalizer)
           \/ (cr'.owned /\ cr'.finalizer = rec.finalizer /\ recCurrent)
        /\ cr'.deleting = cr.deleting /\ (cacheCurrent' => cacheCurrent /\ cr' = cr)
        /\ cached' = cached /\ (recCurrent' => recCurrent) /\ cr'.stale = cr.stale
    BY <1>3, <2>0, LabelFields, LabelledFields, ResourceFields
  <2>2. /\ rec'.owned = rec.owned /\ rec'.finalizer = rec.finalizer /\ rec'.deleting = rec.deleting
        /\ rec'.stale = rec.stale /\ (pc' = "release" => rec.deleting)
    BY <1>3, <2>0, LabelFields, LabelledFields, AfterLabelFields, ChainFields
  <2> QED
    BY <1>3, <2>1, <2>2, LabelFields
<1>4. ASSUME NEW o \in Outcomes, AddFinalizer(o) PROVE LagInv'
  <2> HIDE DEF BranchRecord, TypeInv, TypeOK
  <2> QED
    BY <1>4, FinalizerFields, NoCopyFields
<1>5. ASSUME NEW o \in Outcomes, RemoveFinalizer(o) PROVE LagInv'
  BY <1>5, NoCopyFields DEF RemoveFinalizer
<1>6. ASSUME NEW o \in Outcomes, CheckReferenceExists(o) PROVE LagInv'
  BY <1>6 DEF CheckReferenceExists, failed
<1>7. ASSUME NEW o \in Outcomes, acceptRegistration(o) PROVE LagInv'
  BY <1>7 DEF acceptRegistration, UpdateStatus, inactive, statusOf
<1>8. CASE checkCodebaseAvailable
  <2> HIDE DEF BranchRecord, TypeInv, TypeOK
  <2>1. rec \in BranchRecord
    BY DEF TypeInv, TypeOK
  <2>2. /\ cr' = cr /\ cached' = cached /\ cacheCurrent' = cacheCurrent /\ pc = "available"
        /\ \/ pc' = "create" /\ rec' = rec /\ recCurrent' = recCurrent
           \/ pc' = "idle" /\ rec' = NoCopy /\ recCurrent' = FALSE
           \/ pc' = "failure" /\ rec' = failed(rec) /\ recCurrent' = FALSE
    BY <1>8 DEF checkCodebaseAvailable
  <2>3. rec' = failed(rec) => rec'.owned = rec.owned /\ rec'.deleting = rec.deleting
    BY <2>1, FailedFields
  <2>4. \/ pc' = "create" /\ rec' = rec /\ recCurrent' = recCurrent
        \/ pc' \in {"idle", "failure"} /\ (rec'.deleting => rec.deleting) /\ recCurrent' = FALSE
    BY <2>2, <2>3, NoCopyFields
  <2> QED
    BY <2>2, <2>4
<1>9. ASSUME NEW o \in Outcomes, CreateRemoteBranch(o) PROVE LagInv'
  BY <1>9 DEF CreateRemoteBranch, failed
<1>10. ASSUME NEW o \in Outcomes, recordCreated(o) PROVE LagInv'
  BY <1>10 DEF recordCreated, UpdateStatus, failed, statusOf
<1>11. ASSUME NEW o \in Outcomes, ProcessNewVersion(o) PROVE LagInv'
  <2> HIDE DEF BranchRecord, TypeInv, TypeOK
  <2>0. cr \in BranchRecord /\ cached \in BranchRecord /\ rec \in BranchRecord
    BY DEF TypeInv, TypeOK
  <2>1. /\ rec'.owned = rec.owned /\ rec'.finalizer = rec.finalizer /\ rec'.deleting = rec.deleting
        /\ cr'.owned = cr.owned /\ cr'.finalizer = cr.finalizer /\ cr'.deleting = cr.deleting
        /\ rec'.stale = rec.stale /\ cr'.stale \in {cr.stale, rec.stale}
    BY <1>11, <2>0, VersionFields, NewVersionFields, StatusFields
  <2>2. /\ cacheCurrent' => cacheCurrent /\ cr' = cr
        /\ (recCurrent' => recCurrent) /\ cached' = cached
        /\ pc = "version" /\ pc' \in {"failure", "intermediate"}
    BY <1>11, VersionFields
  <2> QED
    BY <2>1, <2>2
<1>12. ASSUME NEW o \in Outcomes, setIntermediateSuccessFields(o) PROVE LagInv'
  BY <1>12 DEF setIntermediateSuccessFields, UpdateStatus, intermediate, statusOf
<1>13. ASSUME NEW o \in Outcomes, updateResource(o) PROVE LagInv'
  BY <1>13 DEF updateResource, resourceOf
<1>14. ASSUME NEW o \in Outcomes, createCodebaseImageStreamIfNotExists(o) PROVE LagInv'
  BY <1>14 DEF createCodebaseImageStreamIfNotExists, failed, streamFailed
<1>15. ASSUME NEW o \in Outcomes, setSuccessStatus(o) PROVE LagInv'
  BY <1>15, NoCopyFields DEF setSuccessStatus, updateStatus, fetchedConditions, statusOf
<1>16. ASSUME NEW o \in Outcomes, updateStatusOfFailure(o) PROVE LagInv'
  BY <1>16, NoCopyFields DEF updateStatusOfFailure, updateStatus, fetchedConditions, statusOf
<1>17. CASE Watch
  BY <1>17 DEF Watch
<1>18. CASE WatchStream
  BY <1>18 DEF WatchStream
<1>19. CASE Delete
  BY <1>19 DEF Delete, deleted
<1>20. CASE GarbageCollect
  BY <1>20 DEF GarbageCollect, deleted
<1>21. CASE Collect
  BY <1>21 DEF Collect
<1>22. CASE Restart
  BY <1>22, NoCopyFields DEF Restart
<1>23. CASE ChangeVersion
  BY <1>23 DEF ChangeVersion
<1>24. CASE RemoveRemoteBranch
  BY <1>24 DEF RemoveRemoteBranch
<1>25. CASE CodebasePushed
  BY <1>25 DEF CodebasePushed, Lifecycle!Pushed
<1>26. CASE CodebaseAvailable
  BY <1>26 DEF CodebaseAvailable, Lifecycle!Available
<1>27. CASE CodebaseBusy
  BY <1>27 DEF CodebaseBusy, Lifecycle!Busy
<1>28. CASE DeleteCodebase
  BY <1>28 DEF DeleteCodebase, Lifecycle!Deleted
<1>29. CASE StartBuild
  BY <1>29 DEF StartBuild
<1>30. CASE FinishBuild
  BY <1>30 DEF FinishBuild
<1>31. CASE MarkBranch
  BY <1>31 DEF MarkBranch
<1>32. CASE UNCHANGED vars
  BY <1>32
<1> HIDE DEF LagInv, ChainPhases, TypeInv, TypeOK, BranchRecord
<1> QED
  BY <1>1, <1>2, <1>3, <1>4, <1>5, <1>6, <1>7, <1>8, <1>9, <1>10, <1>11, <1>12, <1>13, <1>14,
     <1>15, <1>16, <1>17, <1>18, <1>19, <1>20, <1>21, <1>22, <1>23, <1>24, <1>25, <1>26, <1>27,
     <1>28, <1>29, <1>30, <1>31, <1>32
     DEF Next, Controller, Environment, Prepare, Chain

\* Every handler passes on what the ones before it established.
LEMMA NextPhase == TypeInv /\ PhaseInv /\ [Next]_vars => PhaseInv'
<1> SUFFICES ASSUME TypeInv, PhaseInv, [Next]_vars PROVE PhaseInv'
  OBVIOUS
<1> USE DEF PhaseInv, ChainPhases, AfterCreated, AfterVersion, isSemver, NoBuild, TypeInv, TypeOK,
            BranchRecord
<1>1. CASE Reconcile
  BY <1>1 DEF Reconcile
<1>2. ASSUME NEW o \in Outcomes, setDefaultValues(o) PROVE PhaseInv'
  BY <1>2, NoCopyFields DEF setDefaultValues
<1>3. ASSUME NEW o \in Outcomes, AddCodebaseLabel(o) PROVE PhaseInv'
  <2> HIDE DEF BranchRecord, TypeInv, TypeOK
  <2>0. cr \in BranchRecord /\ cached \in BranchRecord /\ rec \in BranchRecord
    BY DEF TypeInv, TypeOK
  <2>1. pc' \in ChainPhases => /\ rec'.finalizer /\ (isSemver => rec'.build # NoBuild)
                               /\ pc' \in {"version", "accept", "reference"} /\ (pc' = "version" => rec'.git)
    BY <1>3, <2>0, LabelFields, AfterLabelFields, ChainFields
  <2>2. pc' \in ChainPhases \cup {"finalizer", "release"} /\ spec' = spec
    BY <1>3, <2>0, LabelFields, AfterLabelFields, ChainFields
  <2> QED
    BY <2>1, <2>2
<1>4. ASSUME NEW o \in Outcomes, AddFinalizer(o) PROVE PhaseInv'
  <2> HIDE DEF BranchRecord, TypeInv, TypeOK
  <2> QED
    BY <1>4, FinalizerFields, NoCopyFields
<1>5. ASSUME NEW o \in Outcomes, RemoveFinalizer(o) PROVE PhaseInv'
  BY <1>5, NoCopyFields DEF RemoveFinalizer
<1>6. ASSUME NEW o \in Outcomes, CheckReferenceExists(o) PROVE PhaseInv'
  BY <1>6 DEF CheckReferenceExists, failed
<1>7. ASSUME NEW o \in Outcomes, acceptRegistration(o) PROVE PhaseInv'
  BY <1>7 DEF acceptRegistration, UpdateStatus, inactive, statusOf
<1>8. CASE checkCodebaseAvailable
  BY <1>8, NoCopyFields DEF checkCodebaseAvailable, failed
<1>9. ASSUME NEW o \in Outcomes, CreateRemoteBranch(o) PROVE PhaseInv'
  BY <1>9 DEF CreateRemoteBranch, failed
<1>10. ASSUME NEW o \in Outcomes, recordCreated(o) PROVE PhaseInv'
  BY <1>10 DEF recordCreated, UpdateStatus, failed, statusOf
<1>11. ASSUME NEW o \in Outcomes, ProcessNewVersion(o) PROVE PhaseInv'
  <2> HIDE DEF BranchRecord, TypeInv, TypeOK
  <2>0. cr \in BranchRecord /\ cached \in BranchRecord /\ rec \in BranchRecord
    BY DEF TypeInv, TypeOK
  <2>1. /\ rec'.finalizer = rec.finalizer /\ rec'.git = rec.git
        /\ (rec.build # NoBuild => rec'.build # NoBuild)
        /\ spec' = spec /\ pc = "version" /\ pc' \in {"failure", "intermediate"}
    BY <1>11, <2>0, VersionFields, NewVersionFields
  <2>2. pc' = "intermediate" /\ isSemver => rec'.history # <<>>
    BY <1>11, <2>0, VersionFields, NewVersionFields, KnownVersion
  <2> QED
    BY <2>1, <2>2
<1>12. ASSUME NEW o \in Outcomes, setIntermediateSuccessFields(o) PROVE PhaseInv'
  BY <1>12 DEF setIntermediateSuccessFields, UpdateStatus, intermediate, statusOf
<1>13. ASSUME NEW o \in Outcomes, updateResource(o) PROVE PhaseInv'
  BY <1>13 DEF updateResource, resourceOf
<1>14. ASSUME NEW o \in Outcomes, createCodebaseImageStreamIfNotExists(o) PROVE PhaseInv'
  BY <1>14 DEF createCodebaseImageStreamIfNotExists, failed, streamFailed
<1>15. ASSUME NEW o \in Outcomes, setSuccessStatus(o) PROVE PhaseInv'
  BY <1>15, NoCopyFields DEF setSuccessStatus, updateStatus, fetchedConditions, statusOf
<1>16. ASSUME NEW o \in Outcomes, updateStatusOfFailure(o) PROVE PhaseInv'
  BY <1>16, NoCopyFields DEF updateStatusOfFailure, updateStatus, fetchedConditions, statusOf
<1>17. CASE Watch
  BY <1>17 DEF Watch
<1>18. CASE WatchStream
  BY <1>18 DEF WatchStream
<1>19. CASE Delete
  BY <1>19 DEF Delete, deleted
<1>20. CASE GarbageCollect
  BY <1>20 DEF GarbageCollect, deleted
<1>21. CASE Collect
  BY <1>21 DEF Collect
<1>22. CASE Restart
  BY <1>22, NoCopyFields DEF Restart
<1>23. CASE ChangeVersion
  BY <1>23 DEF ChangeVersion
<1>24. CASE RemoveRemoteBranch
  BY <1>24 DEF RemoveRemoteBranch
<1>25. CASE CodebasePushed
  BY <1>25 DEF CodebasePushed, Lifecycle!Pushed
<1>26. CASE CodebaseAvailable
  BY <1>26 DEF CodebaseAvailable, Lifecycle!Available
<1>27. CASE CodebaseBusy
  BY <1>27 DEF CodebaseBusy, Lifecycle!Busy
<1>28. CASE DeleteCodebase
  BY <1>28 DEF DeleteCodebase, Lifecycle!Deleted
<1>29. CASE StartBuild
  BY <1>29 DEF StartBuild
<1>30. CASE FinishBuild
  BY <1>30 DEF FinishBuild
<1>31. CASE MarkBranch
  BY <1>31 DEF MarkBranch
<1>32. CASE UNCHANGED vars
  BY <1>32
<1> HIDE DEF PhaseInv, ChainPhases, AfterCreated, AfterVersion, isSemver, NoBuild, TypeInv, TypeOK,
             BranchRecord
<1> QED
  BY <1>1, <1>2, <1>3, <1>4, <1>5, <1>6, <1>7, <1>8, <1>9, <1>10, <1>11, <1>12, <1>13, <1>14,
     <1>15, <1>16, <1>17, <1>18, <1>19, <1>20, <1>21, <1>22, <1>23, <1>24, <1>25, <1>26, <1>27,
     <1>28, <1>29, <1>30, <1>31, <1>32
     DEF Next, Controller, Environment, Prepare, Chain

\* A branch becomes active when all is there; a stale copy cannot take any of it back.
LEMMA NextActive == TypeInv /\ LagInv /\ PhaseInv /\ ActiveInv /\ [Next]_vars => ActiveInv'
<1> SUFFICES ASSUME TypeInv, LagInv, PhaseInv, ActiveInv, [Next]_vars PROVE ActiveInv'
  OBVIOUS
<1> USE DEF LagInv, PhaseInv, ActiveInv, Stored, StatusOK, ChainPhases, AfterCreated, AfterVersion,
            AfterResource, isSemver, NoBuild, TypeInv, TypeOK, BranchRecord
<1>1. CASE Reconcile
  BY <1>1 DEF Reconcile
<1>2. ASSUME NEW o \in Outcomes, setDefaultValues(o) PROVE ActiveInv'
  BY <1>2, NoCopyFields DEF setDefaultValues
<1>3. ASSUME NEW o \in Outcomes, AddCodebaseLabel(o) PROVE ActiveInv'
  <2> HIDE DEF BranchRecord, TypeInv, TypeOK
  <2>0. cr \in BranchRecord /\ cached \in BranchRecord /\ rec \in BranchRecord
    BY DEF TypeInv, TypeOK
  <2>1. /\ (cr'.owned = cr.owned /\ cr'.finalizer = cr.finalizer)
           \/ (cr'.owned = rec.owned /\ cr'.finalizer = rec.finalizer /\ recCurrent)
        /\ cr'.deleting = cr.deleting /\ cr'.value = cr.value /\ cr'.git = cr.git
        /\ cr'.build = cr.build /\ cr'.history = cr.history
    BY <1>3, <2>0, LabelFields, LabelledFields, ResourceFields
  <2>2. Stored => Stored'
    BY <1>3, <2>1, LabelFields
  <2>3. /\ rec'.value = rec.value /\ rec'.git = rec.git /\ rec'.history = rec.history
        /\ rec'.build = rec.build \/ (rec.build = NoBuild /\ rec'.build = 0)
        /\ pc' \notin AfterResource
    BY <1>3, <2>0, LabelFields, LabelledFields, AfterLabelFields, ChainFields
  <2> QED
    BY <1>3, <2>1, <2>2, <2>3, LabelFields
<1>4. ASSUME NEW o \in Outcomes, AddFinalizer(o) PROVE ActiveInv'
  <2> HIDE DEF BranchRecord, TypeInv, TypeOK
  <2> QED
    BY <1>4, FinalizerFields, NoCopyFields
<1>5. ASSUME NEW o \in Outcomes, RemoveFinalizer(o) PROVE ActiveInv'
  BY <1>5, NoCopyFields DEF RemoveFinalizer
<1>6. ASSUME NEW o \in Outcomes, CheckReferenceExists(o) PROVE ActiveInv'
  BY <1>6 DEF CheckReferenceExists, failed
<1>7. ASSUME NEW o \in Outcomes, acceptRegistration(o) PROVE ActiveInv'
  BY <1>7 DEF acceptRegistration, UpdateStatus, inactive, statusOf
<1>8. CASE checkCodebaseAvailable
  BY <1>8, NoCopyFields DEF checkCodebaseAvailable, failed
<1>9. ASSUME NEW o \in Outcomes, CreateRemoteBranch(o) PROVE ActiveInv'
  BY <1>9 DEF CreateRemoteBranch, failed
<1>10. ASSUME NEW o \in Outcomes, recordCreated(o) PROVE ActiveInv'
  <2> HIDE DEF BranchRecord, TypeInv, TypeOK
  <2>0. cr \in BranchRecord /\ rec \in BranchRecord
    BY DEF TypeInv, TypeOK
  <2>1. /\ cr' = cr \/ cr' = statusOf([rec EXCEPT !.git = TRUE])
        /\ rec' = [rec EXCEPT !.git = TRUE] \/ rec' = failed(rec)
        /\ pc' \in {"version", "failure"} /\ UNCHANGED <<spec, cached, stream>>
    BY <1>10 DEF recordCreated, UpdateStatus
  <2>2. /\ cr'.owned = cr.owned /\ cr'.finalizer = cr.finalizer /\ cr'.deleting = cr.deleting
        /\ \/ cr' = cr
           \/ /\ cr'.value = rec.value /\ cr'.git
              /\ cr'.build = rec.build /\ cr'.history = rec.history
    BY <2>0, <2>1 DEF BranchRecord, statusOf
  <2>3. \/ /\ rec'.value = rec.value /\ rec'.git
           /\ rec'.build = rec.build /\ rec'.history = rec.history
        \/ rec'.value = "failed"
    BY <2>0, <2>1 DEF BranchRecord, failed
  <2> QED
    BY <2>1, <2>2, <2>3
<1>11. ASSUME NEW o \in Outcomes, ProcessNewVersion(o) PROVE ActiveInv'
  <2> HIDE DEF BranchRecord, TypeInv, TypeOK
  <2>0. cr \in BranchRecord /\ cached \in BranchRecord /\ rec \in BranchRecord
    BY DEF TypeInv, TypeOK
  <2>1. /\ rec'.value = rec.value /\ rec'.git = rec.git
        /\ (rec.build # NoBuild => rec'.build # NoBuild) /\ (rec.history # <<>> => rec'.history # <<>>)
    BY <1>11, <2>0, VersionFields, NewVersionFields
  <2>2. /\ cr'.owned = cr.owned /\ cr'.finalizer = cr.finalizer /\ cr'.deleting = cr.deleting
        /\ \/ cr' = cr
           \/ /\ cr'.value = rec'.value /\ cr'.git = rec'.git
              /\ cr'.build = rec'.build /\ cr'.history = rec'.history
    BY <1>11, <2>0, VersionFields, StatusFields
  <2>3. spec' = spec /\ stream' = stream /\ cached' = cached /\ pc' \in {"failure", "intermediate"}
    BY <1>11, VersionFields
  <2> QED
    BY <2>1, <2>2, <2>3
<1>12. ASSUME NEW o \in Outcomes, setIntermediateSuccessFields(o) PROVE ActiveInv'
  BY <1>12 DEF setIntermediateSuccessFields, UpdateStatus, intermediate, statusOf
<1>13. ASSUME NEW o \in Outcomes, updateResource(o) PROVE ActiveInv'
  BY <1>13 DEF updateResource, resourceOf
<1>14. ASSUME NEW o \in Outcomes, createCodebaseImageStreamIfNotExists(o) PROVE ActiveInv'
  BY <1>14 DEF createCodebaseImageStreamIfNotExists, failed, streamFailed
<1>15. ASSUME NEW o \in Outcomes, setSuccessStatus(o) PROVE ActiveInv'
  BY <1>15, NoCopyFields DEF setSuccessStatus, updateStatus, fetchedConditions, statusOf
<1>16. ASSUME NEW o \in Outcomes, updateStatusOfFailure(o) PROVE ActiveInv'
  BY <1>16, NoCopyFields DEF updateStatusOfFailure, updateStatus, fetchedConditions, statusOf
<1>17. CASE Watch
  BY <1>17 DEF Watch
<1>18. CASE WatchStream
  BY <1>18 DEF WatchStream
<1>19. CASE Delete
  BY <1>19 DEF Delete, deleted
<1>20. CASE GarbageCollect
  BY <1>20 DEF GarbageCollect, deleted
<1>21. CASE Collect
  BY <1>21 DEF Collect
<1>22. CASE Restart
  BY <1>22, NoCopyFields DEF Restart
<1>23. CASE ChangeVersion
  BY <1>23 DEF ChangeVersion
<1>24. CASE RemoveRemoteBranch
  BY <1>24 DEF RemoveRemoteBranch
<1>25. CASE CodebasePushed
  BY <1>25 DEF CodebasePushed, Lifecycle!Pushed
<1>26. CASE CodebaseAvailable
  BY <1>26 DEF CodebaseAvailable, Lifecycle!Available
<1>27. CASE CodebaseBusy
  BY <1>27 DEF CodebaseBusy, Lifecycle!Busy
<1>28. CASE DeleteCodebase
  BY <1>28 DEF DeleteCodebase, Lifecycle!Deleted
<1>29. CASE StartBuild
  <2>1. cr.build \in NoBuild .. MaxEdits /\ cr.build # NoBuild
    BY <1>29 DEF StartBuild
  <2>2. cr.build + 1 # NoBuild
    BY <2>1, CountedUp
  <2>3. /\ cr'.value = cr.value /\ cr'.git = cr.git /\ cr'.history = cr.history
        /\ cr'.owned = cr.owned /\ cr'.finalizer = cr.finalizer /\ cr'.deleting = cr.deleting
        /\ cr'.build # NoBuild
    BY <1>29, <2>2 DEF StartBuild
  <2> QED
    BY <1>29, <2>3 DEF StartBuild
<1>30. CASE FinishBuild
  BY <1>30 DEF FinishBuild
<1>31. CASE MarkBranch
  BY <1>31 DEF MarkBranch
<1>32. CASE UNCHANGED vars
  BY <1>32
<1> HIDE DEF LagInv, PhaseInv, ActiveInv, Stored, StatusOK, ChainPhases, AfterCreated,
             AfterVersion, AfterResource, isSemver, NoBuild, TypeInv, TypeOK, BranchRecord
<1> QED
  BY <1>1, <1>2, <1>3, <1>4, <1>5, <1>6, <1>7, <1>8, <1>9, <1>10, <1>11, <1>12, <1>13, <1>14,
     <1>15, <1>16, <1>17, <1>18, <1>19, <1>20, <1>21, <1>22, <1>23, <1>24, <1>25, <1>26, <1>27,
     <1>28, <1>29, <1>30, <1>31, <1>32
     DEF Next, Controller, Environment, Prepare, Chain

\* A copy that missed nothing keeps the progress of the branch, also when a write fails.
LEMMA NextProgress == TypeInv /\ ProgressInv /\ [Next]_vars => ProgressInv'
<1> SUFFICES ASSUME TypeInv, ProgressInv, [Next]_vars PROVE ProgressInv'
  OBVIOUS
<1> USE DEF ProgressInv, SameProgress, NewProgress, NoBuild, TypeInv, TypeOK, BranchRecord
<1>1. CASE Reconcile
  BY <1>1 DEF Reconcile
<1>2. ASSUME NEW o \in Outcomes, setDefaultValues(o) PROVE ProgressInv'
  BY <1>2, NoCopyFields DEF setDefaultValues
<1>3. ASSUME NEW o \in Outcomes, AddCodebaseLabel(o) PROVE ProgressInv'
  BY <1>3 DEF AddCodebaseLabel, afterLabel, chain, resourceOf
<1>4. ASSUME NEW o \in Outcomes, AddFinalizer(o) PROVE ProgressInv'
  BY <1>4, NoCopyFields DEF AddFinalizer, chain, resourceOf
<1>5. ASSUME NEW o \in Outcomes, RemoveFinalizer(o) PROVE ProgressInv'
  BY <1>5, NoCopyFields DEF RemoveFinalizer
<1>6. ASSUME NEW o \in Outcomes, CheckReferenceExists(o) PROVE ProgressInv'
  BY <1>6 DEF CheckReferenceExists, failed
<1>7. ASSUME NEW o \in Outcomes, acceptRegistration(o) PROVE ProgressInv'
  BY <1>7 DEF acceptRegistration, UpdateStatus, inactive, statusOf
<1>8. CASE checkCodebaseAvailable
  BY <1>8, NoCopyFields DEF checkCodebaseAvailable, failed
<1>9. ASSUME NEW o \in Outcomes, CreateRemoteBranch(o) PROVE ProgressInv'
  BY <1>9 DEF CreateRemoteBranch, failed
<1>10. ASSUME NEW o \in Outcomes, recordCreated(o) PROVE ProgressInv'
  BY <1>10 DEF recordCreated, UpdateStatus, failed, statusOf
<1>11. ASSUME NEW o \in Outcomes, ProcessNewVersion(o) PROVE ProgressInv'
  <2> HIDE DEF BranchRecord, TypeInv, TypeOK
  <2>0. cr \in BranchRecord /\ cached \in BranchRecord /\ rec \in BranchRecord
    BY DEF TypeInv, TypeOK
  <2>1. CASE rec' = rec /\ cr' = cr
    BY <1>11, <2>1, VersionFields
  <2>2. CASE rec' = newVersion(rec) /\ rec.version # NoVersion
    <3>1. /\ rec'.build = 0 /\ rec'.last = NoSuccess /\ rec'.version = rec.version
          /\ rec'.history = Append(rec.history, rec.version)
      BY <2>0, <2>2, NewVersionFields
    <3>2. \/ cr' = cr /\ pc' = "failure"
          \/ cr' = statusOf(newVersion(rec))
          \/ cr' = cr /\ rec' = rec
      BY <1>11, VersionFields
    <3>3. cr' = statusOf(newVersion(rec)) => cr'.history = rec'.history /\ cr'.build = rec'.build
      BY <2>0, <2>2, StatusFields
    <3>4. missed' = missed /\ pc = "version"
      BY <1>11, VersionFields
    <3> QED
      BY <2>1, <2>2, <3>1, <3>2, <3>3, <3>4
  <2> QED
    BY <1>11, <2>1, <2>2, VersionFields
<1>12. ASSUME NEW o \in Outcomes, setIntermediateSuccessFields(o) PROVE ProgressInv'
  BY <1>12 DEF setIntermediateSuccessFields, UpdateStatus, intermediate, statusOf
<1>13. ASSUME NEW o \in Outcomes, updateResource(o) PROVE ProgressInv'
  BY <1>13 DEF updateResource, resourceOf
<1>14. ASSUME NEW o \in Outcomes, createCodebaseImageStreamIfNotExists(o) PROVE ProgressInv'
  BY <1>14 DEF createCodebaseImageStreamIfNotExists, failed, streamFailed
<1>15. ASSUME NEW o \in Outcomes, setSuccessStatus(o) PROVE ProgressInv'
  BY <1>15, NoCopyFields DEF setSuccessStatus, updateStatus, fetchedConditions, statusOf
<1>16. ASSUME NEW o \in Outcomes, updateStatusOfFailure(o) PROVE ProgressInv'
  BY <1>16, NoCopyFields DEF updateStatusOfFailure, updateStatus, fetchedConditions, statusOf
<1>17. CASE Watch
  BY <1>17 DEF Watch
<1>18. CASE WatchStream
  BY <1>18 DEF WatchStream
<1>19. CASE Delete
  BY <1>19 DEF Delete, deleted
<1>20. CASE GarbageCollect
  BY <1>20 DEF GarbageCollect, deleted
<1>21. CASE Collect
  BY <1>21 DEF Collect
<1>22. CASE Restart
  BY <1>22, NoCopyFields DEF Restart
<1>23. CASE ChangeVersion
  BY <1>23 DEF ChangeVersion
<1>24. CASE RemoveRemoteBranch
  BY <1>24 DEF RemoveRemoteBranch
<1>25. CASE CodebasePushed
  BY <1>25 DEF CodebasePushed, Lifecycle!Pushed
<1>26. CASE CodebaseAvailable
  BY <1>26 DEF CodebaseAvailable, Lifecycle!Available
<1>27. CASE CodebaseBusy
  BY <1>27 DEF CodebaseBusy, Lifecycle!Busy
<1>28. CASE DeleteCodebase
  BY <1>28 DEF DeleteCodebase, Lifecycle!Deleted
<1>29. CASE StartBuild
  BY <1>29 DEF StartBuild
<1>30. CASE FinishBuild
  BY <1>30 DEF FinishBuild
<1>31. CASE MarkBranch
  BY <1>31 DEF MarkBranch
<1>32. CASE UNCHANGED vars
  BY <1>32
<1> HIDE DEF ProgressInv, SameProgress, NewProgress, NoBuild, TypeInv, TypeOK, BranchRecord
<1> QED
  BY <1>1, <1>2, <1>3, <1>4, <1>5, <1>6, <1>7, <1>8, <1>9, <1>10, <1>11, <1>12, <1>13, <1>14,
     <1>15, <1>16, <1>17, <1>18, <1>19, <1>20, <1>21, <1>22, <1>23, <1>24, <1>25, <1>26, <1>27,
     <1>28, <1>29, <1>30, <1>31, <1>32
     DEF Next, Controller, Environment, Prepare, Chain

(***************************************************************************)
(* What a step does to the branch.                                         *)
(***************************************************************************)

\* To its progress: nothing, a build number that is initialised or grows, a new version.
Kept ==
    /\ cr'.history = cr.history
    /\ cr'.build = cr.build \/ cr'.build = cr.build + 1 \/ (cr.build = NoBuild /\ cr'.build = 0)

Advanced ==
    /\ rec.version # NoVersion /\ cr'.history = Append(cr.history, rec.version)
    /\ cr'.build = 0 /\ cr'.last = NoSuccess

\* A copy that missed nothing takes no progress back.
LEMMA ProgressStep == TypeInv /\ ProgressInv /\ [Next]_vars => (~missed => Kept \/ Advanced)
<1> SUFFICES ASSUME TypeInv, ProgressInv, [Next]_vars PROVE (~missed => Kept \/ Advanced)
  OBVIOUS
<1> USE DEF ProgressInv, SameProgress, NewProgress, Kept, Advanced, TypeInv, TypeOK, BranchRecord
<1>1. CASE Reconcile
  BY <1>1 DEF Reconcile
<1>2. ASSUME NEW o \in Outcomes, setDefaultValues(o) PROVE (~missed => Kept \/ Advanced)
  BY <1>2, NoCopyFields DEF setDefaultValues
<1>3. ASSUME NEW o \in Outcomes, AddCodebaseLabel(o) PROVE (~missed => Kept \/ Advanced)
  BY <1>3 DEF AddCodebaseLabel, afterLabel, chain, resourceOf
<1>4. ASSUME NEW o \in Outcomes, AddFinalizer(o) PROVE (~missed => Kept \/ Advanced)
  BY <1>4, NoCopyFields DEF AddFinalizer, chain, resourceOf
<1>5. ASSUME NEW o \in Outcomes, RemoveFinalizer(o) PROVE (~missed => Kept \/ Advanced)
  BY <1>5, NoCopyFields DEF RemoveFinalizer
<1>6. ASSUME NEW o \in Outcomes, CheckReferenceExists(o) PROVE (~missed => Kept \/ Advanced)
  BY <1>6 DEF CheckReferenceExists, failed
<1>7. ASSUME NEW o \in Outcomes, acceptRegistration(o) PROVE (~missed => Kept \/ Advanced)
  BY <1>7 DEF acceptRegistration, UpdateStatus, inactive, statusOf
<1>8. CASE checkCodebaseAvailable
  BY <1>8, NoCopyFields DEF checkCodebaseAvailable, failed
<1>9. ASSUME NEW o \in Outcomes, CreateRemoteBranch(o) PROVE (~missed => Kept \/ Advanced)
  BY <1>9 DEF CreateRemoteBranch, failed
<1>10. ASSUME NEW o \in Outcomes, recordCreated(o) PROVE (~missed => Kept \/ Advanced)
  BY <1>10 DEF recordCreated, UpdateStatus, failed, statusOf
<1>11. ASSUME NEW o \in Outcomes, ProcessNewVersion(o) PROVE (~missed => Kept \/ Advanced)
  <2> HIDE DEF BranchRecord, TypeInv, TypeOK
  <2>0. cr \in BranchRecord /\ cached \in BranchRecord /\ rec \in BranchRecord
    BY DEF TypeInv, TypeOK
  <2>1. CASE cr' = cr
    BY <2>1
  <2>2. CASE cr' = statusOf(newVersion(rec)) /\ rec.version # NoVersion
    <3>1. /\ cr'.build = 0 /\ cr'.last = NoSuccess
          /\ cr'.history = Append(rec.history, rec.version)
      BY <2>0, <2>2, NewVersionFields, StatusFields
    <3>2. pc = "version"
      BY <1>11, VersionFields
    <3> QED
      BY <2>2, <3>1, <3>2
  <2> QED
    BY <1>11, <2>1, <2>2, VersionFields
<1>12. ASSUME NEW o \in Outcomes, setIntermediateSuccessFields(o) PROVE (~missed => Kept \/ Advanced)
  BY <1>12 DEF setIntermediateSuccessFields, UpdateStatus, intermediate, statusOf
<1>13. ASSUME NEW o \in Outcomes, updateResource(o) PROVE (~missed => Kept \/ Advanced)
  BY <1>13 DEF updateResource, resourceOf
<1>14. ASSUME NEW o \in Outcomes, createCodebaseImageStreamIfNotExists(o) PROVE (~missed => Kept \/ Advanced)
  BY <1>14 DEF createCodebaseImageStreamIfNotExists, failed, streamFailed
<1>15. ASSUME NEW o \in Outcomes, setSuccessStatus(o) PROVE (~missed => Kept \/ Advanced)
  BY <1>15, NoCopyFields DEF setSuccessStatus, updateStatus, fetchedConditions, statusOf
<1>16. ASSUME NEW o \in Outcomes, updateStatusOfFailure(o) PROVE (~missed => Kept \/ Advanced)
  BY <1>16, NoCopyFields DEF updateStatusOfFailure, updateStatus, fetchedConditions, statusOf
<1>17. CASE Watch
  BY <1>17 DEF Watch
<1>18. CASE WatchStream
  BY <1>18 DEF WatchStream
<1>19. CASE Delete
  BY <1>19 DEF Delete, deleted
<1>20. CASE GarbageCollect
  BY <1>20 DEF GarbageCollect, deleted
<1>21. CASE Collect
  BY <1>21 DEF Collect
<1>22. CASE Restart
  BY <1>22, NoCopyFields DEF Restart
<1>23. CASE ChangeVersion
  BY <1>23 DEF ChangeVersion
<1>24. CASE RemoveRemoteBranch
  BY <1>24 DEF RemoveRemoteBranch
<1>25. CASE CodebasePushed
  BY <1>25 DEF CodebasePushed, Lifecycle!Pushed
<1>26. CASE CodebaseAvailable
  BY <1>26 DEF CodebaseAvailable, Lifecycle!Available
<1>27. CASE CodebaseBusy
  BY <1>27 DEF CodebaseBusy, Lifecycle!Busy
<1>28. CASE DeleteCodebase
  BY <1>28 DEF DeleteCodebase, Lifecycle!Deleted
<1>29. CASE StartBuild
  BY <1>29 DEF StartBuild
<1>30. CASE FinishBuild
  BY <1>30 DEF FinishBuild
<1>31. CASE MarkBranch
  BY <1>31 DEF MarkBranch
<1>32. CASE UNCHANGED vars
  BY <1>32
<1> HIDE DEF ProgressInv, SameProgress, NewProgress, Kept, Advanced, TypeInv, TypeOK, BranchRecord
<1> QED
  BY <1>1, <1>2, <1>3, <1>4, <1>5, <1>6, <1>7, <1>8, <1>9, <1>10, <1>11, <1>12, <1>13, <1>14,
     <1>15, <1>16, <1>17, <1>18, <1>19, <1>20, <1>21, <1>22, <1>23, <1>24, <1>25, <1>26, <1>27,
     <1>28, <1>29, <1>30, <1>31, <1>32
     DEF Next, Controller, Environment, Prepare, Chain

\* Only the checker changes its condition: a write of the chain carries the condition of a copy
\* that has the last version, updateStatus that of a cache that has it.
LEMMA StaleStep ==
    TypeInv /\ LagInv /\ [Next]_vars => (cr'.stale # cr.stale => edits' # edits)
<1> SUFFICES ASSUME TypeInv, LagInv, [Next]_vars PROVE (cr'.stale # cr.stale => edits' # edits)
  OBVIOUS
<1> USE DEF LagInv, TypeInv, TypeOK, BranchRecord
<1>1. CASE Reconcile
  BY <1>1 DEF Reconcile
<1>2. ASSUME NEW o \in Outcomes, setDefaultValues(o) PROVE (cr'.stale # cr.stale => edits' # edits)
  BY <1>2, NoCopyFields DEF setDefaultValues
<1>3. ASSUME NEW o \in Outcomes, AddCodebaseLabel(o) PROVE (cr'.stale # cr.stale => edits' # edits)
  BY <1>3 DEF AddCodebaseLabel, afterLabel, chain, resourceOf
<1>4. ASSUME NEW o \in Outcomes, AddFinalizer(o) PROVE (cr'.stale # cr.stale => edits' # edits)
  BY <1>4, NoCopyFields DEF AddFinalizer, chain, resourceOf
<1>5. ASSUME NEW o \in Outcomes, RemoveFinalizer(o) PROVE (cr'.stale # cr.stale => edits' # edits)
  BY <1>5, NoCopyFields DEF RemoveFinalizer
<1>6. ASSUME NEW o \in Outcomes, CheckReferenceExists(o) PROVE (cr'.stale # cr.stale => edits' # edits)
  BY <1>6 DEF CheckReferenceExists, failed
<1>7. ASSUME NEW o \in Outcomes, acceptRegistration(o) PROVE (cr'.stale # cr.stale => edits' # edits)
  BY <1>7 DEF acceptRegistration, UpdateStatus, inactive, statusOf
<1>8. CASE checkCodebaseAvailable
  BY <1>8, NoCopyFields DEF checkCodebaseAvailable, failed
<1>9. ASSUME NEW o \in Outcomes, CreateRemoteBranch(o) PROVE (cr'.stale # cr.stale => edits' # edits)
  BY <1>9 DEF CreateRemoteBranch, failed
<1>10. ASSUME NEW o \in Outcomes, recordCreated(o) PROVE (cr'.stale # cr.stale => edits' # edits)
  BY <1>10 DEF recordCreated, UpdateStatus, failed, statusOf
<1>11. ASSUME NEW o \in Outcomes, ProcessNewVersion(o) PROVE (cr'.stale # cr.stale => edits' # edits)
  BY <1>11 DEF ProcessNewVersion, UpdateStatus, newVersion, statusOf
<1>12. ASSUME NEW o \in Outcomes, setIntermediateSuccessFields(o) PROVE (cr'.stale # cr.stale => edits' # edits)
  BY <1>12 DEF setIntermediateSuccessFields, UpdateStatus, intermediate, statusOf
<1>13. ASSUME NEW o \in Outcomes, updateResource(o) PROVE (cr'.stale # cr.stale => edits' # edits)
  BY <1>13 DEF updateResource, resourceOf
<1>14. ASSUME NEW o \in Outcomes, createCodebaseImageStreamIfNotExists(o) PROVE (cr'.stale # cr.stale => edits' # edits)
  BY <1>14 DEF createCodebaseImageStreamIfNotExists, failed, streamFailed
<1>15. ASSUME NEW o \in Outcomes, setSuccessStatus(o) PROVE (cr'.stale # cr.stale => edits' # edits)
  BY <1>15, NoCopyFields DEF setSuccessStatus, updateStatus, fetchedConditions, statusOf
<1>16. ASSUME NEW o \in Outcomes, updateStatusOfFailure(o) PROVE (cr'.stale # cr.stale => edits' # edits)
  BY <1>16, NoCopyFields DEF updateStatusOfFailure, updateStatus, fetchedConditions, statusOf
<1>17. CASE Watch
  BY <1>17 DEF Watch
<1>18. CASE WatchStream
  BY <1>18 DEF WatchStream
<1>19. CASE Delete
  BY <1>19 DEF Delete, deleted
<1>20. CASE GarbageCollect
  BY <1>20 DEF GarbageCollect, deleted
<1>21. CASE Collect
  BY <1>21 DEF Collect
<1>22. CASE Restart
  BY <1>22, NoCopyFields DEF Restart
<1>23. CASE ChangeVersion
  BY <1>23 DEF ChangeVersion
<1>24. CASE RemoveRemoteBranch
  BY <1>24 DEF RemoveRemoteBranch
<1>25. CASE CodebasePushed
  BY <1>25 DEF CodebasePushed, Lifecycle!Pushed
<1>26. CASE CodebaseAvailable
  BY <1>26 DEF CodebaseAvailable, Lifecycle!Available
<1>27. CASE CodebaseBusy
  BY <1>27 DEF CodebaseBusy, Lifecycle!Busy
<1>28. CASE DeleteCodebase
  BY <1>28 DEF DeleteCodebase, Lifecycle!Deleted
<1>29. CASE StartBuild
  BY <1>29 DEF StartBuild
<1>30. CASE FinishBuild
  BY <1>30 DEF FinishBuild
<1>31. CASE MarkBranch
  BY <1>31, EditCounted DEF MarkBranch
<1>32. CASE UNCHANGED vars
  BY <1>32
<1> HIDE DEF LagInv, TypeInv, TypeOK, BranchRecord
<1> QED
  BY <1>1, <1>2, <1>3, <1>4, <1>5, <1>6, <1>7, <1>8, <1>9, <1>10, <1>11, <1>12, <1>13, <1>14,
     <1>15, <1>16, <1>17, <1>18, <1>19, <1>20, <1>21, <1>22, <1>23, <1>24, <1>25, <1>26, <1>27,
     <1>28, <1>29, <1>30, <1>31, <1>32
     DEF Next, Controller, Environment, Prepare, Chain

(***************************************************************************)
(* The theorems.                                                           *)
(***************************************************************************)

IndInv ==
    TypeInv /\ GitInv /\ DistinctInv /\ LagInv /\ PhaseInv /\ ActiveInv /\ ProgressInv

\* The invariants hold at the start.
LEMMA InitInv == Init => IndInv
<1> SUFFICES ASSUME Init PROVE IndInv
  OBVIOUS
<1>1. TypeInv
  BY InitTypeOK
<1>2. /\ ~cr.git /\ ~cr.deleting /\ ~cr.owned /\ cr.value = "" /\ cr.history = <<>>
      /\ cached = cr /\ rec = NoCopy /\ pc = "idle" /\ ~recCurrent
  BY DEF Init, NewBranch
<1>3. GitInv /\ DistinctInv
  BY <1>2, NoCopyFields, EmptyDistinct DEF GitInv, DistinctInv
<1>4. LagInv /\ PhaseInv
  BY <1>2, NoCopyFields DEF LagInv, PhaseInv, ChainPhases, AfterCreated, AfterVersion
<1>5. ActiveInv /\ ProgressInv
  BY <1>2, NoCopyFields DEF ActiveInv, StatusOK, AfterResource, ProgressInv
<1> QED
  BY <1>1, <1>3, <1>4, <1>5 DEF IndInv

\* Every step keeps them.
LEMMA NextInv == IndInv /\ [Next]_vars => IndInv'
BY NextTypeOK, NextGit, NextDistinct, NextLag, NextPhase, NextActive, NextProgress DEF IndInv

\* So they hold always.
LEMMA InvCorrect == Spec => []IndInv
BY InitInv, NextInv, PTL DEF Spec

\* The status of a branch says "branch created" only after the branch was on the git server:
\* the answer of the server is never assumed, and no copy says it first.
THEOREM CreatedCorrect == Spec => []CreatedIsInGit
<1>1. IndInv => CreatedIsInGit
  BY DEF IndInv, GitInv, CreatedIsInGit
<1> QED
  BY <1>1, InvCorrect, PTL

\* No retry, lost answer or stale copy enters a version into the history twice, for any number
\* of versions, builds, failed calls and restarts.
THEOREM VersionsCorrect == Spec => []VersionsDistinct
<1>1. IndInv => VersionsDistinct
  BY DEF IndInv, DistinctInv, VersionsDistinct
<1> QED
  BY <1>1, InvCorrect, PTL

\* A branch that is active is complete, although the last write of a reconcile does not check
\* that the copy it writes is up to date.
THEOREM ActiveCorrect == Spec => []ActiveIsComplete
<1>1. IndInv => ActiveIsComplete
  BY DEF IndInv, GitInv, ActiveInv, Stored, StatusOK, ActiveIsComplete
<1> QED
  BY <1>1, InvCorrect, PTL

\* No write of the controller takes back the condition of the stale branch checker, although
\* every one carries the conditions of a copy or of the cache, which may be older.
THEOREM ConditionCorrect == Spec => ConditionKept
<1>1. IndInv /\ [Next]_vars => [cr'.stale # cr.stale => edits' # edits]_vars
  BY StaleStep DEF IndInv
<1> QED
  BY <1>1, InvCorrect, PTL DEF Spec, ConditionKept

\* Builds and versions that were in the status when the reconcile read its copy survive every
\* handler, failure and retry.
THEOREM ProgressCorrect == Spec => ProgressKept
<1>1. ASSUME IndInv, [Next]_vars, ~missed
      PROVE  /\ IsPrefix(cr.history, cr'.history)
             /\ cr'.build < cr.build => cr'.build = 0 /\ cr'.history # cr.history
  <2>1. /\ cr.history \in Seq(1 .. MaxVersion) /\ cr.build \in NoBuild .. MaxEdits
        /\ rec.version \in Versions
    BY <1>1 DEF IndInv, TypeInv, TypeOK, BranchRecord
  <2>2. Kept \/ Advanced
    BY <1>1, ProgressStep DEF IndInv
  <2>3. CASE Kept
    <3>1. IsPrefix(cr.history, cr.history)
      BY <2>1 DEF IsPrefix
    <3>2. ~(cr'.build < cr.build)
      BY <2>1, <2>3, CodebaseBranchAssumption DEF Kept, NoBuild
    <3> QED
      BY <2>3, <3>1, <3>2 DEF Kept
  <2>4. CASE Advanced
    <3>1. rec.version \in 1 .. MaxVersion
      BY <2>1, <2>4, CodebaseBranchAssumption DEF Advanced, Versions, NoVersion
    <3> QED
      BY <2>1, <2>4, <3>1, PrefixOf DEF Advanced
  <2> QED
    BY <2>2, <2>3, <2>4
<1> QED
  BY <1>1, InvCorrect, PTL DEF Spec, ProgressKept

\* A new version starts with build 0 and no successful build, also when its own status update
\* failed and updateStatus wrote it later.
THEOREM VersionStartCorrect == Spec => VersionStartsAtZero
<1>1. ASSUME IndInv, [Next]_vars, ~missed, Len(cr'.history) > Len(cr.history)
      PROVE  cr'.build = 0 /\ cr'.last = NoSuccess
  <2>1. Kept \/ Advanced
    BY <1>1, ProgressStep DEF IndInv
  <2>2. cr.history \in Seq(1 .. MaxVersion)
    BY <1>1 DEF IndInv, TypeInv, TypeOK, BranchRecord
  <2>3. ~Kept
    BY <1>1, <2>2 DEF Kept
  <2> QED
    BY <2>1, <2>3 DEF Advanced
<1> QED
  BY <1>1, InvCorrect, PTL DEF Spec, VersionStartsAtZero
=============================================================================
