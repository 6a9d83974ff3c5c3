--------------------------- MODULE CodebaseBranch ---------------------------
(***************************************************************************)
(* The CodebaseBranch controller (controllers/codebasebranch).             *)
(*                                                                         *)
(* A reconcile adds default values, labels, owner and finalizer, then runs *)
(* the chain CheckReferenceExists, PutBranchInGit, ProcessNewVersion,      *)
(* PutCodebaseImageStream and writes the status.  The status is shared: CI *)
(* pipelines write build numbers into it, the stale branch checker writes  *)
(* its condition.  The chain updates it with the version of its copy; the  *)
(* last write of a reconcile, updateStatus, takes the version of the cache *)
(* instead.  The module follows one CodebaseBranch and its Codebase.       *)
(***************************************************************************)
EXTENDS Integers, Sequences, SequencesExt

CONSTANTS
    Starts,             \* the branches looked at, as they are created
    MaxVersion,         \* bound: values of Spec.Version
    MaxEdits,           \* bound: builds, marks, changes and deletions made by others
    MaxFaults           \* bound: failed calls and restarts

ASSUME CodebaseBranchAssumption ==
    /\ {MaxVersion, MaxEdits, MaxFaults} \subseteq Nat
    /\ Starts \subseteq [versioning : {"semver", "default"},
                         fromRef : {"default", "commit", "missing", "unknown"},
                         pipelines : BOOLEAN, version : 0 .. MaxVersion,
                         stream : {"none", "unlabelled"}, foreign : BOOLEAN]

VARIABLES
    spec,           \* the branch as it was created: what does not change
    cr,             \* the CodebaseBranch in the API server
    cached,         \* the CodebaseBranch in the informer cache
    cacheCurrent,   \* whether the cache holds its last resourceVersion
    rec,            \* the copy of the reconcile in flight
    recCurrent,     \* whether that copy has the last resourceVersion
    pc,             \* the call it makes next
    queued,         \* whether the work queue holds the CodebaseBranch
    codebase,       \* the Codebase, as the cache shows it
    remote,         \* the branch on the git server
    stream,         \* the CodebaseImageStream
    streamSeen,     \* whether the cache holds it
    missed,         \* history: the status has moved on since the copy in flight
    faults, edits

crVars == <<cr, cached, cacheCurrent>>
recVars == <<rec, recCurrent, pc, queued, missed>>
outVars == <<codebase, remote, stream, streamSeen>>
bounds == <<faults, edits>>
vars == <<spec, crVars, recVars, outVars, bounds>>
-----------------------------------------------------------------------------
NoVersion == 0      \* Spec.Version is nil
NoBuild == -1       \* Status.Build is nil
NoSuccess == 0      \* Status.LastSuccessfulBuild is nil; CI numbers builds from 1

Versions == NoVersion .. MaxVersion

\* pipelines: Spec.Pipelines are set, or not needed (GitLab CI); owned: the
\* Codebase is the owner; git: Status.Git says "branch created"; stale: the
\* condition of the stale branch checker.
BranchRecord ==
    [exists : BOOLEAN, pipelines : BOOLEAN, owned : BOOLEAN, labelled : BOOLEAN,
     finalizer : BOOLEAN, deleting : BOOLEAN, version : Versions, git : BOOLEAN,
     value : {"", "inactive", "failed", "active"}, build : NoBuild .. MaxEdits,
     last : 0 .. MaxEdits, history : Seq(1 .. MaxVersion), stale : BOOLEAN]

NewBranch(pipelines, version) ==
    [exists |-> TRUE, pipelines |-> pipelines, owned |-> FALSE, labelled |-> FALSE,
     finalizer |-> FALSE, deleting |-> FALSE, version |-> version, git |-> FALSE,
     value |-> "", build |-> NoBuild, last |-> NoSuccess, history |-> <<>>, stale |-> FALSE]

NoCopy == NewBranch(FALSE, NoVersion)

\* The Codebase is seen through the promise that module Codebase implements.
Lifecycle == INSTANCE CodebaseLifecycle
RemoteStates == {"absent", "present", "removed"}
StreamStates == {"none", "unlabelled", "there"}

Phases ==
    {"idle", "defaults", "label", "finalizer", "reference", "accept", "available",
     "create", "created", "version", "intermediate", "resource", "stream",
     "finish", "failure", "release"}

\* fromRef: no reference (the default branch), one that is there, a name that is not,
\* a full commit hash that is not; foreign: another controller owns the resource. An
\* image stream of an earlier release has no label of the branch.
Init ==
    /\ spec \in Starts
    /\ cr = NewBranch(spec.pipelines, spec.version)
    /\ cached = cr /\ cacheCurrent = TRUE
    /\ rec = NoCopy /\ recCurrent = FALSE /\ pc = "idle" /\ queued = TRUE /\ missed = FALSE
    /\ Lifecycle!Init /\ remote = "absent"
    /\ stream = spec.stream /\ streamSeen = TRUE
    /\ faults = 0 /\ edits = 0
-----------------------------------------------------------------------------
(* How a call ends: "ok", "error" without effect, or "unknown", an error that
   the caller gets although the call took effect. *)

Outcomes == {"ok", "error", "unknown"}

Outcome(o) ==
    /\ o \in Outcomes
    /\ faults' = IF o = "ok" THEN faults ELSE faults + 1
    /\ o # "ok" => faults < MaxFaults
    /\ UNCHANGED <<spec, missed, edits>>

\* The reconcile's next call, with r the copy it goes on with.
Continue(phase, r) == pc' = phase /\ rec' = r /\ UNCHANGED queued

\* An error of the chain: the status of r is written by updateStatus, which does
\* not look at the version of the copy.
ChainFails(r) == Continue("failure", r) /\ recCurrent' = FALSE

Done == pc' = "idle" /\ rec' = NoCopy /\ recCurrent' = FALSE /\ UNCHANGED queued
Requeue == pc' = "idle" /\ rec' = NoCopy /\ recCurrent' = FALSE /\ queued' = TRUE

\* Whether an update takes effect: it carries the resourceVersion of the copy, or
\* of the cache, and fails with a conflict when that is not current.
Writes(o, current) == o # "error" /\ cr.exists /\ current

WriteCR(o, current, new) ==
    /\ cr' = IF Writes(o, current) THEN new ELSE cr
    /\ cacheCurrent' = (cacheCurrent /\ ~Writes(o, current))
    /\ UNCHANGED cached

\* What Update writes of a copy, and what Status().Update does.
resourceOf(r) ==
    [cr EXCEPT !.pipelines = r.pipelines, !.owned = r.owned, !.labelled = r.labelled,
               !.finalizer = r.finalizer]

statusOf(r) ==
    [cr EXCEPT !.git = r.git, !.value = r.value, !.build = r.build, !.last = r.last,
               !.history = r.history, !.stale = r.stale]

failed(r) == [r EXCEPT !.value = "failed"]
inactive(r) == [r EXCEPT !.value = "inactive"]
-----------------------------------------------------------------------------
(* The environment. *)

\* What others do is bounded.
Edit == edits < MaxEdits /\ edits' = edits + 1

\* Somebody else writes the resource.
Others(new) == cr' = new /\ cacheCurrent' = FALSE /\ recCurrent' = FALSE /\ UNCHANGED cached

\* The watch brings the cache up to date. The predicate lets creations and
\* deletions pass, and updates that change the spec or carry a deletion timestamp.
Watch ==
    /\ ~cacheCurrent
    /\ cached' = cr /\ cacheCurrent' = TRUE
    /\ queued' = \/ queued \/ ~cr.exists \/ cr.deleting
                 \/ cr.pipelines # cached.pipelines \/ cr.version # cached.version
    /\ UNCHANGED <<spec, cr, rec, recCurrent, pc, missed, outVars, bounds>>

WatchStream ==
    /\ ~streamSeen /\ streamSeen' = TRUE
    /\ UNCHANGED <<spec, crVars, recVars, codebase, remote, stream, bounds>>

\* A CI pipeline patches the next build number, and later the last successful one.
StartBuild ==
    /\ Edit
    /\ cr.exists /\ cr.build # NoBuild
    /\ Others([cr EXCEPT !.build = cr.build + 1])
    /\ missed' = (missed \/ pc # "idle")
    /\ UNCHANGED <<spec, rec, pc, queued, outVars, faults>>

FinishBuild ==
    /\ Edit
    /\ cr.exists /\ cr.build > 0 /\ cr.last # cr.build
    /\ Others([cr EXCEPT !.last = cr.build])
    /\ missed' = (missed \/ pc # "idle")
    /\ UNCHANGED <<spec, rec, pc, queued, outVars, faults>>

\* The stale branch checker patches its condition.
MarkBranch ==
    /\ Edit
    /\ cr.exists /\ cr.git
    /\ Others([cr EXCEPT !.stale = ~cr.stale])
    /\ UNCHANGED <<spec, rec, pc, queued, missed, outVars, faults>>

ChangeVersion ==
    /\ Edit
    /\ cr.exists
    /\ \E v \in Versions \ {NoVersion, cr.version} : Others([cr EXCEPT !.version = v])
    /\ UNCHANGED <<spec, rec, pc, queued, missed, outVars, faults>>

\* Somebody removes the branch from the git server.
RemoveRemoteBranch ==
    /\ Edit
    /\ remote = "present" /\ remote' = "removed"
    /\ UNCHANGED <<spec, crVars, recVars, codebase, stream, streamSeen, faults>>

\* Every reconcile of the Codebase makes it unavailable for a while.
CodebasePushed ==
    /\ Lifecycle!Pushed
    /\ UNCHANGED <<spec, crVars, recVars, remote, stream, streamSeen, bounds>>

CodebaseAvailable ==
    /\ Lifecycle!Available
    /\ UNCHANGED <<spec, crVars, recVars, remote, stream, streamSeen, bounds>>

CodebaseBusy ==
    /\ Edit
    /\ Lifecycle!Busy
    /\ UNCHANGED <<spec, crVars, recVars, remote, stream, streamSeen, faults>>

DeleteCodebase ==
    /\ Edit
    /\ Lifecycle!Deleted
    /\ UNCHANGED <<spec, crVars, recVars, remote, stream, streamSeen, faults>>

deleted == [cr EXCEPT !.deleting = TRUE]

Delete ==
    /\ Edit
    /\ cr.exists /\ ~cr.deleting /\ Others(deleted)
    /\ UNCHANGED <<spec, rec, pc, queued, missed, outVars, faults>>

\* The garbage collector deletes what the Codebase owned.
GarbageCollect ==
    /\ codebase = "gone" /\ cr.owned
    /\ cr.exists /\ ~cr.deleting /\ Others(deleted)
    /\ UNCHANGED <<spec, rec, pc, queued, missed, outVars, bounds>>

\* The API server removes it once the operator's finalizer is gone.
Collect ==
    /\ cr.exists /\ cr.deleting /\ ~cr.finalizer
    /\ Others([cr EXCEPT !.exists = FALSE])
    /\ UNCHANGED <<spec, rec, pc, queued, missed, outVars, bounds>>

\* The operator restarts with a listed cache.
Restart ==
    /\ faults < MaxFaults /\ faults' = faults + 1
    /\ cached' = cr /\ cacheCurrent' = TRUE /\ streamSeen' = TRUE
    /\ queued' = cr.exists
    /\ pc' = "idle" /\ rec' = NoCopy /\ recCurrent' = FALSE
    /\ UNCHANGED <<spec, cr, missed, codebase, remote, stream, edits>>
-----------------------------------------------------------------------------
(* Reconcile, up to the chain. *)

isSemver == spec.versioning = "semver"

\* The build number is initialised in the copy; CheckReferenceExists and
\* PutBranchInGit skip a branch that is created.
chain(r) ==
    LET c == IF isSemver /\ r.build = NoBuild THEN [r EXCEPT !.build = 0] ELSE r
    IN  IF r.git THEN Continue("version", c)
        ELSE Continue(IF spec.fromRef = "default" THEN "accept" ELSE "reference", c)

\* tryToDeleteCodebaseBranch: the deletion chain is empty.
afterLabel(r) ==
    IF r.deleting THEN Continue("release", r)
    ELSE IF ~r.finalizer THEN Continue("finalizer", r)
    ELSE chain(r)

\* setOwnerRef changes the copy only; for a resource of another controller it is an
\* error, which updateStatus writes.
Reconcile ==
    /\ pc = "idle" /\ queued
    /\ missed' = (/\ cached.exists
                  /\ <<cached.build, cached.last, cached.history>> # <<cr.build, cr.last, cr.history>>)
    /\ LET owned == [cached EXCEPT !.owned = TRUE]
           next(phase, r) == pc' = phase /\ rec' = r /\ recCurrent' = cacheCurrent
       IN  \/ /\ ~cached.exists
              /\ queued' = FALSE /\ UNCHANGED <<pc, rec, recCurrent>>
           \/ /\ cached.exists /\ codebase = "gone" /\ cached.deleting
              /\ queued' = FALSE /\ next("release", cached)
           \/ /\ cached.exists /\ codebase = "gone" /\ ~cached.deleting
              /\ UNCHANGED <<queued, pc, rec, recCurrent>>
           \/ /\ cached.exists /\ codebase # "gone"
              /\ queued' = FALSE
              /\ IF ~cached.pipelines THEN next("defaults", cached)
                 ELSE IF spec.foreign THEN next("failure", cached) ELSE next("label", owned)
    /\ UNCHANGED <<spec, crVars, outVars, bounds>>

\* The update event of the new spec brings the CodebaseBranch back. The owner is
\* not set yet.
setDefaultValues(o) ==
    /\ pc = "defaults" /\ Outcome(o)
    /\ WriteCR(o, recCurrent, [cr EXCEPT !.pipelines = TRUE])
    /\ IF o = "ok" /\ Writes(o, recCurrent) THEN Done ELSE Requeue
    /\ UNCHANGED outVars

\* AddCodebaseLabel, which sends nothing when the labels are there. Its error is
\* only logged; the labels stay in the copy.
AddCodebaseLabel(o) ==
    LET r == [rec EXCEPT !.labelled = TRUE]
    IN  /\ pc = "label" /\ Outcome(o)
        /\ IF rec.labelled
           THEN o = "ok" /\ UNCHANGED <<crVars, recCurrent>>
           ELSE /\ WriteCR(o, recCurrent, resourceOf(r))
                /\ recCurrent' = (recCurrent /\ o # "unknown")
        /\ afterLabel(r)
        /\ UNCHANGED outVars

AddFinalizer(o) ==
    LET r == [rec EXCEPT !.finalizer = TRUE]
    IN  /\ pc = "finalizer" /\ Outcome(o)
        /\ WriteCR(o, recCurrent, resourceOf(r))
        /\ IF o = "ok" /\ Writes(o, recCurrent) THEN chain(r) /\ UNCHANGED recCurrent
                                                ELSE Requeue
        /\ UNCHANGED outVars

\* RetryOnConflict reads the cache again each time; giving up and the next
\* reconcile do the same.
RemoveFinalizer(o) ==
    /\ pc = "release" /\ Outcome(o)
    /\ WriteCR(o, cacheCurrent, [cr EXCEPT !.finalizer = FALSE])
    /\ IF o = "ok" /\ Writes(o, cacheCurrent) THEN Done ELSE Requeue
    /\ UNCHANGED outVars
-----------------------------------------------------------------------------
(* The chain. *)

\* Status().Update of the copy r; then the given phase, or a failure that leaves
\* f to updateStatus.
UpdateStatus(o, r, phase, f) ==
    /\ Outcome(o)
    /\ WriteCR(o, recCurrent, statusOf(r))
    /\ IF o = "ok" /\ Writes(o, recCurrent)
       THEN Continue(phase, r) /\ UNCHANGED recCurrent
       ELSE ChainFails(f)
    /\ UNCHANGED outVars

\* A reference can be resolved once the project is there; a full commit hash is not
\* looked up.
resolves == codebase \in {"available", "busy"} /\ spec.fromRef # "missing"

CheckReferenceExists(o) ==
    /\ pc = "reference" /\ Outcome(o)
    /\ IF o = "ok" /\ resolves THEN Continue("accept", rec) /\ UNCHANGED recCurrent
                               ELSE ChainFails(failed(rec))
    /\ UNCHANGED <<crVars, outVars>>

\* setIntermediateSuccessFields of PutBranchInGit, before it looks at the Codebase.
acceptRegistration(o) ==
    /\ pc = "accept"
    /\ UpdateStatus(o, inactive(rec), "available", inactive(rec))

\* Mutant: the reconcile is not repeated.
notRepeated ==
    /\ pc = "available"
    /\ \/ codebase = "available" /\ Continue("create", rec) /\ UNCHANGED recCurrent
       \/ codebase \in {"new", "busy"} /\ Done
       \/ codebase = "gone" /\ ChainFails(failed(rec))
    /\ UNCHANGED <<spec, missed, crVars, outVars, bounds>>

\* CodebaseBranchReconcileError: the reconcile is repeated, no status is written.
checkCodebaseAvailable ==
    /\ pc = "available"
    /\ \/ codebase = "available" /\ Continue("create", rec) /\ UNCHANGED recCurrent
       \/ codebase \in {"new", "busy"} /\ Requeue
       \/ codebase = "gone" /\ ChainFails(failed(rec))
    /\ UNCHANGED <<spec, missed, crVars, outVars, bounds>>

\* The git server has the commit. The Codebase is not read again.
creatable == spec.fromRef \notin {"missing", "unknown"}

\* Mutant: an error of the git server is dropped.
ignoresCreateError(o) ==
    /\ pc = "create" /\ Outcome(o)
    /\ remote' = IF o = "error" \/ ~creatable THEN remote ELSE "present"
    /\ Continue("created", rec) /\ UNCHANGED recCurrent
    /\ UNCHANGED <<crVars, codebase, stream, streamSeen>>

\* CreateRemoteBranchViaRefUpdate skips a branch that is there.
CreateRemoteBranch(o) ==
    /\ pc = "create" /\ Outcome(o)
    /\ remote' = IF o = "error" \/ ~creatable THEN remote ELSE "present"
    /\ IF o = "ok" /\ creatable THEN Continue("created", rec) /\ UNCHANGED recCurrent
                                ELSE ChainFails(failed(rec))
    /\ UNCHANGED <<crVars, codebase, stream, streamSeen>>

recordCreated(o) ==
    /\ pc = "created"
    /\ UpdateStatus(o, [rec EXCEPT !.git = TRUE], "version", failed(rec))

\* Mutant: only the last version of the history is looked at.
isNotLast(r) == r.history = <<>> \/ Last(r.history) # r.version

HasNewVersion(r) == \A i \in DOMAIN r.history : r.history[i] # r.version

\* Mutant: the version is appended, the build number goes on.
appended(r) == [r EXCEPT !.history = Append(r.history, r.version)]

\* A new version starts with build 0. The copy keeps it when the update fails.
newVersion(r) ==
    [r EXCEPT !.build = 0, !.last = NoSuccess, !.history = Append(r.history, r.version)]

\* Mutant: a missing version is not refused.
unchecked(o) ==
    /\ pc = "version"
    /\ UpdateStatus(o, newVersion(rec), "intermediate", newVersion(rec))

ProcessNewVersion(o) ==
    /\ pc = "version"
    /\ IF codebase = "gone" \/ ~isSemver \/ rec.version = NoVersion \/ ~HasNewVersion(rec)
       THEN /\ o = "ok" /\ Outcome(o)
            /\ IF codebase = "gone" \/ (isSemver /\ rec.version = NoVersion)
               THEN ChainFails(rec)
               ELSE Continue("intermediate", rec) /\ UNCHANGED recCurrent
            /\ UNCHANGED <<crVars, outVars>>
       ELSE UpdateStatus(o, newVersion(rec), "intermediate", newVersion(rec))

\* Mutant: the fields of the status that are not named are dropped.
forgetful(r) == [r EXCEPT !.value = "inactive", !.build = 0]

\* The fields that setIntermediateSuccessFields of PutCodebaseImageStream keeps.
intermediate(r) == [r EXCEPT !.value = "inactive"]

setIntermediateSuccessFields(o) ==
    /\ pc = "intermediate"
    /\ UpdateStatus(o, intermediate(rec), "resource", intermediate(rec))

\* It updates the resource too, with the version that the status update returned.
updateResource(o) ==
    /\ pc = "resource" /\ Outcome(o)
    /\ WriteCR(o, recCurrent, resourceOf(rec))
    /\ IF o = "ok" /\ Writes(o, recCurrent)
       THEN Continue("stream", rec) /\ UNCHANGED recCurrent
       ELSE ChainFails(rec)
    /\ UNCHANGED outVars

\* setFailedFields of PutCodebaseImageStream drops LastSuccessfulBuild.
streamFailed(r) == [failed(r) EXCEPT !.last = NoSuccess]

\* Mutant: an error of the API server is dropped.
ignoresStreamError(o) ==
    /\ pc = "stream" /\ Outcome(o)
    /\ stream' = IF o = "error" THEN stream ELSE "there"
    /\ Continue("finish", rec)
    /\ UNCHANGED <<crVars, recCurrent, codebase, remote, streamSeen>>

\* A stream that the cache does not show is created, and refused when it exists;
\* one that it shows gets the label of the branch.
createCodebaseImageStreamIfNotExists(o) ==
    /\ pc = "stream" /\ Outcome(o)
    /\ LET refused == codebase = "gone" \/ (stream # "none" /\ ~streamSeen)
       IN  /\ stream' = IF o = "error" \/ refused THEN stream ELSE "there"
           /\ streamSeen' = (streamSeen /\ (stream = "none" => stream' = "none"))
           /\ IF o = "ok" /\ ~refused THEN Continue("finish", rec) /\ UNCHANGED recCurrent
                                      ELSE ChainFails(streamFailed(rec))
    /\ UNCHANGED <<crVars, codebase, remote>>
-----------------------------------------------------------------------------
(* updateStatus: the status of the copy is written over the CodebaseBranch that
   the cache holds, with the version and the conditions of the cache. *)

\* Mutant: the conditions stay those of the copy.
ownConditions(r) == r

\* The conditions are those that were fetched last, from the cache.
fetchedConditions(r) == [r EXCEPT !.stale = cached.stale]

updateStatus(o, r) == WriteCR(o, cacheCurrent, statusOf(fetchedConditions(r)))

setSuccessStatus(o) ==
    /\ pc = "finish" /\ Outcome(o)
    /\ updateStatus(o, [rec EXCEPT !.value = "active"])
    /\ IF o = "ok" /\ Writes(o, cacheCurrent) THEN Done ELSE Requeue
    /\ UNCHANGED outVars

\* After setErrorStatus or setFailureCount; an error of the update is only logged.
updateStatusOfFailure(o) ==
    /\ pc = "failure" /\ Outcome(o)
    /\ updateStatus(o, rec)
    /\ Requeue
    /\ UNCHANGED outVars
-----------------------------------------------------------------------------
Prepare(o) ==
    setDefaultValues(o) \/ AddCodebaseLabel(o) \/ AddFinalizer(o) \/ RemoveFinalizer(o)

Chain(o) ==
    \/ CheckReferenceExists(o) \/ acceptRegistration(o) \/ CreateRemoteBranch(o)
    \/ recordCreated(o) \/ ProcessNewVersion(o) \/ setIntermediateSuccessFields(o)
    \/ updateResource(o) \/ createCodebaseImageStreamIfNotExists(o)

Controller ==
    \/ Reconcile \/ checkCodebaseAvailable
    \/ \E o \in Outcomes :
          Prepare(o) \/ Chain(o) \/ setSuccessStatus(o) \/ updateStatusOfFailure(o)

Environment ==
    \/ Watch \/ WatchStream \/ Delete \/ GarbageCollect \/ Collect \/ Restart
    \/ ChangeVersion \/ RemoveRemoteBranch
    \/ CodebasePushed \/ CodebaseAvailable \/ CodebaseBusy \/ DeleteCodebase

Next == Controller \/ Environment \/ StartBuild \/ FinishBuild \/ MarkBranch

Spec == Init /\ [][Next]_vars

WatchFirst == pc = "idle" /\ Watch

\* The worker goes on, failures are requeued, the watches deliver, the Codebase
\* becomes available, and the cluster collects what is deleted. Retries back off
\* ever longer, so that the watch cannot always come later than the next reconcile.
\* Within a reconcile there is no delay: the watch may always come later than the
\* last write.
Fairness ==
    /\ WF_vars(Controller) /\ WF_vars(Watch) /\ SF_vars(WatchFirst)
    /\ WF_vars(WatchStream)
    /\ WF_vars(CodebasePushed) /\ WF_vars(CodebaseAvailable) /\ WF_vars(GarbageCollect) /\ WF_vars(Collect)

FairSpec == Spec /\ Fairness
-----------------------------------------------------------------------------
(* Properties. *)

TypeOK ==
    /\ spec \in Starts
    /\ {cr, cached, rec} \subseteq BranchRecord
    /\ {cacheCurrent, recCurrent, queued, streamSeen, missed} \subseteq BOOLEAN
    /\ pc \in Phases
    /\ codebase \in Lifecycle!CodebaseStates /\ remote \in RemoteStates /\ stream \in StreamStates
    /\ faults \in 0 .. MaxFaults /\ edits \in 0 .. MaxEdits

\* A CodebaseBranch that is active is complete: its branch was put into git, its
\* image stream has the label, the finalizer and the owner are stored, and with
\* semantic versioning it has a build number and a version. The last write of a
\* reconcile does not check that the copy it writes is up to date.
ActiveIsComplete ==
    cr.value = "active" =>
        /\ cr.git /\ remote # "absent" /\ stream = "there" /\ cr.owned
        /\ cr.finalizer \/ cr.deleting
        /\ isSemver => cr.build # NoBuild /\ cr.history # <<>>

\* Status.Git is "branch created" only after the branch was on the git server.
CreatedIsInGit == cr.git => remote # "absent"

\* No retry, lost answer or stale copy enters a version into the history twice.
VersionsDistinct == IsInjective(cr.history)

\* The condition changes only when the checker patches it. Every write of the
\* controller carries a whole status, with the conditions of the copy in the chain
\* and those of the cache in updateStatus; only the versions keep an older one out.
ConditionKept == [][cr'.stale # cr.stale => edits' # edits]_vars

\* A build number that CI wrote before the reconcile read its copy survives every
\* handler, failure and retry: it goes back only with a new version. So does the
\* history of versions, which only grows. Not covered is what the status gained
\* after the copy was read (missed).
ProgressKept ==
    [][~missed =>
          /\ IsPrefix(cr.history, cr'.history)
          /\ cr'.build < cr.build => cr'.build = 0 /\ cr'.history # cr.history]_vars

\* A new version starts with build 0 and no successful build, also when its
\* status update failed and the status is written by updateStatus. A copy that
\* missed a change of the status may bring back an older history.
VersionStartsAtZero ==
    [][~missed /\ Len(cr'.history) > Len(cr.history) => cr'.build = 0 /\ cr'.last = NoSuccess]_vars

settled ==
    IF cr.deleting THEN ~cr.exists
    ELSE \/ cr.value = "active" /\ (isSemver => ~HasNewVersion(cr))
         \/ codebase = "gone" /\ ~cr.owned
         \/ ~creatable \/ spec.foreign
         \/ isSemver /\ cr.version = NoVersion

\* The cache that updateStatus reads does not show the writes of its own reconcile.
outruns == ~cacheCurrent /\ \E o \in Outcomes : setSuccessStatus(o)

\* After finitely many faults, the branch is active with its version in the history;
\* it is gone when it was deleted, or when the Codebase that owned it was. Left
\* are branches that start from nowhere, have no version, belong to another
\* controller, or whose Codebase was deleted before it was stored as the owner. One
\* thing alone can keep it from that: reconcile after reconcile outruns the watch.
EventuallySettled == <>[]settled \/ []<><<outruns>>_vars
=============================================================================
