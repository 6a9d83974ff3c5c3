------------------------------ MODULE Codebase ------------------------------
(***************************************************************************)
(* The Codebase controller (controllers/codebase).                         *)
(*                                                                         *)
(* A reconcile runs the chain PutGitWebRepoUrl, PutProject, PutWebHook,    *)
(* PutGitLabCIConfig, PutDeployConfigs, PutDefaultCodeBaseBranch, Cleaner  *)
(* and then writes the status, or runs the deletion chain.  The progress   *)
(* is kept in Status.Git.  Every call of the API server, of the git server *)
(* and every change of the work directory is an action, and may fail: the  *)
(* whole chain is then run again, from a cache that may be stale, and the  *)
(* first push regenerates its history.  The module follows one Codebase.   *)
(***************************************************************************)
EXTENDS Naturals

CONSTANTS
    Strategies,     \* the values of Spec.Strategy looked at
    CiTools,        \* the values of Spec.CiTool looked at
    Providers,      \* the git providers looked at; github counts as gitlab
    Deletable,      \* whether somebody deletes the Codebase
    MayRestart,     \* whether the operator restarts
    ForeignPush,    \* when somebody else may push to the new project
    MaxFaults,      \* bound: failed calls and restarts
    MaxLeftovers,   \* bound: work directories that could not be removed
    MaxEdits        \* bound: changes of the Codebase or the hook by others

ASSUME CodebaseAssumption ==
    /\ Strategies \subseteq {"create", "clone", "import"}
    /\ CiTools \subseteq {"tekton", "gitlab"}
    /\ Providers \subseteq {"gerrit", "gitlab", "bitbucket"}
    /\ Deletable \in BOOLEAN /\ MayRestart \in BOOLEAN
    /\ ForeignPush \in {"never", "early", "always"}
    /\ MaxFaults \in Nat /\ MaxLeftovers \in Nat /\ MaxEdits \in Nat

VARIABLES
    spec,           \* the parts of the Codebase's Spec that the chain looks at
    cr,             \* the Codebase in the API server
    cached,         \* the Codebase in the informer cache
    cacheCurrent,   \* whether the cache holds its last resourceVersion
    rec,            \* the copy of the reconcile in flight
    recCurrent,     \* whether that copy has the last resourceVersion
    pc,             \* the call it makes next
    queued,         \* whether the work queue holds the Codebase
    remote,         \* the project on the git server
    work,           \* the work directory of the operator's pod
    branch,         \* whether the CodebaseBranch of the default branch exists
    secret,         \* whether the Secret with the clone credentials exists
    faults, leftovers, edits

crVars == <<cr, cached, cacheCurrent>>
recVars == <<rec, recCurrent, pc, queued>>
outVars == <<remote, work, branch, secret>>
bounds == <<faults, leftovers, edits>>
vars == <<spec, crVars, recVars, outVars, bounds>>
-----------------------------------------------------------------------------
GitStatuses == {"", "push_in_progress", "pushed", "gitlab_ci_pushed", "templates_pushed"}
skipPutProjectStatuses == {"pushed", "gitlab_ci_pushed", "templates_pushed"}

\* The history of the default branch: none, one of the operator's own, or one
\* that somebody else pushed. Two names are enough for the own ones: a
\* regenerated history only ever meets the one on the git server.
OwnHistories == {"h1", "h2"}
Histories == {"none", "foreign"} \cup OwnHistories

SpecRecord ==
    [strategy : Strategies, ci : CiTools, provider : Providers, putsTemplates : BOOLEAN]

\* raw: the URLs are not normalised yet; hook: Status.WebHookRef.
CodebaseRecord ==
    [exists : BOOLEAN, raw : BOOLEAN, finalizer : BOOLEAN, labelled : BOOLEAN,
     deleting : BOOLEAN, git : GitStatuses, available : BOOLEAN, hook : BOOLEAN]

NewCodebase ==
    [exists |-> TRUE, raw |-> TRUE, finalizer |-> FALSE, labelled |-> FALSE,
     deleting |-> FALSE, git |-> "", available |-> FALSE, hook |-> FALSE]

RemoteRecord ==
    [project : BOOLEAN, history : Histories, head : BOOLEAN, ci : BOOLEAN,
     templates : BOOLEAN, hook : BOOLEAN]

\* history "none" stands for a directory that is not there.
WorkRecord == [history : Histories, ci : BOOLEAN, templates : BOOLEAN]
NoWork == [history |-> "none", ci |-> FALSE, templates |-> FALSE]

Phases ==
    {"idle", "modify", "finalizer", "label", "webUrl", "provision", "adopt",
     "generate", "project", "absent", "intent", "push", "head", "pushed", "hook",
     "hookStatus", "ci", "ciPush", "ciPushed", "templates", "templatesPush",
     "templatesPushed", "branch", "clean", "finish", "failure", "delete",
     "deleteHook", "deleteClean", "release"}

\* An imported project has a default branch.
Init ==
    /\ spec \in SpecRecord
    /\ cr = NewCodebase /\ cached = NewCodebase /\ cacheCurrent = TRUE
    /\ rec = NewCodebase /\ recCurrent = FALSE /\ pc = "idle" /\ queued = TRUE
    /\ remote = [project |-> spec.strategy = "import",
                 history |-> IF spec.strategy = "import" THEN "foreign" ELSE "none",
                 head |-> spec.strategy = "import",
                 ci |-> FALSE, templates |-> FALSE, hook |-> FALSE]
    /\ work = NoWork /\ branch = FALSE /\ secret = TRUE
    /\ faults = 0 /\ leftovers = 0 /\ edits = 0
-----------------------------------------------------------------------------
(* How a call ends: "ok", "error" without effect, or "unknown", an error that
   the caller gets although the call took effect. *)

Outcomes == {"ok", "error", "unknown"}

Outcome(o) ==
    /\ o \in Outcomes
    /\ faults' = IF o = "ok" THEN faults ELSE faults + 1
    /\ o # "ok" => faults < MaxFaults
    /\ UNCHANGED <<leftovers, edits>>

\* Reconcile's next call, with r the copy of the Codebase it goes on with.
Continue(phase, r) == pc' = phase /\ rec' = r /\ UNCHANGED queued

\* An error of the chain makes Reconcile count the failure and requeue.
ChainFails(r) == Continue("failure", r)

\* An error that Reconcile itself returns, or the end of setFailureCount: the
\* Codebase is requeued. The copy is not used any more.
Requeue == pc' = "idle" /\ queued' = TRUE /\ rec' = NewCodebase /\ recCurrent' = FALSE

Done == pc' = "idle" /\ rec' = NewCodebase /\ recCurrent' = FALSE /\ UNCHANGED queued

\* Update carries the resourceVersion of the copy and fails with a conflict
\* when the copy is not current; the server then holds what the copy says.
Updates(o) == o # "error" /\ cr.exists /\ recCurrent

UpdateCR(o, r) ==
    /\ cr' = IF Updates(o) THEN r ELSE cr
    /\ cacheCurrent' = (cacheCurrent /\ ~Updates(o))
    /\ UNCHANGED cached

UpdateSucceeds(o) == o = "ok" /\ Updates(o)

\* The metadata of a status update is not written.
statusOf(r) == [cr EXCEPT !.git = r.git, !.available = r.available, !.hook = r.hook]

\* A merge patch carries no resourceVersion: it changes the fields that differ,
\* whatever the version, and gives the caller the server's copy.
PatchCR(o, patched) ==
    /\ cr' = IF o # "error" /\ cr.exists THEN patched ELSE cr
    /\ cacheCurrent' = (cacheCurrent /\ (o = "error" \/ ~cr.exists))
    /\ UNCHANGED cached
    /\ recCurrent' = IF o = "unknown" THEN FALSE ELSE o = "ok" \/ recCurrent

PatchSucceeds(o) == o = "ok" /\ cr.exists
-----------------------------------------------------------------------------
(* The environment. *)

\* The watch brings the cache up to date. The predicate lets creations pass, and
\* updates that change the spec or carry a deletion timestamp.
Watch ==
    /\ ~cacheCurrent
    /\ cached' = cr /\ cacheCurrent' = TRUE
    /\ queued' = (queued \/ ~cr.exists \/ cr.deleting \/ cr.raw # cached.raw)
    /\ UNCHANGED <<spec, cr, rec, recCurrent, pc, outVars, bounds>>

\* Somebody deletes the Codebase.
Delete ==
    /\ Deletable /\ cr.exists /\ ~cr.deleting
    /\ cr' = [cr EXCEPT !.deleting = TRUE]
    /\ cacheCurrent' = FALSE /\ recCurrent' = FALSE
    /\ UNCHANGED <<spec, cached, rec, pc, queued, outVars, bounds>>

\* The API server removes it once the operator's finalizer is gone.
Collect ==
    /\ cr.exists /\ cr.deleting /\ ~cr.finalizer
    /\ cr' = [cr EXCEPT !.exists = FALSE]
    /\ cacheCurrent' = FALSE
    /\ UNCHANGED <<spec, cached, recVars, outVars, bounds>>

\* Somebody changes an annotation: the resourceVersion moves on.
Edit ==
    /\ edits < MaxEdits /\ edits' = edits + 1
    /\ cr.exists
    /\ cacheCurrent' = FALSE /\ recCurrent' = FALSE
    /\ UNCHANGED <<spec, cr, cached, rec, pc, queued, outVars, faults, leftovers>>

\* Somebody removes the webhook from the project.
DropHook ==
    /\ edits < MaxEdits /\ edits' = edits + 1
    /\ remote.hook
    /\ remote' = [remote EXCEPT !.hook = FALSE]
    /\ UNCHANGED <<spec, crVars, recVars, work, branch, secret, faults, leftovers>>

\* Somebody else pushes the default branch before the operator does; "early" is
\* before the operator has verified that it is absent.
PushByOthers ==
    /\ remote.history = "none"
    /\ \/ ForeignPush = "always"
       \/ ForeignPush = "early" /\ {cr.git, rec.git} = {""} /\ pc \notin {"intent", "push"}
    /\ remote' = [remote EXCEPT !.project = TRUE, !.history = "foreign"]
    /\ UNCHANGED <<spec, crVars, recVars, work, branch, secret, bounds>>

\* The operator's pod restarts: its file system is lost, the new cache is
\* listed, and the Codebase comes as a create event.
Restart ==
    /\ MayRestart /\ faults < MaxFaults
    /\ faults' = faults + 1
    /\ cached' = cr /\ cacheCurrent' = TRUE
    /\ queued' = cr.exists
    /\ pc' = "idle" /\ rec' = NewCodebase /\ recCurrent' = FALSE
    /\ work' = NoWork
    /\ UNCHANGED <<spec, cr, remote, branch, secret, leftovers, edits>>
-----------------------------------------------------------------------------
(* Reconcile, up to the chain. *)

\* The first call of a reconcile that read c: setFinalizers adds nothing to a
\* Codebase that is being deleted.
begin(c) ==
    IF c.raw THEN "modify"
    ELSE IF c.deleting THEN "delete"
    ELSE IF ~c.finalizer THEN "finalizer"
    ELSE IF ~c.labelled THEN "label"
    ELSE "webUrl"

Reconcile ==
    /\ pc = "idle" /\ queued /\ queued' = FALSE
    /\ \/ ~cached.exists /\ UNCHANGED <<rec, recCurrent, pc>>
       \/ /\ cached.exists
          /\ rec' = cached /\ recCurrent' = cacheCurrent
          /\ pc' = begin(cached)
    /\ UNCHANGED <<spec, crVars, outVars, bounds>>

\* CodebaseModifier.Apply patches the spec; the update event brings the Codebase
\* back.
Modify(o) ==
    /\ pc = "modify" /\ Outcome(o)
    /\ cr' = IF o # "error" /\ cr.exists THEN [cr EXCEPT !.raw = FALSE] ELSE cr
    /\ cacheCurrent' = (cacheCurrent /\ (o = "error" \/ ~cr.exists))
    /\ IF PatchSucceeds(o) THEN Done ELSE Requeue
    /\ UNCHANGED <<spec, cached, outVars>>

setFinalizers(o) ==
    LET r == [rec EXCEPT !.finalizer = TRUE]
    IN  /\ pc = "finalizer" /\ Outcome(o)
        /\ UpdateCR(o, [cr EXCEPT !.finalizer = TRUE])
        /\ IF UpdateSucceeds(o) THEN Continue(begin(r), r) /\ UNCHANGED recCurrent
                                ELSE Requeue
        /\ UNCHANGED <<spec, outVars>>

initLabels(o) ==
    LET labelled == [cr EXCEPT !.labelled = TRUE]
    IN  /\ pc = "label" /\ Outcome(o)
        /\ cr' = IF o # "error" /\ cr.exists THEN labelled ELSE cr
        /\ cacheCurrent' = (cacheCurrent /\ (o = "error" \/ ~cr.exists))
        /\ IF PatchSucceeds(o) THEN Continue("webUrl", labelled) /\ recCurrent' = TRUE
                               ELSE Requeue
        /\ UNCHANGED <<spec, cached, outVars>>
-----------------------------------------------------------------------------
(* The chain: what a handler skips, and the call that follows. *)

\* Mutant: a push that was begun counts as one that is done.
skipsBegun(r) == spec.strategy = "import" \/ r.git # ""

skipPutProject(r) ==
    spec.strategy = "import" \/ r.git \in skipPutProjectStatuses

skipGitLabCI(r) ==
    \/ spec.ci # "gitlab"
    \/ r.git \in {"gitlab_ci_pushed", "templates_pushed"}
    \/ work.ci

\* Mutant: the statuses of skipGitLabCI.
skipsAfterCI(r) == ~spec.putsTemplates \/ r.git \in {"gitlab_ci_pushed", "templates_pushed"}

skipDeployConfigs(r) == ~spec.putsTemplates \/ r.git = "templates_pushed"

afterCI(r) == IF skipDeployConfigs(r) THEN "branch" ELSE "templates"
afterHook(r) == IF skipGitLabCI(r) THEN afterCI(r) ELSE "ci"
hasWebHook == spec.ci = "tekton" /\ spec.provider # "gerrit"
afterProject(r) == IF hasWebHook THEN "hook" ELSE afterHook(r)

\* setIntermediateSuccessFields of r, a Status().Update; then the given phase.
setIntermediateSuccessFields(o, phase, r) ==
    LET s == [r EXCEPT !.available = FALSE]
    IN  /\ Outcome(o)
        /\ UpdateCR(o, statusOf(s))
        /\ recCurrent' = (recCurrent /\ o # "unknown")
        /\ IF UpdateSucceeds(o) THEN Continue(phase, s) ELSE ChainFails(s)
        /\ UNCHANGED <<spec, outVars>>

\* updateGitStatusWithPatch: nothing is sent when the copy says so already. A
\* patch that fails leaves the new status in the copy, for setFailureCount.
updateGitStatusWithPatch(o, git, phase) ==
    LET r == [rec EXCEPT !.git = git, !.available = FALSE]
        s == [cr EXCEPT !.git = git]
    IN  /\ Outcome(o)
        /\ IF rec.git = git
           THEN o = "ok" /\ Continue(phase, rec) /\ UNCHANGED <<crVars, recCurrent>>
           ELSE /\ PatchCR(o, s)
                /\ IF PatchSucceeds(o) THEN Continue(phase, s) ELSE ChainFails(r)
        /\ UNCHANGED <<spec, outVars>>

\* A call that only asks, or that changes the git server or the work directory.
Call(o, phase, r) ==
    /\ Outcome(o)
    /\ IF o = "ok" THEN Continue(phase, r) ELSE ChainFails([r EXCEPT !.available = FALSE])
    /\ UNCHANGED <<spec, crVars, recCurrent>>
-----------------------------------------------------------------------------
PutGitWebRepoUrl(o) ==
    /\ pc = "webUrl"
    /\ setIntermediateSuccessFields(
           o, IF skipPutProject(rec) THEN afterProject(rec) ELSE "provision", rec)

(* PutProject. *)

PutProject(o) ==
    /\ pc = "provision"
    /\ setIntermediateSuccessFields(
           o, IF rec.git = "push_in_progress" THEN "adopt" ELSE "generate", rec)

\* Mutant: every answer counts as an absent branch.
alwaysAbsent(o) == o = "ok"

\* ResolveRemoteReference found no default branch; an error is an error.
remoteDefaultBranchAbsent(o) == o = "ok" /\ remote.history = "none"

\* Mutant: an interrupted push is always repeated.
neverAdopts(o) ==
    /\ pc = "adopt"
    /\ Outcome(o)
    /\ \/ o = "ok" /\ Continue("generate", rec)
       \/ o # "ok" /\ ChainFails(rec)
    /\ UNCHANGED <<spec, crVars, recCurrent, outVars>>

\* adoptPushedProject: a default branch that is there now came with our push.
adoptPushedProject(o) ==
    /\ pc = "adopt"
    /\ Outcome(o)
    /\ \/ remoteDefaultBranchAbsent(o) /\ Continue("generate", rec)
       \/ o = "ok" /\ ~remoteDefaultBranchAbsent(o) /\ Continue("head", rec)
       \/ o # "ok" /\ ChainFails(rec)
    /\ UNCHANGED <<spec, crVars, recCurrent, outVars>>

\* A created project gets a new history each time; a cloned one brings the
\* history of its source along. Files that were left in the directory stay.
newHistory ==
    IF spec.strategy = "clone" THEN "h1"
    ELSE CHOOSE h \in OwnHistories : h # remote.history

\* Mutant: the credentials are deleted as soon as the source is cloned.
cleansEarly(o) ==
    /\ pc = "generate"
    /\ work' = IF o = "error" THEN work ELSE [work EXCEPT !.history = newHistory]
    /\ secret' = (secret /\ o = "error")
    /\ Call(o, "project", rec)
    /\ UNCHANGED <<remote, branch>>

\* initialProjectProvisioning and checkoutBranch.
initialProjectProvisioning(o) ==
    /\ pc = "generate"
    /\ work' = IF o = "error" THEN work ELSE [work EXCEPT !.history = newHistory]
    /\ Call(o, "project", rec)
    /\ UNCHANGED <<remote, branch, secret>>

createProject(o) ==
    /\ pc = "project"
    /\ remote' = IF o = "error" THEN remote ELSE [remote EXCEPT !.project = TRUE]
    /\ Call(o, "absent", rec)
    /\ UNCHANGED <<work, branch, secret>>

\* createProject refuses to push over a default branch that is there.
verifyAbsent(o) ==
    /\ pc = "absent"
    /\ Outcome(o)
    /\ \/ remoteDefaultBranchAbsent(o) /\ Continue("intent", rec)
       \/ ~remoteDefaultBranchAbsent(o) /\ ChainFails(rec)
    /\ UNCHANGED <<spec, crVars, recCurrent, outVars>>

recordIntent(o) ==
    /\ pc = "intent"
    /\ updateGitStatusWithPatch(o, "push_in_progress", "push")

\* A push of all branches of the work directory. The git client cannot tell that
\* a history it does not know is replaced.
pushed == [remote EXCEPT !.history = work.history, !.ci = work.ci,
                         !.templates = work.templates]

pushProject(o) ==
    /\ pc = "push"
    /\ remote' = IF o = "error" THEN remote ELSE pushed
    /\ Call(o, "head", rec)
    /\ UNCHANGED <<work, branch, secret>>

\* Of createProject and of adoptPushedProject; ErrApiNotSupported is no error.
setDefaultBranch(o) ==
    /\ pc = "head"
    /\ remote' = IF o = "error" \/ spec.provider = "bitbucket" THEN remote
                 ELSE [remote EXCEPT !.head = TRUE]
    /\ Call(o, "pushed", rec)
    /\ UNCHANGED <<work, branch, secret>>

\* Mutant: a status that PutProject does not know.
unknownGitStatus(o) ==
    /\ pc = "pushed"
    /\ updateGitStatusWithPatch(o, "done", afterProject([rec EXCEPT !.git = "done"]))

recordPushed(o) ==
    /\ pc = "pushed"
    /\ updateGitStatusWithPatch(o, "pushed", afterProject([rec EXCEPT !.git = "pushed"]))

(* PutWebHook: the hook that the status names is looked up; otherwise
   CreateWebHookIfNotExists finds it by its URL or creates it. *)

PutWebHook(o) ==
    /\ pc = "hook"
    /\ IF rec.hook /\ remote.hook
       THEN Call(o, afterHook(rec), rec) /\ UNCHANGED remote
       ELSE /\ Call(o, "hookStatus", IF o = "ok" THEN [rec EXCEPT !.hook = TRUE] ELSE rec)
            /\ remote' = IF o = "error" THEN remote ELSE [remote EXCEPT !.hook = TRUE]
    /\ UNCHANGED <<work, branch, secret>>

recordWebHook(o) ==
    /\ pc = "hookStatus"
    /\ setIntermediateSuccessFields(o, afterHook(rec), rec)

(* PutGitLabCIConfig and PutDeployConfigs: clone unless a work directory is
   there, add the files and commit; push; write the status. *)

PrepareGitRepository ==
    IF work.history # "none" THEN work
    ELSE [history |-> remote.history, ci |-> remote.ci, templates |-> remote.templates]

PutGitLabCIConfig(o) ==
    /\ pc = "ci"
    /\ work' = IF o = "error" THEN work ELSE [PrepareGitRepository EXCEPT !.ci = TRUE]
    /\ Call(o, "ciPush", rec)
    /\ UNCHANGED <<remote, branch, secret>>

\* Mutant: an error of the push is dropped.
ignoresPushError(o) ==
    /\ pc = "ciPush"
    /\ remote' = IF o = "error" THEN remote ELSE pushed
    /\ Outcome(o) /\ Continue("ciPushed", rec)
    /\ UNCHANGED <<spec, crVars, recCurrent, work, branch, secret>>

pushGitLabCIConfig(o) ==
    /\ pc = "ciPush"
    /\ remote' = IF o = "error" THEN remote ELSE pushed
    /\ Call(o, "ciPushed", rec)
    /\ UNCHANGED <<work, branch, secret>>

recordGitLabCI(o) ==
    /\ pc = "ciPushed"
    /\ updateGitStatusWithPatch(
           o, "gitlab_ci_pushed", afterCI([rec EXCEPT !.git = "gitlab_ci_pushed"]))

PutDeployConfigs(o) ==
    /\ pc = "templates"
    /\ work' = IF o = "error" THEN work ELSE [PrepareGitRepository EXCEPT !.templates = TRUE]
    /\ Call(o, "templatesPush", rec)
    /\ UNCHANGED <<remote, branch, secret>>

pushDeployConfigs(o) ==
    /\ pc = "templatesPush"
    /\ remote' = IF o = "error" THEN remote ELSE pushed
    /\ Call(o, "templatesPushed", rec)
    /\ UNCHANGED <<work, branch, secret>>

recordDeployConfigs(o) ==
    /\ pc = "templatesPushed"
    /\ updateGitStatusWithPatch(o, "templates_pushed", "branch")

PutDefaultCodeBaseBranch(o) ==
    /\ pc = "branch"
    /\ branch' = (branch \/ o # "error")
    /\ Call(o, "clean", rec)
    /\ UNCHANGED <<remote, work, secret>>

\* The Secret and the work directory are tried both; "error" is a Secret that
\* could not be deleted, "unknown" a directory that could not be removed.
clean(o) ==
    /\ secret' = (secret /\ o = "error")
    /\ work' = IF o = "unknown" THEN work ELSE NoWork
    /\ UNCHANGED <<remote, branch>>

Cleaner(o) ==
    /\ pc = "clean"
    /\ clean(o)
    /\ Call(o, "finish", rec)

updateFinishStatus(o) ==
    /\ pc = "finish" /\ Outcome(o)
    /\ UpdateCR(o, statusOf([rec EXCEPT !.available = TRUE]))
    /\ IF UpdateSucceeds(o) THEN Done ELSE Requeue
    /\ UNCHANGED <<spec, outVars>>
-----------------------------------------------------------------------------
(* The end of a failed chain, and the deletion chain. *)

\* setFailureCount writes the status that the chain left in the copy; an error
\* of the update, and one of removeDirectoryIfExists, is only logged.
setFailureCount(o, removed) ==
    /\ pc = "failure"
    /\ faults' = IF o = "ok" THEN faults ELSE faults + 1
    /\ o # "ok" => faults < MaxFaults
    /\ UpdateCR(o, statusOf(rec))
    /\ \/ removed /\ work' = NoWork /\ UNCHANGED leftovers
       \/ /\ ~removed /\ work # NoWork
          /\ leftovers < MaxLeftovers /\ leftovers' = leftovers + 1
          /\ UNCHANGED work
    /\ Requeue
    /\ UNCHANGED <<spec, remote, branch, secret, edits>>

\* tryToDeleteCodebase: an error of removeDirectoryIfExists ends the reconcile.
tryToDeleteCodebase(o) ==
    /\ pc = "delete" /\ Outcome(o)
    /\ work' = IF o = "ok" THEN NoWork ELSE work
    /\ IF o = "ok"
       THEN /\ Continue(IF spec.ci = "tekton" /\ rec.hook THEN "deleteHook" ELSE "deleteClean", rec)
            /\ UNCHANGED recCurrent
       ELSE Requeue
    /\ UNCHANGED <<spec, crVars, remote, branch, secret>>

\* Every error of DeleteWebHook is only logged.
DeleteWebHook(o) ==
    /\ pc = "deleteHook" /\ Outcome(o)
    /\ remote' = IF o = "error" THEN remote ELSE [remote EXCEPT !.hook = FALSE]
    /\ Continue("deleteClean", rec)
    /\ UNCHANGED <<spec, crVars, recCurrent, work, branch, secret>>

CleanerOfDeletion(o) ==
    /\ pc = "deleteClean" /\ Outcome(o)
    /\ clean(o)
    /\ IF o = "ok" THEN Continue("release", rec) /\ UNCHANGED recCurrent ELSE Requeue
    /\ UNCHANGED <<spec, crVars>>

\* Mutant: the finalizer is removed with a patch, without optimistic lock.
patchesFinalizer(o) ==
    /\ pc = "release" /\ Outcome(o)
    /\ cr' = IF o = "error" THEN cr ELSE [cr EXCEPT !.finalizer = FALSE]
    /\ cacheCurrent' = (cacheCurrent /\ o = "error")
    /\ IF o = "ok" THEN Done ELSE Requeue
    /\ UNCHANGED <<spec, cached, outVars>>

RemoveFinalizer(o) ==
    /\ pc = "release" /\ Outcome(o)
    /\ UpdateCR(o, [cr EXCEPT !.finalizer = FALSE])
    /\ IF UpdateSucceeds(o) THEN Done ELSE Requeue
    /\ UNCHANGED <<spec, outVars>>
-----------------------------------------------------------------------------
\* The steps of the reconcile in flight, in the order of the code.
Prepare(o) == Modify(o) \/ setFinalizers(o) \/ initLabels(o)

Provision(o) ==
    \/ PutProject(o) \/ adoptPushedProject(o) \/ initialProjectProvisioning(o)
    \/ createProject(o) \/ verifyAbsent(o) \/ recordIntent(o) \/ pushProject(o)
    \/ setDefaultBranch(o) \/ recordPushed(o)

AddFiles(o) ==
    \/ PutGitLabCIConfig(o) \/ pushGitLabCIConfig(o) \/ recordGitLabCI(o)
    \/ PutDeployConfigs(o) \/ pushDeployConfigs(o) \/ recordDeployConfigs(o)

Chain(o) ==
    \/ PutGitWebRepoUrl(o) \/ Provision(o) \/ PutWebHook(o) \/ recordWebHook(o)
    \/ AddFiles(o) \/ PutDefaultCodeBaseBranch(o) \/ Cleaner(o)
    \/ updateFinishStatus(o)

Deletion(o) ==
    tryToDeleteCodebase(o) \/ DeleteWebHook(o) \/ CleanerOfDeletion(o) \/ RemoveFinalizer(o)

Controller ==
    \/ Reconcile
    \/ \E o \in Outcomes :
        \/ Prepare(o) \/ Chain(o) \/ Deletion(o)
        \/ \E removed \in BOOLEAN : setFailureCount(o, removed)

Next ==
    \/ Controller
    \/ Watch \/ Delete \/ Collect \/ Edit \/ DropHook \/ PushByOthers \/ Restart

Spec == Init /\ [][Next]_vars

\* The worker goes on, every failure is requeued, the watch delivers, and the API
\* server removes what has no finalizer.
FairSpec == Spec /\ WF_vars(Controller) /\ WF_vars(Watch) /\ WF_vars(Collect)
-----------------------------------------------------------------------------
(* Properties. *)

TypeOK ==
    /\ spec \in SpecRecord
    /\ {cr, cached, rec} \subseteq CodebaseRecord
    /\ {cacheCurrent, recCurrent, queued, branch, secret} \subseteq BOOLEAN
    /\ pc \in Phases
    /\ remote \in RemoteRecord
    /\ work \in WorkRecord
    /\ faults \in 0 .. MaxFaults
    /\ leftovers \in 0 .. MaxLeftovers
    /\ edits \in 0 .. MaxEdits

\* A history that is on the git server is never replaced by another one, although
\* every retry of PutProject generates a new one: not after a lost answer of the
\* push, a crash, a lost status or a stale cache, and not the history somebody else
\* pushed before the operator verified that there is none.
HistoryNeverReplaced ==
    [][remote.history # "none" => remote'.history = remote.history]_vars

DefaultBranchIsThere ==
    remote.history # "none" /\ (remote.head \/ spec.provider = "bitbucket")

\* Status.Git never claims more than what the git server has, although a failed
\* patch leaves the new value in the copy and setFailureCount may write it.
GitStatusIsTrue ==
    /\ cr.git \in {"pushed", "gitlab_ci_pushed", "templates_pushed"} =>
           DefaultBranchIsThere
    /\ cr.git = "gitlab_ci_pushed" => remote.ci
    /\ cr.git = "templates_pushed" => remote.templates

\* A Codebase that is available is complete: its default branch has a history
\* and is the project's head if the provider can be told, the webhook is known and there, the CodebaseBranch
\* exists, the templates and the CI configuration are on the git server. The two
\* exceptions are the webhook somebody removed, and the CI configuration that a
\* work directory which could not be removed pretends to be pushed.
AvailableIsComplete ==
    cr.available /\ ~cr.deleting =>
        /\ DefaultBranchIsThere
        /\ branch
        /\ hasWebHook => cr.hook /\ (remote.hook \/ edits > 0)
        /\ spec.putsTemplates => remote.templates
        /\ spec.ci = "gitlab" => remote.ci \/ leftovers > 0

\* The credentials that PutProject clones with are deleted only once the project
\* is on the git server, or with the Codebase: a retry still finds them.
CredentialsOutlivePush ==
    ~secret => remote.history # "none" \/ cr.deleting

\* A webhook that the status of the Codebase names is deleted with it, although the
\* deletion may start from a copy that is older than the status: the optimistic
\* lock of the last update makes it start again. DeleteWebHook drops its errors.
RecordedHookIsDeleted ==
    ~cr.exists /\ cr.hook /\ faults = 0 => ~remote.hook

\* After finitely many faults a Codebase becomes available, or is gone when
\* somebody deleted it: no fault leaves it in a state that a retry cannot leave.
\* The exception is the one the code names: a default branch of somebody else.
EventuallySettled ==
    <>[](IF cr.deleting THEN ~cr.exists
         ELSE cr.available \/ (spec.strategy # "import" /\ remote.history = "foreign"))

lifecycle ==
    IF ~cr.exists THEN "gone"
    ELSE IF cr.available THEN "available"
    ELSE IF remote.history = "none" THEN "new" ELSE "busy"

Lifecycle == INSTANCE CodebaseLifecycle WITH codebase <- lifecycle

\* What module CodebaseBranch relies on: whoever sees the Codebase available finds
\* its project, then and later, while it is made unavailable by the next reconcile,
\* and through every failure, retry and stale copy on the way.
ImplementsLifecycle == Lifecycle!Spec

\* "so that on retry 'in progress + branch present' can only mean our own push
\* landed": the project of a Codebase that was pushed has an own history.
AdoptsOnlyOwnPush ==
    cr.git = "pushed" /\ spec.strategy # "import" => remote.history \in OwnHistories
=============================================================================
