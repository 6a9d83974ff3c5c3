----------------------------- MODULE StaleCheck -----------------------------
(***************************************************************************)
(* The stale branch checker (controllers/codebasebranch/stalecheck) and    *)
(* the admission webhooks that guard deletions (pkg/webhook).              *)
(*                                                                         *)
(* A sweep lists the CodebaseBranches and the deployment resources from    *)
(* the cache, asks the git server for its branches once, and then goes     *)
(* through its copies: a branch that is missing in git is marked or, with  *)
(* the cleanup strategy "auto" and no deployment that uses it, deleted.    *)
(* Meanwhile people push, deploy, protect, delete and create branches, and *)
(* the garbage collector removes the branches of a deleted Codebase.  The  *)
(* module follows the branches of one Codebase.  Its controller is left to *)
(* the module CodebaseBranch; here it pushes a new branch in two steps.    *)
(***************************************************************************)
EXTENDS Integers

CONSTANTS
    Branches,           \* the names of the CodebaseBranches
    GitBranches,        \* the branches of the repository: Spec.BranchName
    DefaultBranches,    \* the values of Codebase.Spec.DefaultBranch looked at
    Webhooks,           \* the values of ENABLE_WEBHOOKS looked at
    Repositories,       \* the sets of branches that the repository has at first
    Deployments,        \* what CDPipelines and Stages refer to at first
    MaxEvents,          \* bound: what people do
    MaxFaults           \* bound: failed calls and restarts

ASSUME StaleCheckAssumption ==
    /\ Branches # {} /\ GitBranches # {} /\ Branches \cap GitBranches = {}
    /\ DefaultBranches \subseteq GitBranches
    /\ Webhooks \subseteq BOOLEAN
    /\ Repositories \subseteq SUBSET GitBranches
    /\ Deployments \subseteq SUBSET (Branches \cup GitBranches)
    /\ {MaxEvents, MaxFaults} \subseteq Nat

VARIABLES
    default,        \* Codebase.Spec.DefaultBranch
    webhooks,       \* whether the admission webhooks are registered
    cr,             \* the CodebaseBranches in the API server
    cached,         \* the CodebaseBranches in the cache
    inGit,          \* the branches on the git server
    used,           \* what CDPipelines and Stages refer to
    usedCached,     \* the same as the cache shows it
    codebase,       \* the Codebase, as the cache shows it
    auto,           \* whether its cleanup strategy is "auto"
    guarded,        \* whether its label forbids deletions
    pc,             \* the next call of the sweep
    todo,           \* the branches it has still to check
    copy,           \* its copies of them
    usage,          \* its BranchUsageIndex
    listing,        \* its remoteBranches
    autoCleanup,    \* the strategy it has read
    branch,         \* the branch it is at
    name,           \* its Spec.BranchName, by which the verdict was found
    absent,         \* history: the git branches missing when the server was asked
    held,           \* history: what was referred to ever since the usage was read
    events, faults

branchVars == <<cr, cached>>
usageVars == <<used, usedCached>>
codebaseVars == <<default, webhooks, codebase, auto, guarded>>
clusterVars == <<branchVars, inGit, usageVars, codebaseVars>>
history == <<absent, held>>
sweepVars == <<pc, todo, copy, usage, listing, autoCleanup, branch, name>>
vars == <<clusterVars, sweepVars, history, events, faults>>
-----------------------------------------------------------------------------
\* git: Spec.BranchName; created: Status.Git says that the branch was created;
\* protected: the label that forbids deletions; stale: the condition; label: the
\* stale label.
BranchRecord ==
    [exists : BOOLEAN, git : GitBranches, deleting : BOOLEAN, created : BOOLEAN, protected : BOOLEAN,
     stale : {"none", "found", "missing", "retained"}, label : BOOLEAN]

NewBranch(g) ==
    [exists |-> TRUE, git |-> g, deleting |-> FALSE, created |-> FALSE, protected |-> FALSE,
     stale |-> "none", label |-> FALSE]

NoName == CHOOSE g \in GitBranches : TRUE
NoBranch == [NewBranch(NoName) EXCEPT !.exists = FALSE]

\* A CDPipeline refers to the name of a CodebaseBranch, a quality gate of a Stage to
\* the branch of the repository.
References == Branches \cup GitBranches

CodebaseStates == {"there", "terminating", "gone"}
Phases == {"idle", "usage", "list", "next", "condition", "label", "delete"}

Nowhere == CHOOSE b \in Branches : TRUE
NoCopies == [b \in Branches |-> NoBranch]

Idle ==
    /\ pc' = "idle" /\ todo' = {} /\ copy' = NoCopies /\ usage' = {} /\ listing' = {}
    /\ autoCleanup' = FALSE /\ branch' = Nowhere /\ name' = NoName
    /\ absent' = {} /\ held' = {}

Init ==
    /\ default \in DefaultBranches /\ webhooks \in Webhooks
    /\ \E git \in [Branches -> GitBranches] :
          cr = [b \in Branches |-> [NewBranch(git[b]) EXCEPT !.created = TRUE]]
    /\ cached = cr /\ inGit \in Repositories
    /\ used \in Deployments /\ usedCached = used
    /\ codebase = "there" /\ auto \in BOOLEAN /\ guarded = FALSE
    /\ pc = "idle" /\ todo = {} /\ copy = NoCopies /\ usage = {} /\ listing = {}
    /\ autoCleanup = FALSE /\ branch = Nowhere /\ name = NoName
    /\ absent = {} /\ held = {}
    /\ events = 0 /\ faults = 0

Outcomes == {"ok", "error", "unknown"}

\* A call ends well, fails, or takes effect although the caller gets an error.
Outcome(o) ==
    /\ o \in Outcomes
    /\ faults' = IF o = "ok" THEN faults ELSE faults + 1
    /\ o # "ok" => faults < MaxFaults
    /\ UNCHANGED events

Event == events < MaxEvents /\ events' = events + 1 /\ UNCHANGED faults
Silent == UNCHANGED <<events, faults>>
-----------------------------------------------------------------------------
(* Admission. *)

\* The label that protects from deletion, on the stored object.
hasProtectedLabel(b) == cr[b].protected

\* The references of an index to the CodebaseBranch b with the git branch g.
Find(index, b, g) == index \cap {b, g}

\* The CDPipelines and Stages of the cache; those that are being deleted do not count.
FindBranchUsage(b) == Find(usedCached, b, cr[b].git)

\* A Codebase is in use through every quality gate and the CodebaseBranches that the
\* cache shows. (A CDPipeline that lists the Codebase among its applications counts
\* too, and refuses more.)
FindCodebaseUsage == {x \in usedCached : x \in Branches => cached[x].exists}

\* ValidateCreate of a CodebaseBranch: none of the Codebase has this git branch. It finds
\* them by labels, which they have at the latest when they are recorded as created.
ValidateCreate(g) ==
    webhooks => \A c \in Branches : cached[c].exists /\ cached[c].created => cached[c].git # g

\* Mutant: the cascade of a deleted Codebase is checked for usage too.
blocksCascade(b) ==
    webhooks => ~hasProtectedLabel(b) /\ FindBranchUsage(b) = {}

\* ValidateDelete of a CodebaseBranch: the object is the stored one, the Codebase
\* and the deployment resources come from the cache of the manager.
ValidateDelete(b) ==
    webhooks => /\ ~hasProtectedLabel(b)
                /\ codebase \in {"terminating", "gone"} \/ FindBranchUsage(b) = {}

\* ValidateDelete of the Codebase.
ValidateDeleteCodebase == webhooks => ~guarded /\ FindCodebaseUsage = {}

Delete(b) == cr' = [cr EXCEPT ![b].deleting = TRUE]
-----------------------------------------------------------------------------
(* The sweep. *)

\* The list of the branches, from the cache.
sweep ==
    /\ pc = "idle"
    /\ pc' = "usage"
    /\ copy' = cached /\ todo' = {b \in Branches : cached[b].exists}
    /\ UNCHANGED <<clusterVars, usage, listing, autoCleanup, branch, name, history>> /\ Silent

\* The usage of all branches, from the cache; without it the sweep ends.
NewBranchUsageIndex(o) ==
    /\ pc = "usage" /\ Outcome(o) /\ o # "unknown"
    /\ \/ /\ o = "ok" /\ pc' = "list" /\ usage' = usedCached
          /\ held' = used \cap usedCached
          /\ UNCHANGED <<todo, copy, listing, autoCleanup, branch, name, absent>>
       \/ o = "error" /\ Idle
    /\ UNCHANGED clusterVars

\* Mutant: a git server that does not answer has no branches.
failedIsEmpty(o) ==
    /\ pc = "list" /\ Outcome(o) /\ o # "unknown"
    /\ absent' = GitBranches \ inGit
    /\ pc' = "next" /\ listing' = (IF o = "ok" THEN inGit ELSE {}) /\ autoCleanup' = auto
    /\ UNCHANGED <<clusterVars, todo, copy, usage, branch, name, held>>

\* checkCodebaseBranches up to the loop: the Codebase, its GitServer and the secret
\* are read, and the branches of the repository are listed.
ListRemoteBranches(o) ==
    /\ pc = "list" /\ Outcome(o) /\ o # "unknown"
    /\ \/ /\ o = "ok" /\ codebase # "gone"
          /\ pc' = "next" /\ listing' = inGit /\ autoCleanup' = auto
          /\ absent' = GitBranches \ inGit
          /\ UNCHANGED <<todo, copy, usage, branch, name, held>>
       \/ (o = "error" \/ codebase = "gone") /\ Idle
    /\ UNCHANGED clusterVars

eligibleForCheck(b) == ~copy[b].deleting /\ copy[b].created /\ copy[b].git # default

\* Mutant: the usage is left to the webhook.
deletesUsed(b, g) == autoCleanup /\ g \notin listing

\* CleanupAction deletes, MarkAction marks.
deletes(b, g) == autoCleanup /\ g \notin listing /\ Find(usage, b, g) = {}

\* Mutant: the reason takes the place of the status.
reason == IF name \in listing THEN "BranchFoundInGit" ELSE "BranchNotFoundInGit"

\* What the condition is to say.
verdict ==
    IF name \in listing THEN "found"
    ELSE IF autoCleanup /\ Find(usage, branch, name) # {} THEN "retained" ELSE "missing"

\* The next branch of the loop.
checkBranch(b) ==
    /\ pc = "next" /\ b \in todo
    /\ todo' = todo \ {b}
    /\ \/ /\ eligibleForCheck(b)
          /\ pc' = (IF deletes(b, copy[b].git) THEN "delete" ELSE "condition")
          /\ branch' = b /\ name' = copy[b].git
       \/ ~eligibleForCheck(b) /\ UNCHANGED <<pc, branch, name>>
    /\ UNCHANGED <<clusterVars, copy, usage, listing, autoCleanup, history>> /\ Silent

finished == pc = "next" /\ todo = {} /\ Idle /\ UNCHANGED clusterVars /\ Silent

\* A merge patch carries neither version nor identity; what it returns replaces the
\* copy. An error ends the work on this branch only.
Patched(o, needed, new) ==
    LET effect == o # "error" /\ cr[branch].exists
    IN  IF needed
        THEN /\ cr' = IF effect THEN [cr EXCEPT ![branch] = new] ELSE cr
             /\ copy' = IF o = "ok" /\ effect THEN [copy EXCEPT ![branch] = new] ELSE copy
        ELSE o = "ok" /\ UNCHANGED <<cr, copy>>

Succeeds(o, needed) == o = "ok" /\ (needed => cr[branch].exists)

\* Mutant: no patch of a branch that has a condition.
setOnce == copy[branch].stale = "none"

conditionChanges == copy[branch].stale # verdict

updateStatusCondition(o) ==
    /\ pc = "condition" /\ Outcome(o)
    /\ Patched(o, conditionChanges, [cr[branch] EXCEPT !.stale = verdict])
    /\ pc' = IF Succeeds(o, conditionChanges) THEN "label" ELSE "next"
    /\ UNCHANGED <<usageVars, codebaseVars, cached, inGit>>
    /\ UNCHANGED <<todo, usage, listing, autoCleanup, branch, name, history>>

labelChanges == copy[branch].label # (name \notin listing)

\* The label mirrors the condition.
updateStaleLabel(o) ==
    /\ pc = "label" /\ Outcome(o)
    /\ Patched(o, labelChanges, [cr[branch] EXCEPT !.label = name \notin listing])
    /\ pc' = "next"
    /\ UNCHANGED <<usageVars, codebaseVars, cached, inGit>>
    /\ UNCHANGED <<todo, usage, listing, autoCleanup, branch, name, history>>

\* The delete has no precondition: it takes what has this name by now.
CleanupAction(o) ==
    /\ pc = "delete" /\ Outcome(o)
    /\ IF o # "error" /\ cr[branch].exists /\ ValidateDelete(branch)
       THEN Delete(branch) ELSE UNCHANGED cr
    /\ pc' = "next"
    /\ UNCHANGED <<usageVars, codebaseVars, cached, inGit>>
    /\ UNCHANGED <<todo, copy, usage, listing, autoCleanup, branch, name, history>>
-----------------------------------------------------------------------------
(* The environment. *)

Watch ==
    /\ cached # cr /\ cached' = cr
    /\ UNCHANGED <<usageVars, codebaseVars, cr, inGit, sweepVars, history>>
    /\ Silent

WatchUsage ==
    /\ usedCached # used /\ usedCached' = used
    /\ UNCHANGED <<branchVars, codebaseVars, inGit, used, sweepVars, history>>
    /\ Silent

RemoveRemoteBranch(g) ==
    /\ Event /\ g \in inGit /\ inGit' = inGit \ {g}
    /\ UNCHANGED <<branchVars, usageVars, codebaseVars, sweepVars, history>>

PushBranch(g) ==
    /\ Event /\ g \notin inGit /\ inGit' = inGit \cup {g}
    /\ UNCHANGED <<branchVars, usageVars, codebaseVars, sweepVars, history>>

Deploy(x) ==
    /\ Event /\ x \notin used /\ used' = used \cup {x}
    /\ UNCHANGED <<branchVars, codebaseVars, inGit, usedCached, sweepVars, history>>

Undeploy(x) ==
    /\ Event /\ x \in used /\ used' = used \ {x} /\ held' = held \ {x}
    /\ UNCHANGED <<branchVars, codebaseVars, inGit, usedCached, sweepVars, absent>>

ChangeStrategy ==
    /\ Event /\ auto' = ~auto
    /\ UNCHANGED <<branchVars, usageVars, default, webhooks, inGit, codebase, guarded, sweepVars, history>>

ProtectCodebase ==
    /\ Event /\ codebase = "there" /\ guarded' = ~guarded
    /\ UNCHANGED <<branchVars, usageVars, default, webhooks, inGit, codebase, auto, sweepVars, history>>

\* What people write into the API server.
Write(new) ==
    /\ cr' = new
    /\ UNCHANGED <<usageVars, codebaseVars, cached, inGit, sweepVars, history>>

Protect(b) == Event /\ cr[b].exists /\ Write([cr EXCEPT ![b].protected = ~cr[b].protected])

\* The name may have been that of another branch.
Create(b, g) ==
    /\ Event /\ ~cr[b].exists /\ codebase # "gone" /\ ValidateCreate(g)
    /\ Write([cr EXCEPT ![b] = NewBranch(g)])

DeleteByUser(b) ==
    /\ Event /\ cr[b].exists /\ ~cr[b].deleting /\ ValidateDelete(b)
    /\ Write([cr EXCEPT ![b].deleting = TRUE])

\* The controller of the CodebaseBranches: the branch is pushed, then recorded; the
\* finalizer of a deleted one is released.
PutBranchInGit(b) ==
    /\ cr[b].exists /\ ~cr[b].deleting /\ ~cr[b].created /\ codebase = "there"
    /\ \/ cr[b].git \notin inGit /\ inGit' = inGit \cup {cr[b].git} /\ UNCHANGED cr
       \/ cr[b].git \in inGit /\ cr' = [cr EXCEPT ![b].created = TRUE] /\ UNCHANGED inGit
    /\ UNCHANGED <<usageVars, codebaseVars, cached, sweepVars, history>>
    /\ Silent

Release(b) ==
    /\ cr[b].exists /\ cr[b].deleting /\ Write([cr EXCEPT ![b] = NoBranch])
    /\ Silent

DeleteCodebase ==
    /\ Event /\ codebase = "there" /\ ValidateDeleteCodebase /\ codebase' = "terminating"
    /\ UNCHANGED <<branchVars, usageVars, default, webhooks, inGit, auto, guarded, sweepVars, history>>

ReleaseCodebase ==
    /\ codebase = "terminating" /\ codebase' = "gone"
    /\ UNCHANGED <<branchVars, usageVars, default, webhooks, inGit, auto, guarded, sweepVars, history>>
    /\ Silent

\* The garbage collector deletes the branches that the Codebase owned; the webhook
\* is asked about these deletions too.
GarbageCollect(b) ==
    /\ codebase = "gone" /\ cr[b].exists /\ ~cr[b].deleting /\ ValidateDelete(b)
    /\ Write([cr EXCEPT ![b].deleting = TRUE])
    /\ Silent

Restart ==
    /\ faults < MaxFaults /\ faults' = faults + 1 /\ UNCHANGED events
    /\ cached' = cr /\ usedCached' = used /\ Idle
    /\ UNCHANGED <<codebaseVars, cr, inGit, used>>
-----------------------------------------------------------------------------
Checker ==
    \/ sweep \/ finished
    \/ \E b \in Branches : checkBranch(b)
    \/ \E o \in Outcomes :
          \/ NewBranchUsageIndex(o) \/ ListRemoteBranches(o)
          \/ updateStatusCondition(o) \/ updateStaleLabel(o) \/ CleanupAction(o)

Users ==
    \/ ChangeStrategy \/ ProtectCodebase \/ DeleteCodebase
    \/ \E g \in GitBranches : RemoveRemoteBranch(g) \/ PushBranch(g)
    \/ \E x \in References : Deploy(x) \/ Undeploy(x)
    \/ \E b \in Branches :
          Protect(b) \/ DeleteByUser(b) \/ \E g \in GitBranches : Create(b, g)

Cluster ==
    \/ Watch \/ WatchUsage \/ ReleaseCodebase \/ Restart
    \/ \E b \in Branches : PutBranchInGit(b) \/ Release(b) \/ GarbageCollect(b)

Next == Checker \/ Users \/ Cluster

Spec == Init /\ [][Next]_vars

\* The ticker starts sweeps for ever, the watches deliver, the controllers work.
Fairness ==
    /\ WF_vars(Checker) /\ WF_vars(Watch) /\ WF_vars(WatchUsage) /\ WF_vars(ReleaseCodebase)
    /\ \A b \in Branches :
          WF_vars(PutBranchInGit(b)) /\ WF_vars(Release(b)) /\ WF_vars(GarbageCollect(b))

FairSpec == Spec /\ Fairness
-----------------------------------------------------------------------------
(* Properties. *)

TypeOK ==
    /\ default \in DefaultBranches /\ webhooks \in Webhooks
    /\ {cr, cached, copy} \subseteq [Branches -> BranchRecord]
    /\ {inGit, listing, absent} \subseteq SUBSET GitBranches
    /\ {used, usedCached, usage, held} \subseteq SUBSET References
    /\ codebase \in CodebaseStates /\ {auto, guarded, autoCleanup} \subseteq BOOLEAN
    /\ pc \in Phases /\ todo \in SUBSET Branches /\ branch \in Branches /\ name \in GitBranches
    /\ events \in 0 .. MaxEvents /\ faults \in 0 .. MaxFaults

deletedBySweep(b) ==
    pc = "delete" /\ pc' = "next" /\ ~cr[b].deleting /\ cr'[b].deleting

marked(b) == cr'[b].stale \in {"missing", "retained"} /\ cr'[b].stale # cr[b].stale

\* The CodebaseBranch still has the git branch that the sweep looked for; it may have
\* been created again meanwhile.
sameBranch(b) == cr[b].git = name

\* A sweep acts on a branch only when the git server has answered and did not have
\* it: neither a failed listing nor a listing of an earlier sweep marks or deletes.
NeverOnUnknown ==
    [][\A b \in Branches :
          (deletedBySweep(b) \/ marked(b)) /\ sameBranch(b) => cr[b].git \in absent]_vars

\* A branch that has been in use ever since the sweep read the usage, under its name
\* or under that of its git branch, is not deleted by it, with or without the webhooks.
InUseSpared ==
    [][\A b \in Branches :
          deletedBySweep(b) => b \notin held /\ (sameBranch(b) => cr[b].git \notin held)]_vars

\* What a sweep looks at.
wanted(b) == cr[b].git # default /\ cr[b].exists /\ cr[b].created /\ ~cr[b].deleting

unused(b) == auto /\ cr[b].git \notin inGit /\ Find(used, b, cr[b].git) = {}

\* In the end the condition and the label say what the git server has, whatever
\* failed between the two patches; with the strategy "auto", branches that are missing
\* and not in use are gone. The webhook refuses the deletion of protected ones, and
\* then they are not marked either.
MarksSettle ==
    <>[](codebase = "there" => \A b \in Branches : wanted(b) =>
            IF unused(b) THEN webhooks /\ cr[b].protected
            ELSE /\ (cr[b].stale \in {"missing", "retained"}) = (cr[b].git \notin inGit)
                 /\ cr[b].label = (cr[b].git \notin inGit))

\* The branches of a deleted Codebase go, also when they came into use after the
\* deletion was admitted. Only the protection label keeps them.
CascadeCompletes ==
    [](codebase = "gone" => <>(\A b \in Branches : cr[b].exists => webhooks /\ cr[b].protected))
=============================================================================
