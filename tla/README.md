# A TLA+ verification of the codebase operator

The operator (`src/`) watches custom resources of a Kubernetes cluster and drives git
servers and Tekton from them. It has no state of its own: everything it knows is in the
resources, in the projects on the git servers and, for the length of a reconcile, in a work
directory of its pod. Its correctness is a matter of what happens when a reconcile is cut
off between two calls, is repeated, starts from an old copy of its resource, or runs while
somebody else changes the same things. That is what these modules are about.

## Inventory

| Component | State | Operations | Interacts with |
|---|---|---|---|
| CDStageDeploy controller | `CDStageDeploy.status`, the PipelineRuns it created | resolve the status, render a TriggerTemplate, create a PipelineRun, delete the resource | Tekton, the CodebaseImageStream controller (creates its input), image streams (tags) |
| auto-deploy strategies (`pkg/autodeploy`) | none | choose the tag of every application | image streams, annotations of the Stage |
| CodebaseImageStream controller | none | create a CDStageDeploy per label of a stream whose tags changed | CI pipelines (push tags), CDStageDeploy controller |
| Codebase controller | `Codebase.status` (`git`, `available`, `webHookRef`), finalizer, labels, project on the git server, work directory | provision and push a project, webhook, CI configuration, deployment templates, default CodebaseBranch, clean up; deletion chain | git server, CodebaseBranch controller, credentials Secret |
| CodebaseBranch controller | `CodebaseBranch.status` (`git`, `build`, `versionHistory`, `conditions`), branch on the git server, image stream | check the reference, create the branch, put the image stream, process a new version | Codebase (must be available), CI pipelines (build numbers), stale branch checker |
| stale branch checker | condition and label of a CodebaseBranch | periodic sweep: mark or delete branches that are gone from git | CodebaseBranch controller, admission webhooks |
| admission webhooks | none | validate creation, update and deletion of Codebases and CodebaseBranches | every writer of the resources |
| GitServer controller | `GitServer.status`, the owner of the credentials Secret, EventListener and Ingress | take ownership of the Secret, connection probe, EventListener, Ingress, status | git servers, Codebase chain (`PutWebHook` writes the token into the same Secret), garbage collector |
| JiraServer, JiraIssueMetadata, IntegrationSecret controllers | a connected flag | probe of an external service | Jira, registries, Sonar and others |
| clients (`pkg/git`, `pkg/gitprovider`, `pkg/gerrit`, `pkg/gitlab`, `pkg/tektoncd`) | none | calls | used by the controllers |

Hard behaviours, and where they are: the caches of the manager's client trail the API
server, so decisions are taken on old lists and old copies; status updates carry the
version of the copy (optimistic lock) while merge patches do not; a call that fails may have
taken effect; names are generated, so repeated creations are not idempotent; every retry of
the project provisioning generates a new history; two controllers work on the same
CDStageDeploys at once; the pod may restart between any two calls. `PROJECT.json` lists each
hazard at its line.

What makes a component correct:

* CDStageDeploy: a request is not removed before it was deployed, a stage has one running
  PipelineRun at a time, retries do not multiply runs, a resource is not removed while its run
  is active, everything that is requested is eventually done, and the payload is never older
  than the request.
* CodebaseImageStream: a pushed tag reaches its stages; open requests are bounded for `Auto`
  stages; failures do not multiply requests without bound.
* Codebase: a history on the git server is never replaced; `status.git` is true of the git
  server; an available Codebase is complete; credentials survive as long as they may be needed;
  recorded webhooks are deleted; the Codebase settles.
* CodebaseBranch: build numbers and version history are not lost or duplicated, the condition of
  the checker survives every write of the controller, a branch is recorded as created only if it was
  put into git, an active branch is complete, and every branch settles.
* Stale checker and webhooks: nothing is done on the strength of a failed listing; branches in use are spared;
  marks settle; the cascade of a deleted Codebase is not blocked.
* GitServer: the token that a provider has is the token of the Secret; the Secret keeps its owner;
  a GitServer that was deleted and created again is served by objects of its own.

## Modules

* `StageQueue` - abstract: requests for stages are worked on at most once, one at a time per
  stage, and closed when the work is complete.
* `CDStageDeploy` - the CDStageDeploy controller with the strategies and the creation of
  PipelineRuns.
* `AutoDeploy` - extends it with the CodebaseImageStream controller: the path from a pushed tag
  to a PipelineRun.
* `Codebase` - the Codebase controller: one Codebase, its chain and its deletion chain.
* `CodebaseLifecycle` - abstract: what a Codebase promises to those that depend on it. `Codebase`
  implements it, `CodebaseBranch` is composed with it.
* `CodebaseBranch` - the CodebaseBranch controller with the Codebase, CI and the checker beside it.
* `StaleCheck` - the sweeps of the stale branch checker and the admission webhooks for deletions.
* `GitServer` - the GitServer controller and `PutWebHook`, which share a Secret.
* `CDStageDeploy_proofs`, `CDStageDeployRuns_proofs`, `AutoDeploy_proofs`, `Codebase_proofs`,
  `CodebaseBranch_proofs`, `StaleCheck_proofs`, `GitServer_proofs` - theorems.
* `MCCDStageDeploy`, `MCAutoDeploy`, `MCCodebase`, `MCCodebaseBranch`, `MCStaleCheck`, `MCGitServer` -
  instances for TLC.

Operators with the comment "Mutant" are not part of the models: each is a variant of the
definition that follows with a plausible mistake, and shows that a property notices it.

### CDStageDeploy and AutoDeploy

`deploy`, `runs` and `tags` are the resources in the API server; `cachedDeploy` and `cachedRuns`
the informer caches; `queue`, `pc` and `rec` the controller's work queue, the call the reconcile
makes next, and its copy of the resource. One action stands for one call: `Reconcile` (Get),
`ResolveStatus` (List PipelineRuns), `shouldStartCDStageDeploy` (List CDStageDeploys),
`ProcessTriggerTemplate` (the reads it needs), `CreatePipelineRun`, `DeleteCDStageDeploy`,
`UpdateStatus`. Code between two calls looks at the local copy only and is folded into
the action before it. The reads of `ProcessTriggerTemplate` are one action: the CDPipeline, the
Stage and the TriggerTemplate are constants here, and the tags of the streams only grow.
`tags` is what the cache of the image streams holds: both controllers read the streams from the one cache of
the manager, so a payload is read from the state a request was made from or from a newer one.

A read sees the API server or what the cache held before (`ReadDeploys`, `ReadRuns`); caches never
go back. A call ends well, fails without effect, or fails after it took effect (`Outcome`). A
restart loses the reconcile and queues every resource, as the list of a new informer does. The
controller ignores updates, so a resource stays in `queue` (its timer) until it is found deleted.
Equal creation timestamps (one second of resolution) leave the order to the list, which has none.

In `AutoDeploy` the steps of the CodebaseImageStream controller interleave with those of the other;
the restart empties its queue because create events are filtered out.

### Codebase

`cr` is the Codebase in the API server, `cached` the cache, `rec` the copy of the reconcile;
`cacheCurrent` and `recCurrent` say whether they have the last resourceVersion, which is all that
the optimistic lock looks at. `remote` is the project (history of the default branch, head, files,
webhook), `work` the work directory. An update fails when the copy is not current; a patch does not,
and gives the caller the server's copy. A failed chain leaves its in-memory status to
`setFailureCount`, which writes it. Histories are abstracted to "none", "foreign" and two own ones:
a regenerated history differs from the one on the server, and only that matters.

Left out: the failure count and the delays (a requeue happens at some later time), the generation of
the webhook token in the git server's Secret (it is in `GitServer`), labels and messages, branches other than the default
one, `Codebase` resources that fail validation. The providers differ in two ways that matter:
Gerrit has no webhook, Bitbucket cannot be told the default branch.

`lifecycle` maps this state to `CodebaseLifecycle`: the project is there once, and for good; the Codebase
is available only afterwards, and is gone for good.

### CodebaseBranch

`cr`, `cached`, `rec`, `cacheCurrent` and `recCurrent` are as in `Codebase`; `remote` is the branch on the git
server, `stream` the image stream, `streamSeen` whether the cache has it. `codebase` is the state of the
abstract `CodebaseLifecycle`, whose steps are steps of the environment here. One action stands for one call:
the preparations (`setDefaultValues`, `AddCodebaseLabel` with the owner, `AddFinalizer`), the chain
(`CheckReferenceExists`, `acceptRegistration`, `checkCodebaseAvailable`, `CreateRemoteBranch`, `recordCreated`,
`ProcessNewVersion`, `setIntermediateSuccessFields`, `updateResource`,
`createCodebaseImageStreamIfNotExists`) and the last write (`setSuccessStatus` or
`updateStatusOfFailure`). Every update writes a whole status, conditions included (`statusOf`). The chain's updates carry the
version of its copy and its conditions. The last write is `updateStatus`: it takes the object, its version and its
conditions from the cache (`fetchedConditions`) and puts the rest of the status of the copy over it. `spec.foreign` is a CodebaseBranch that
another controller owns: `setOwnerRef` fails and the error is written by `updateStatus`. `spec.fromRef` is the default branch, a
commit, a name that does not exist (`CheckReferenceExists` finds out) or a full hash that does not exist, which
`resolveAdvertisedRef` lets pass and the git server refuses (`creatable`). Builds (`StartBuild`, `FinishBuild`), marks of the checker, new versions and deletions come from others.
Branch names, the failure count and its delay, messages and the registry are left out.

### StaleCheck

One Codebase with its branches. The sweep is a process: `sweep` (list from the cache),
`NewBranchUsageIndex`, `ListRemoteBranches` (with the reads of the Codebase, GitServer and Secret), then for every
copy `checkBranch` and either `CleanupAction` or `updateStatusCondition` and `updateStaleLabel`, which are merge
patches without a version. `ValidateDelete` is asked at each deletion, the sweep's, a person's and the
garbage collector's alike, on a cache that may be stale; `webhooks` is FALSE where they are disabled.
The name of a CodebaseBranch (`Branches`) and its `spec.branchName` (`GitBranches`) are different things: a name may be
created again for another git branch (`Create`, after `ValidateCreate`), and the sweep, which holds a copy, goes on with the `name` it
has looked for. The CDPipelines and Stages are abstracted to `used`, what they refer to: a CDPipeline the name of a
CodebaseBranch, a quality gate a git branch; `Find` matches both, as `BranchUsageIndex` does. `guarded` is the
protection label of the Codebase, `protected` that of a branch. `absent` and `held` are
history variables. Events and the interval between two sweeps are left out.

### GitServer

GitServers that refer to one Secret. The Secret is updated from the cache, as a whole and with its version, by
`ensureSecretOwnership` and by `getGitServerSecret`. `uid` tells a GitServer from an earlier one of the same name; the
garbage collector goes by it. `Reconcile` takes the ownership (unless the cache shows another GitServer
with this Secret) and probes the connection, `createEventListener` and `createIngress` create what
is not there (`EventListener`s are read from the API server, the Ingress from the cache: a creation that is refused
because the object exists is a failing call), `updateGitServerStatus` writes what changed.
`getGitServerSecret` and `CreateWebHook` are `PutWebHook` of the Codebase chain. Ingress, HTTPRoute and Route are one
object; their contents are left out.

## Runs

| Run | Shows |
|---|---|
| `cdsd_faults` | two requests for a stage; one failing call or restart, one stale read, deletion by the owner |
| `cdsd_queue` | refinement of `StageQueue` with its fairness, three requests, equal timestamps included |
| `cdsd_retry` | every request ends, one failing call or restart anywhere |
| `auto_deploy` | both controllers, three tags, an `Auto` stage: bound on open requests, payload |
| `auto_stable` | both controllers, an `Auto` stage whose template is empty and an `Auto-stable` one: requests, payload, delivery |
| `codebase_faults` | the whole Codebase chain: two failing calls or restarts, one change by others, one work directory that stays, deletion, all strategies; refinement of `CodebaseLifecycle` |
| `branch_faults` | the whole chain of a CodebaseBranch: one failing call or restart, two writes of others, both versioning types, the Codebase coming and going |
| `stale_sweep` | sweeps, webhooks on and off, both strategies, two things that people do and one failing call or restart at any step |
| `gitserver_faults` | two GitServers and two Codebases around one Secret; deletion and re-creation, removed and edited objects, one failing call or restart |
| `cdsd_parallel` (violation) | a failed request is retried beside a running PipelineRun |
| `cdsd_overtaking` (violation) | a new request overtakes a waiting older one |
| `codebase_adoption` (violation) | a foreign push is adopted as the own one |

Bounds. Two requests are the least at which one waits for the other, three the least at which two
wait and the order matters. One fault is enough for each window between two calls of a
reconcile; a second one, in `codebase_faults`, reaches the failing retry (an interrupted push whose
adoption is interrupted). One stale read reaches each decision taken on an old list. `MaxRuns` is one
more than the PipelineRuns a run ever creates, so the bound never suppresses one. `MaxTag` bounds the tags of a stream. In `branch_faults`
two writes of others are the least at which a build or a mark meets a new version, a deletion or another
build; `Codebase` steps are not counted. In `stale_sweep` two events reach deletion and re-creation during one sweep,
for the same or another git branch, deployment and its end, protection and deletion; CodebaseBranches do not influence each
other's verdict (each has its own turn and patches), so one name and two git branches, one of them the default
one, are enough there, and the proofs hold for any number. In `gitserver_faults` one event is one deletion, replacement, removal or edit,
with two incarnations of the GitServer that has objects; two Codebases are the least at which two tokens compete.
Runs other than `stale_sweep` do not check for deadlock: when every request is done
and no more names are left, or the resource is gone, the system may stop; the ticker of the checker never does.

Exceptions that the properties name are those the code has: a TriggerTemplate without resources and a
stream without tags complete a request without a PipelineRun; a work directory that could not be
removed makes `PutGitLabCIConfig` skip a configuration that was not pushed (`gitlabCIAlreadyExists`);
`DeleteWebHook` drops its errors.

Fairness. A worker takes what is in its queue and goes on until the reconcile ends
(weak fairness of the steps); the work queue is first in, first out and every outcome requeues, so each
resource gets its turn (strong fairness of `Reconcile(d)`, whose guard other resources disable in
between). Tekton completes PipelineRuns, the garbage collector and the watches work. One assumption is
about the list of a cache: of requests with equal timestamps it does not always put the same other one first.
The CodebaseBranch controller is requeued after every error, and its delays grow, so a retry does not for ever come
before the watch: when the cache is behind at the start of infinitely many reconciles, the watch is first in some of them
(strong fairness of `WatchFirst`). Nothing of the kind is assumed of the last write, which follows the
writes of its own reconcile at once, however long the delay before it was: `EventuallySettled` of `CodebaseBranch` says
that a branch settles or that infinitely many reconciles outrun the watch there (`outruns`).
The Codebase becomes available in the end,
unless it is deleted: its own run shows it. The checker's ticker sweeps for ever; the GitServer controller requeues
every GitServer periodically, and its queue is fair to them (strong fairness of `Reconcile(s)`).
Faults are finite in number, requests by others too; nothing is assumed about when they occur.

## Findings

* `cdsd_parallel`: the controller has one worker "to avoid running multiple pipelines in parallel",
  but `ResolveStatus` lets a failed resource pass without a look at the PipelineRuns. One failing call is enough.
* `cdsd_overtaking`: the queue orders the resources that are `in-queue`; a `pending` one is not compared with
  them and starts as soon as nothing is running.
* `codebase_adoption`: `push_in_progress` with a branch that is present is said to prove that the own push
  landed; the push of somebody else after the check, with the own one failed, looks the same.

## Observations

What the models keep as the code has it, and what the properties therefore except.

CodebaseBranch
* `updateStatus` (`codebasebranch_controller.go:239`) puts the status of the copy over what CI wrote during the reconcile:
  a build number or `LastSuccessfulBuild` of that moment is lost. `ProgressKept` and `VersionStartsAtZero` except it
  (`missed`).
* It is to "get the latest version of the CodebaseBranch before updating it" (`codebasebranch_controller.go:236`), but the Get is
  answered from the cache, which need not show what the chain wrote a moment ago: without any fault the update conflicts and
  the whole chain is repeated. `EventuallySettled` excepts a branch to which this happens for ever (`outruns`).
* Its conditions are those of the cache; when the cache is behind, the update conflicts, and this alone keeps an older condition
  from being written (`ConditionKept`). `RequeueAfter` is ignored where an error is returned.
* A branch from a full hash that does not exist passes `CheckReferenceExists` and fails at every creation.
* `setFailedFields` of `PutCodebaseImageStream` drops `LastSuccessfulBuild` and `FailureCount`.
* A Codebase that is deleted before it is stored as the owner leaves a CodebaseBranch that fails for ever.

Stale branch checker and webhooks
* A usage that goes out of date during a sweep is said to be safe, because "the delete is re-validated against live data by the
  admission webhook" (`checker.go:93`). The webhook reads the manager's cache (`webhook.go:18`), and `ENABLE_WEBHOOKS` can
  disable it: a branch that comes into use after the usage was read may be deleted. `InUseSpared` speaks of those in use since then.
* The delete and the patches go by the name, without UID and version: a CodebaseBranch that was created again for another git branch
  takes the verdict on its predecessor. It may be one of the default branch, which is among those that "must not be acted on"
  (`checker.go:191`); a mark on that stays, as the default branch is not checked again. `NeverOnUnknown` and `InUseSpared` except
  what was created again (`sameBranch`). No property says that the default branch is spared.
* A branch that is protected, unused, missing in git and of a Codebase with the strategy "auto" is neither deleted (refused)
  nor marked. The protection label also keeps the branches of a deleted Codebase.

GitServer
* The Secret is not taken when several GitServers refer to it, because "deleting one of them would garbage-collect credentials still
  in use by the others" (`gitserver_controller.go:153`). The others are looked for once, in the cache: a GitServer that comes later, or
  is not in the cache yet, loses its credentials when the owner is deleted. One that is deleted and created again loses a Secret that its
  predecessor owned.

Controllers that are not modelled
* `PutIssueWebLink` posts its links again in every retry of a `JiraIssueMetadata`; its owner reference is set on the copy only.
  A JiraServer that answers without a user is not probed again before the next change or resync.
* `updateConnectionAnnotation` of an integration Secret compares the connection annotation with the error message too, which it
  never equals, so every reconcile updates the Secret.

## Proofs

Every invariant and every safety action property that a passing run checks is also a theorem, for every value of the
constants that the named assumptions of the modules allow.

`CDStageDeploy_proofs` proves for every value of the constants (any number of requests, stages,
applications, faults, stale reads), from `ConstantsAssumption` alone:

* `TypeCorrect`: `Spec => []TypeOK`;
* `NothingIsLost`: `DeployedBeforeGone`;
* `StageIsExclusive`: `OneRunPerStage`;
* `RunsEndFirst`: `NoOrphanRun`;
* `RequestIsCovered`: `PayloadCoversRequest`.

They follow from one inductive invariant, `IndInv`, the conjunction of

* the types, with `rec` naming a resource that exists while a reconcile is in flight (`TypeInv`, `Known`);
* `TagsGrow`: no stream is behind its initial tag, and no request is ahead of its stream;
* `RunsHaveReasons`: a run is of a known request and for its stage;
* per property, what the caches and the copy of the reconcile say of the runs. Deletion is decided on a copy read
  several steps earlier, so the invariants have to speak of all three places: a `running` in the server,
  in the cache or in the copy means that a run exists; while nothing was stale, a copy
  that is about to create a run means that none is active.

Every action is first reduced to its effect (`Flow`: begins, fails, resolves, queues,
triggers, creates; `DeployStepHolds`, `CacheStep`, `TagsStep`, `RunsStep`), and the invariants are shown to survive
the effects, one lemma each.

`CDStageDeployRuns_proofs` counts the runs:

* `RunsArePaidFor`: `RunsAccountedFor`;
* `QueueImplemented`: `Undisturbed => (Spec => Queue!Spec)`, the safety part of the refinement of `StageQueue`.

The first is an account. A CDStageDeploy is spent once its status says that it has its run or it is being deleted; the
runs are never more than the spent resources, the faults and the stale reads (`RunsInv`). Between the creation of a run and the status
update the account is open: `Refund` is the run whose status is about to be written, `Debt` the run that a copy
may still create although its update will be refused. Which of the two it is depends on the resource version, so
the account needs `VersionInv`: the same version of a resource that is there is the same resource.
The second has a hypothesis, and `cdsd_queue` has the same: no call fails, no read is stale and every stream has a tag.
With a fault a CDStageDeploy may get a second run, and without a tag it is closed without a run; `StageQueue` allows neither. It needs
`OnceInv`: no two runs of one CDStageDeploy, and one that has its run says so or is just about to. Fairness of `StageQueue` is not
part of the theorem.

`AutoDeploy_proofs` proves about the composition, for any streams and labels:

* `AutoTypesCorrect`: `CisTypeOK`;
* `QueueIsBounded`: `AutoQueueBound`;
* `RequestsArePaidFor`: `RequestsAccountedFor`;
* `CompositionKeepsPromises`: `DeployedBeforeGone`, `OneRunPerStage`, `RunsAccountedFor`, `NoOrphanRun` and
  `PayloadCoversRequest` hold there too;
* `AutoQueueImplemented`: `Undisturbed => (AutoSpec => Queue!Spec)`, the requests of pushed tags are worked on as `StageQueue` promises.

Each step is one of `CDStageDeploy` or one of the stream controller, which changes the other's state by a creation
only, so `IndInv`, the account of the runs and `OnceInv` carry over (a request may be behind its stream but not ahead of it: `CisInv`). The bound of two holds because between the count
and the creation there is room for one more (`BoundInv`): one worker counts and creates. Requests are an account again
(`RequestInv`): created, in flight and queued ones together are no more than pushes and faults.

`Codebase_proofs` proves for every strategy, CI tool and provider, and any number of faults, leftovers and edits:

* `TypesCorrect`: `TypeOK`;
* `GitStatusCorrect`: `GitStatusIsTrue`;
* `AvailableCorrect`: `AvailableIsComplete`;
* `CredentialsCorrect`: `CredentialsOutlivePush`;
* `HookDeletionCorrect`: `RecordedHookIsDeleted`;
* `LifecycleImplemented`: `ImplementsLifecycle`, the refinement of `CodebaseLifecycle`;
* `HistoryKept`: `ForeignPush # "always" => (Spec => HistoryNeverReplaced)`.

The invariant relates the three copies of the status (server, cache, reconcile) to the git server. Only the controller writes the status, so a
chain that got past its first update has the server's `Status.Git`, current or not (`CopyInv`); whatever any copy says of the
project is true (`ProjectInv`), because after a failed patch the new value stays in the copy and is written later. `FilesInv`, `HookInv` and
`FinalizerInv` say the same of the pushed files, the webhook and the deletion. `HistoryInv` adds that from the intent
to the push the project is empty. This needs the hypothesis that nobody else pushes in between; with `"always"` the property is false, which is the
window that `codebase_adoption` shows.

`CodebaseBranch_proofs` proves for any versions, edits and faults:

* `TypesCorrect`: `TypeOK`;
* `CreatedCorrect`: `CreatedIsInGit`;
* `VersionsCorrect`: `VersionsDistinct`;
* `ActiveCorrect`: `ActiveIsComplete`;
* `ConditionCorrect`: `ConditionKept`;
* `ProgressCorrect`: `ProgressKept`;
* `VersionStartCorrect`: `VersionStartsAtZero`.

The type of the build number already needs an invariant: no copy counts more builds than there were edits (`BuildInv`). `GitInv`,
`DistinctInv` and `ActiveInv` hold of all three copies, since `updateStatus` writes a copy without checking that it is current.
`LagInv` says how far copies lag: a cache or a copy with the last version has the condition of the server, which is why
`ConditionKept` holds although every write carries a condition. `PhaseInv` says what the chain has
established when it comes to a call, and `ProgressInv` that a copy which missed
nothing has the progress of the server or, after a failed update, exactly one version more.

`GitServer_proofs` proves for any GitServers, Codebases, tokens, events and faults (there is at least one GitServer):

* `TypesCorrect`: `TypeOK`;
* `TokenCorrect`: `TokenAgrees`;
* `OwnerCorrect`: `OwnerKept`.

A token is written only over none, because the update carries the version of the Secret it was read from: the cache shows no token or the
current one, and a Codebase about to register holds the current one (`TokenInv`). Its first conjunct, that a cache with the last version
shows the Secret as it is, also carries `OwnerKept`: a copy that is accepted shows the owner.

`StaleCheck_proofs` proves for any branches, default branches, events and faults, with and without the webhooks, from
`StaleCheckAssumption` alone:

* `TypeCorrect`: `Spec => []TypeOK`;
* `UnknownIsSpared`: `NeverOnUnknown`;
* `UsedIsSpared`: `InUseSpared`.

The last two are action properties. They follow from `TypeOK` and `SweepInv`, which relates what the sweep remembers to
what was true when it asked: from the listing on, the branches it does not list are those that were absent;
what is held in use is in its usage; when a branch is about to be deleted, the git branch it was looked for by is
not listed, and neither that nor its name is used. Steps of others leave all of it alone (`OthersElsewhere`); only `CleanupAction`
deletes and only `updateStatusCondition` marks, each the branch that the sweep is at (`DeletedBySweep`, `Marked`).

Model-checked only: the liveness properties (`EveryDeployEnds`, `TagReachesStage`, both `EventuallySettled`, `MarksSettle`,
`CascadeCompletes`, `EventuallyServed`) and the fairness of `ImplementsQueue`: fairness and ENABLED are out of the prover's
reach.

## Plan

Done: the CDStageDeploy and CodebaseImageStream controllers, the Codebase, CodebaseBranch and GitServer
controllers, the stale branch checker, the webhooks' deletion checks, `StageQueue` and `CodebaseLifecycle`.

1. Proofs: what bounds the faults' damage more tightly (how many runs one fault can add to one stage), and which of
   the observations' losses are the only ones (`ProgressKept` without `missed`).
2. `JiraIssueMetadata` with `JiraServer`; the creation check of Codebases.

## Not modelled

* The JiraServer, JiraIssueMetadata and IntegrationSecret controllers: each is one probe, or one list of calls of an external
  service, and one status update; they share no state with the modelled parts (see the observations).
* `ValidateCreate` of Codebases and `ValidateUpdate` of the webhooks: they compare an object with itself or with a cached list and
  write nothing.
* The REST and SSH clients, the rendering of templates and charts, telemetry and start-up wiring. They keep no state that the
  controllers share, and their failures are the failing calls of the models. The methods of
  `service/codebasebranch.go` are called by nothing.
* Generated code: the Bitbucket client (`bitbucket_client.generated.go`, four fifths of the repository's lines of Go) and the
  deep copies.
