--------------------------- MODULE Codebase_proofs ---------------------------
(***************************************************************************)
(* Proofs about the Codebase controller, for every strategy, CI tool and   *)
(* provider, and for any number of failed calls, restarts, leftovers and   *)
(* changes made by others.                                                 *)
(***************************************************************************)
EXTENDS Codebase, TLAPS

(***************************************************************************)
(* The inductive invariant.                                                *)
(***************************************************************************)

\* The calls of a reconcile, in groups.
Preparing == {"modify", "finalizer", "label", "webUrl"}
Pushing == {"provision", "adopt", "generate", "project", "absent", "intent", "push",
            "head", "pushed"}
AfterCI == {"templates", "templatesPush", "templatesPushed", "branch", "clean", "finish"}
AfterHook == {"hookStatus", "ci", "ciPush", "ciPushed"} \cup AfterCI
AfterProject == {"hook"} \cup AfterHook
InChain == Pushing \cup AfterProject
Deleting == {"delete", "deleteHook", "deleteClean", "release"}

\* Status.Git goes from "" over "push_in_progress" to one of the values after the push:
\* g is not further on that way than h.
NotAfter(g, h) ==
    /\ g # "" => h # ""
    /\ g \in skipPutProjectStatuses => h \in skipPutProjectStatuses

\* What a value of Status.Git claims about the git server.
Claim(git) ==
    /\ git \in skipPutProjectStatuses => DefaultBranchIsThere
    /\ git = "gitlab_ci_pushed" => remote.ci
    /\ git = "templates_pushed" =>
           remote.templates /\ (spec.ci = "gitlab" => remote.ci \/ leftovers > 0)

\* What the copies have to do with the Codebase in the API server. Only the
\* controller writes the status, so the copy of a chain that got past its first
\* update has the status of the server, current or not.
CopyInv ==
    /\ cacheCurrent => cached = cr
    /\ NotAfter(cached.git, cr.git)
    /\ pc # "failure" => NotAfter(rec.git, cr.git)
    /\ recCurrent /\ pc \in Preparing \cup Deleting => rec.git = cr.git /\ rec.hook = cr.hook
    /\ pc \in InChain => /\ rec.git = cr.git /\ ~cr.available /\ ~rec.available
                         /\ pc # "hookStatus" => rec.hook = cr.hook
    /\ pc = "failure" => ~rec.available /\ (recCurrent => NotAfter(cr.git, rec.git))

\* The finalizer is there from the label on, and is removed only by a reconcile
\* that saw the deletion; the cache shows the deletion then, too.
FinalizerInv ==
    /\ cached.deleting \/ rec.deleting => cr.deleting
    /\ pc \in Deleting => rec.deleting /\ cached.deleting
    /\ pc = "finalizer" => ~rec.deleting
    /\ cached.finalizer /\ ~cached.deleting => cr.finalizer
    /\ pc \in {"label", "webUrl", "failure"} \cup InChain => cr.finalizer
    /\ ~cr.exists => ~cr.finalizer

\* Where the reconcile is, and what the project must be like then.
ProjectInv ==
    /\ spec.strategy = "import" => remote.history # "none" /\ remote.head
    /\ Claim(cr.git) /\ Claim(cached.git) /\ Claim(rec.git)
    /\ pc \in Pushing => spec.strategy # "import" /\ cr.git \in {"", "push_in_progress"}
    /\ pc \in {"project", "absent", "intent", "push"} => work.history # "none"
    /\ pc \in {"head", "pushed"} => remote.history # "none"
    /\ pc \in {"pushed"} \cup AfterProject => DefaultBranchIsThere
    /\ pc \in AfterProject => spec.strategy = "import" \/ cr.git \in skipPutProjectStatuses

\* The files: no work directory lacks what the project has, and before the first push
\* was recorded there is nothing to lack.
FilesInv ==
    /\ work.history # "none" =>
           (remote.ci => work.ci) /\ (remote.templates => work.templates)
    /\ spec.strategy # "import" /\ cr.git \in {"", "push_in_progress"} =>
           ~remote.ci /\ ~remote.templates /\ ~work.ci /\ ~work.templates
    /\ pc = "ciPush" => work.history # "none" /\ work.ci
    /\ pc = "templatesPush" => work.history # "none" /\ work.templates
    /\ pc = "ciPushed" => remote.ci
    /\ pc = "templatesPushed" => remote.templates
    /\ work.ci /\ ~remote.ci => leftovers > 0 \/ pc \in {"ciPush", "failure"}
    /\ spec.ci = "gitlab" /\ pc \in AfterCI => remote.ci \/ leftovers > 0
    /\ spec.putsTemplates /\ pc \in {"branch", "clean", "finish"} => remote.templates

\* The webhook.
HookInv ==
    /\ cr.hook \/ cached.hook \/ rec.hook \/ pc \in {"hook", "hookStatus"} => hasWebHook
    /\ hasWebHook /\ pc \in AfterHook => rec.hook /\ (remote.hook \/ edits > 0)
    /\ faults = 0 /\ rec.hook /\ pc \in {"deleteClean", "release"} => ~remote.hook
    /\ faults = 0 /\ ~cr.finalizer /\ cr.hook => ~remote.hook

\* What makes an available Codebase complete.
CompleteInv ==
    /\ pc \in {"clean", "finish"} => branch
    /\ cr.available => remote.history # "none"
    /\ AvailableIsComplete
    /\ CredentialsOutlivePush

IndInv == TypeOK /\ CopyInv /\ FinalizerInv /\ ProjectInv /\ FilesInv /\ HookInv /\ CompleteInv

\* The history of the project, when nobody else pushes after the operator has
\* verified that there is none: a work directory either has it or is not there.
HistoryInv ==
    /\ pc \in {"adopt", "push", "head", "pushed"} => cr.git # ""
    /\ pc \in {"intent", "push"} => remote.history = "none"
    /\ pc \in {"generate", "project", "absent"} /\ cr.git # "" => remote.history = "none"
    /\ pc = "failure" /\ spec.strategy # "import" /\ rec.git # "" /\ cr.git = "" =>
           remote.history = "none"
    /\ remote.history # "none" /\ (spec.strategy = "import" \/ cr.git # "") =>
           work.history \in {"none", remote.history}
-----------------------------------------------------------------------------
(***************************************************************************)
(* Types.                                                                  *)
(***************************************************************************)

\* The records that the actions write have their type.
LEMMA NewType == NewCodebase \in CodebaseRecord /\ NoWork \in WorkRecord
BY DEF NewCodebase, NoWork, CodebaseRecord, WorkRecord, GitStatuses, Histories

\* So has a Codebase with one field changed.
LEMMA FieldType ==
    ASSUME NEW r \in CodebaseRecord, NEW b \in BOOLEAN
    PROVE  /\ [r EXCEPT !.raw = b] \in CodebaseRecord
           /\ [r EXCEPT !.finalizer = b] \in CodebaseRecord
           /\ [r EXCEPT !.labelled = b] \in CodebaseRecord
           /\ [r EXCEPT !.deleting = b] \in CodebaseRecord
           /\ [r EXCEPT !.exists = b] \in CodebaseRecord
           /\ [r EXCEPT !.available = b] \in CodebaseRecord
           /\ [r EXCEPT !.hook = b] \in CodebaseRecord
BY DEF CodebaseRecord

\* The same for Status.Git.
LEMMA GitFieldType ==
    ASSUME NEW r \in CodebaseRecord, NEW git \in GitStatuses
    PROVE  /\ [r EXCEPT !.git = git] \in CodebaseRecord
           /\ [r EXCEPT !.git = git, !.available = FALSE] \in CodebaseRecord
BY DEF CodebaseRecord

\* The same for the status as a whole.
LEMMA StatusType ==
    ASSUME cr \in CodebaseRecord, NEW r \in CodebaseRecord
    PROVE  statusOf(r) \in CodebaseRecord
BY DEF CodebaseRecord, statusOf

\* So has the project after a push, a change of its head or its webhook.
LEMMA RemoteType ==
    ASSUME remote \in RemoteRecord, work \in WorkRecord, NEW b \in BOOLEAN
    PROVE  /\ pushed \in RemoteRecord
           /\ [remote EXCEPT !.project = b] \in RemoteRecord
           /\ [remote EXCEPT !.head = b] \in RemoteRecord
           /\ [remote EXCEPT !.hook = b] \in RemoteRecord
           /\ [remote EXCEPT !.project = TRUE, !.history = "foreign"] \in RemoteRecord
BY DEF pushed, RemoteRecord, WorkRecord, Histories

\* So has the work directory once a history is generated or files are added.
LEMMA WorkType ==
    ASSUME remote \in RemoteRecord, work \in WorkRecord
    PROVE  /\ newHistory \in OwnHistories
           /\ [work EXCEPT !.history = newHistory] \in WorkRecord
           /\ [PrepareGitRepository EXCEPT !.ci = TRUE] \in WorkRecord
           /\ [PrepareGitRepository EXCEPT !.templates = TRUE] \in WorkRecord
<1>1. newHistory \in OwnHistories
  <2>1. \E h \in OwnHistories : h # remote.history
    BY DEF OwnHistories
  <2> QED
    BY <2>1 DEF newHistory, OwnHistories
<1>2. PrepareGitRepository \in WorkRecord
  BY DEF PrepareGitRepository, WorkRecord, RemoteRecord
<1> QED
  BY <1>1, <1>2 DEF WorkRecord, Histories

\* The calls that follow a handler.
LEMMA PhaseType ==
    ASSUME NEW r
    PROVE  /\ begin(r) \in Preparing \cup {"delete"}
           /\ afterCI(r) \in {"branch", "templates"}
           /\ afterHook(r) \in {"branch", "templates", "ci"}
           /\ afterProject(r) \in {"branch", "templates", "ci", "hook"}
BY DEF begin, afterCI, afterHook, afterProject, Preparing

\* A call keeps the counters within their bounds.
LEMMA CounterType ==
    ASSUME faults \in 0 .. MaxFaults, leftovers \in 0 .. MaxLeftovers, edits \in 0 .. MaxEdits,
           NEW o, Outcome(o)
    PROVE  /\ faults' \in 0 .. MaxFaults /\ leftovers' \in 0 .. MaxLeftovers
           /\ edits' \in 0 .. MaxEdits
BY CodebaseAssumption DEF Outcome

\* setIntermediateSuccessFields keeps the types.
LEMMA SuccessFieldsType ==
    ASSUME TypeOK, NEW o, NEW phase \in Phases, NEW r \in CodebaseRecord,
           setIntermediateSuccessFields(o, phase, r)
    PROVE  TypeOK'
<1> DEFINE s == [r EXCEPT !.available = FALSE]
<1>1. s \in CodebaseRecord
  BY FieldType
<1>2. statusOf(s) \in CodebaseRecord
  BY <1>1, StatusType DEF TypeOK
<1>3. cr' \in CodebaseRecord /\ rec' \in CodebaseRecord /\ cached' \in CodebaseRecord
  BY <1>1, <1>2 DEF setIntermediateSuccessFields, UpdateCR, ChainFails, Continue, TypeOK
<1>4. cacheCurrent' \in BOOLEAN /\ recCurrent' \in BOOLEAN /\ queued' \in BOOLEAN /\ pc' \in Phases
  BY DEF setIntermediateSuccessFields, UpdateCR, Updates, ChainFails, Continue, TypeOK, Phases
<1>5. /\ faults' \in 0 .. MaxFaults /\ leftovers' \in 0 .. MaxLeftovers
      /\ edits' \in 0 .. MaxEdits
  BY CounterType DEF setIntermediateSuccessFields, TypeOK
<1> QED
  BY <1>3, <1>4, <1>5 DEF setIntermediateSuccessFields, outVars, TypeOK

\* The same for updateGitStatusWithPatch.
LEMMA GitStatusType ==
    ASSUME TypeOK, NEW o, NEW git \in GitStatuses, NEW phase \in Phases,
           updateGitStatusWithPatch(o, git, phase)
    PROVE  TypeOK'
<1>1. /\ [rec EXCEPT !.git = git, !.available = FALSE] \in CodebaseRecord
      /\ [cr EXCEPT !.git = git] \in CodebaseRecord
  BY GitFieldType DEF TypeOK
<1>2. cr' \in CodebaseRecord /\ rec' \in CodebaseRecord /\ cached' \in CodebaseRecord
  BY <1>1 DEF updateGitStatusWithPatch, PatchCR, ChainFails, Continue, TypeOK, crVars
<1>3. cacheCurrent' \in BOOLEAN /\ recCurrent' \in BOOLEAN /\ queued' \in BOOLEAN /\ pc' \in Phases
  BY DEF updateGitStatusWithPatch, PatchCR, ChainFails, Continue, TypeOK, Phases, crVars
<1>4. /\ faults' \in 0 .. MaxFaults /\ leftovers' \in 0 .. MaxLeftovers
      /\ edits' \in 0 .. MaxEdits
  BY CounterType DEF updateGitStatusWithPatch, TypeOK
<1> QED
  BY <1>2, <1>3, <1>4 DEF updateGitStatusWithPatch, outVars, TypeOK

\* The same for the calls that leave the Codebase alone.
LEMMA CallType ==
    ASSUME TypeOK, NEW o, NEW phase \in Phases, NEW r \in CodebaseRecord, Call(o, phase, r),
           remote' \in RemoteRecord, work' \in WorkRecord, branch' \in BOOLEAN, secret' \in BOOLEAN
    PROVE  TypeOK'
<1>1. [r EXCEPT !.available = FALSE] \in CodebaseRecord
  BY FieldType
<1>2. rec' \in CodebaseRecord /\ queued' \in BOOLEAN /\ pc' \in Phases
  BY <1>1 DEF Call, ChainFails, Continue, TypeOK, Phases
<1>3. /\ faults' \in 0 .. MaxFaults /\ leftovers' \in 0 .. MaxLeftovers
      /\ edits' \in 0 .. MaxEdits
  BY CounterType DEF Call, TypeOK
<1> QED
  BY <1>2, <1>3 DEF Call, crVars, TypeOK

\* The steps up to the chain keep the types.
LEMMA PrepareTypeOK ==
    ASSUME TypeOK, NEW o \in Outcomes, Reconcile \/ Prepare(o)
    PROVE  TypeOK'
<1> USE DEF TypeOK
<1>0. \A r : begin(r) \in Phases
  BY PhaseType DEF Preparing, Phases
<1>1. CASE Reconcile
  BY <1>0, <1>1 DEF Reconcile, crVars, outVars, bounds
<1>2. CASE Modify(o)
  <2>1. [cr EXCEPT !.raw = FALSE] \in CodebaseRecord
    BY FieldType
  <2>2. /\ faults' \in 0 .. MaxFaults /\ leftovers' \in 0 .. MaxLeftovers
        /\ edits' \in 0 .. MaxEdits
    BY <1>2, CounterType DEF Modify
  <2> QED
    BY <1>2, <2>1, <2>2, NewType DEF Modify, Done, Requeue, outVars, Phases
<1>3. CASE setFinalizers(o)
  <2>1. /\ [cr EXCEPT !.finalizer = TRUE] \in CodebaseRecord
        /\ [rec EXCEPT !.finalizer = TRUE] \in CodebaseRecord
    BY FieldType
  <2>2. /\ faults' \in 0 .. MaxFaults /\ leftovers' \in 0 .. MaxLeftovers
        /\ edits' \in 0 .. MaxEdits
    BY <1>3, CounterType DEF setFinalizers
  <2> QED
    BY <1>0, <1>3, <2>1, <2>2, NewType
       DEF setFinalizers, UpdateCR, Updates, Continue, Requeue, outVars, Phases
<1>4. CASE initLabels(o)
  <2>1. [cr EXCEPT !.labelled = TRUE] \in CodebaseRecord
    BY FieldType
  <2>2. /\ faults' \in 0 .. MaxFaults /\ leftovers' \in 0 .. MaxLeftovers
        /\ edits' \in 0 .. MaxEdits
    BY <1>4, CounterType DEF initLabels
  <2> QED
    BY <1>4, <2>1, <2>2, NewType DEF initLabels, Continue, Requeue, outVars, Phases
<1> QED
  BY <1>1, <1>2, <1>3, <1>4 DEF Prepare

\* So do the handlers of the chain.
LEMMA ChainTypeOK ==
    ASSUME TypeOK, NEW o \in Outcomes, Chain(o)
    PROVE  TypeOK'
<1> USE DEF TypeOK, Phases
<1>0. /\ \A r : afterCI(r) \in Phases /\ afterHook(r) \in Phases /\ afterProject(r) \in Phases
      /\ "push_in_progress" \in GitStatuses /\ "pushed" \in GitStatuses
      /\ "gitlab_ci_pushed" \in GitStatuses /\ "templates_pushed" \in GitStatuses
  BY PhaseType DEF GitStatuses
<1>1. CASE PutGitWebRepoUrl(o)
  BY <1>0, <1>1, SuccessFieldsType DEF PutGitWebRepoUrl
<1>2. CASE PutProject(o)
  BY <1>2, SuccessFieldsType DEF PutProject
<1>3. CASE recordWebHook(o)
  BY <1>0, <1>3, SuccessFieldsType DEF recordWebHook
<1>4. CASE recordIntent(o) \/ recordPushed(o) \/ recordGitLabCI(o) \/ recordDeployConfigs(o)
  <2>1. CASE recordIntent(o)
    BY <1>0, <2>1, GitStatusType DEF recordIntent
  <2>2. CASE recordPushed(o)
    BY <1>0, <2>2, GitStatusType DEF recordPushed
  <2>3. CASE recordGitLabCI(o)
    BY <1>0, <2>3, GitStatusType DEF recordGitLabCI
  <2>4. CASE recordDeployConfigs(o)
    BY <1>0, <2>4, GitStatusType DEF recordDeployConfigs
  <2> QED
    BY <1>4, <2>1, <2>2, <2>3, <2>4
<1>5. CASE adoptPushedProject(o) \/ verifyAbsent(o)
  <2>1. /\ faults' \in 0 .. MaxFaults /\ leftovers' \in 0 .. MaxLeftovers
        /\ edits' \in 0 .. MaxEdits
    BY <1>5, CounterType DEF adoptPushedProject, verifyAbsent
  <2> QED
    BY <1>5, <2>1
       DEF adoptPushedProject, verifyAbsent, Continue, ChainFails, crVars, outVars
<1>6. CASE initialProjectProvisioning(o)
  BY <1>6, CallType, WorkType DEF initialProjectProvisioning
<1>7. CASE createProject(o)
  BY <1>7, CallType, RemoteType DEF createProject
<1>8. CASE pushProject(o)
  BY <1>8, CallType, RemoteType DEF pushProject
<1>9. CASE setDefaultBranch(o)
  BY <1>9, CallType, RemoteType DEF setDefaultBranch
<1>10. CASE PutWebHook(o)
  <2>1. /\ [rec EXCEPT !.hook = TRUE] \in CodebaseRecord
        /\ [remote EXCEPT !.hook = TRUE] \in RemoteRecord
    BY FieldType, RemoteType
  <2>2. CASE rec.hook /\ remote.hook
    BY <1>0, <1>10, <2>2, CallType DEF PutWebHook
  <2>3. CASE ~(rec.hook /\ remote.hook)
    BY <1>10, <2>1, <2>3, CallType DEF PutWebHook
  <2> QED
    BY <2>2, <2>3
<1>11. CASE PutGitLabCIConfig(o)
  BY <1>11, CallType, WorkType DEF PutGitLabCIConfig
<1>12. CASE pushGitLabCIConfig(o)
  BY <1>12, CallType, RemoteType DEF pushGitLabCIConfig
<1>13. CASE PutDeployConfigs(o)
  BY <1>13, CallType, WorkType DEF PutDeployConfigs
<1>14. CASE pushDeployConfigs(o)
  BY <1>14, CallType, RemoteType DEF pushDeployConfigs
<1>15. CASE PutDefaultCodeBaseBranch(o)
  BY <1>15, CallType DEF PutDefaultCodeBaseBranch
<1>16. CASE Cleaner(o)
  BY <1>16, CallType, NewType DEF Cleaner, clean
<1>17. CASE updateFinishStatus(o)
  <2>1. statusOf([rec EXCEPT !.available = TRUE]) \in CodebaseRecord
    BY FieldType, StatusType
  <2>2. /\ faults' \in 0 .. MaxFaults /\ leftovers' \in 0 .. MaxLeftovers
        /\ edits' \in 0 .. MaxEdits
    BY <1>17, CounterType DEF updateFinishStatus
  <2> QED
    BY <1>17, <2>1, <2>2, NewType
       DEF updateFinishStatus, UpdateCR, Updates, Done, Requeue, outVars
<1> QED
  BY <1>1, <1>2, <1>3, <1>4, <1>5, <1>6, <1>7, <1>8, <1>9, <1>10, <1>11, <1>12, <1>13, <1>14,
     <1>15, <1>16, <1>17 DEF Chain, Provision, AddFiles

\* So do the end of a failed chain and the deletion.
LEMMA EndTypeOK ==
    ASSUME TypeOK, NEW o \in Outcomes,
           Deletion(o) \/ \E removed \in BOOLEAN : setFailureCount(o, removed)
    PROVE  TypeOK'
<1> USE DEF TypeOK, Phases
<1>0. ASSUME Outcome(o)
      PROVE  /\ faults' \in 0 .. MaxFaults /\ leftovers' \in 0 .. MaxLeftovers
             /\ edits' \in 0 .. MaxEdits
  BY <1>0, CounterType
<1>1. ASSUME NEW removed \in BOOLEAN, setFailureCount(o, removed)
      PROVE  TypeOK'
  <2>1. statusOf(rec) \in CodebaseRecord
    BY StatusType
  <2>2. faults' \in 0 .. MaxFaults /\ leftovers' \in 0 .. MaxLeftovers
    BY <1>1, CodebaseAssumption DEF setFailureCount
  <2> QED
    BY <1>1, <2>1, <2>2, NewType DEF setFailureCount, UpdateCR, Updates, Requeue
<1>2. CASE tryToDeleteCodebase(o)
  BY <1>0, <1>2, NewType DEF tryToDeleteCodebase, Continue, Requeue, crVars
<1>3. CASE DeleteWebHook(o)
  BY <1>0, <1>3, RemoteType DEF DeleteWebHook, Continue, crVars
<1>4. CASE CleanerOfDeletion(o)
  BY <1>0, <1>4, NewType DEF CleanerOfDeletion, clean, Continue, Requeue, crVars
<1>5. CASE RemoveFinalizer(o)
  <2>1. [cr EXCEPT !.finalizer = FALSE] \in CodebaseRecord
    BY FieldType
  <2> QED
    BY <1>0, <1>5, <2>1, NewType
       DEF RemoveFinalizer, UpdateCR, Updates, Done, Requeue, outVars
<1> QED
  BY <1>1, <1>2, <1>3, <1>4, <1>5 DEF Deletion

\* So does what others do.
LEMMA OthersTypeOK ==
    ASSUME TypeOK,
           Watch \/ Delete \/ Collect \/ Edit \/ DropHook \/ PushByOthers \/ Restart
    PROVE  TypeOK'
<1> USE DEF TypeOK
<1>1. CASE Watch
  BY <1>1 DEF Watch, outVars, bounds
<1>2. CASE Delete
  <2>1. [cr EXCEPT !.deleting = TRUE] \in CodebaseRecord
    BY FieldType
  <2> QED
    BY <1>2, <2>1 DEF Delete, outVars, bounds
<1>3. CASE Collect
  <2>1. [cr EXCEPT !.exists = FALSE] \in CodebaseRecord
    BY FieldType
  <2> QED
    BY <1>3, <2>1 DEF Collect, recVars, outVars, bounds
<1>4. CASE Edit
  <2>1. edits' \in 0 .. MaxEdits
    BY <1>4, CodebaseAssumption, SMT DEF Edit
  <2> QED
    BY <1>4, <2>1 DEF Edit, outVars
<1>5. CASE DropHook
  <2>1. edits' \in 0 .. MaxEdits
    BY <1>5, CodebaseAssumption DEF DropHook
  <2>2. remote' \in RemoteRecord
    BY <1>5, RemoteType DEF DropHook
  <2> QED
    BY <1>5, <2>1, <2>2 DEF DropHook, crVars, recVars
<1>6. CASE PushByOthers
  BY <1>6, RemoteType DEF PushByOthers, crVars, recVars, bounds
<1>7. CASE Restart
  <2>1. faults' \in 0 .. MaxFaults
    BY <1>7, CodebaseAssumption DEF Restart
  <2> QED
    BY <1>7, <2>1, NewType DEF Restart, Phases, CodebaseRecord
<1> QED
  BY <1>1, <1>2, <1>3, <1>4, <1>5, <1>6, <1>7

\* The variables have their types at the beginning.
LEMMA InitTypeOK == Init => TypeOK
<1> SUFFICES ASSUME Init PROVE TypeOK
  OBVIOUS
<1>1. remote \in RemoteRecord
  BY DEF Init, RemoteRecord, Histories, SpecRecord
<1>2. faults \in 0 .. MaxFaults /\ leftovers \in 0 .. MaxLeftovers /\ edits \in 0 .. MaxEdits
  BY CodebaseAssumption DEF Init
<1> QED
  BY <1>1, <1>2, NewType DEF Init, TypeOK, Phases

\* Every step keeps them.
LEMMA NextTypeOK == TypeOK /\ [Next]_vars => TypeOK'
<1> SUFFICES ASSUME TypeOK, [Next]_vars PROVE TypeOK'
  OBVIOUS
<1>1. CASE Controller
  BY <1>1, PrepareTypeOK, ChainTypeOK, EndTypeOK DEF Controller, Outcomes
<1>2. CASE Watch \/ Delete \/ Collect \/ Edit \/ DropHook \/ PushByOthers \/ Restart
  BY <1>2, OthersTypeOK
<1>3. CASE UNCHANGED vars
  BY <1>3 DEF vars, crVars, recVars, outVars, bounds, TypeOK
<1> QED
  BY <1>1, <1>2, <1>3 DEF Next

\* The variables keep their types: after every step the copies are Codebases, the
\* phase is one of Reconcile's calls and the counters are within their bounds.
THEOREM TypesCorrect == Spec => []TypeOK
BY InitTypeOK, NextTypeOK, PTL DEF Spec
-----------------------------------------------------------------------------
(***************************************************************************)
(* The invariant is inductive: one lemma for each of its parts.            *)
(***************************************************************************)

\* What a fresh copy says.
LEMMA NewFields ==
    /\ NewCodebase.exists /\ NewCodebase.raw /\ ~NewCodebase.finalizer
    /\ ~NewCodebase.labelled /\ ~NewCodebase.deleting
    /\ NewCodebase.git = "" /\ ~NewCodebase.available /\ ~NewCodebase.hook
BY DEF NewCodebase

\* How the calls end, and the groups of phases, are expanded in all that follows.
USE DEF crVars, recVars, outVars, bounds, Outcome, Continue, ChainFails, Requeue, Done,
        Updates, UpdateCR, UpdateSucceeds, statusOf, PatchCR, PatchSucceeds,
        setIntermediateSuccessFields, updateGitStatusWithPatch, Call
USE DEF IndInv, NotAfter, skipPutProjectStatuses, CodebaseRecord,
        Preparing, Pushing, AfterCI, AfterHook, AfterProject, InChain, Deleting

\* A work directory that stays after a failure is counted, and the count never falls.
LEMMA LeftoversCounted ==
    ASSUME TypeOK, NEW o, NEW removed, setFailureCount(o, removed)
    PROVE  /\ leftovers > 0 => leftovers' > 0
           /\ work' = NoWork \/ (work' = work /\ leftovers' > 0)
<1>1. leftovers \in Nat
  BY CodebaseAssumption DEF TypeOK
<1>2. \/ work' = NoWork /\ leftovers' = leftovers
      \/ work' = work /\ leftovers' = leftovers + 1
  BY DEF setFailureCount
<1> QED
  BY <1>1, <1>2

\* A fault is counted: as long as there is none, every call ended well.
LEMMA FaultsCounted ==
    ASSUME TypeOK
    PROVE  /\ \A o : Outcome(o) => (faults' = 0 => faults = 0 /\ o = "ok")
           /\ \A o, removed : setFailureCount(o, removed) => (faults' = 0 => faults = 0 /\ o = "ok")
           /\ Restart => faults' # 0
<1>1. faults \in Nat
  BY CodebaseAssumption DEF TypeOK
<1> QED
  BY <1>1 DEF setFailureCount, Restart

\* So is a change that somebody else made.
LEMMA EditsCounted ==
    ASSUME TypeOK, Edit \/ DropHook
    PROVE  edits' > 0
<1>1. edits \in Nat
  BY CodebaseAssumption DEF TypeOK
<1> QED
  BY <1>1 DEF Edit, DropHook

\* The effect of a call that leaves the Codebase alone.
LEMMA CallEffect ==
    ASSUME NEW o, NEW phase, NEW r \in CodebaseRecord, Call(o, phase, r)
    PROVE  /\ pc' = IF o = "ok" THEN phase ELSE "failure"
           /\ rec'.git = r.git /\ rec'.hook = r.hook
           /\ UNCHANGED <<spec, cr, cached, leftovers, edits>>
OBVIOUS

\* The effect of updateGitStatusWithPatch: when the chain goes on, the Codebase and the
\* copy have the new status, and otherwise at least the copy has it.
LEMMA GitStatusEffect ==
    ASSUME {cr, rec} \subseteq CodebaseRecord, rec.git = cr.git, rec.hook = cr.hook,
           ~rec.available, ~cr.available,
           NEW o, NEW git, NEW phase, updateGitStatusWithPatch(o, git, phase)
    PROVE  /\ pc' \in {phase, "failure"}
           /\ rec'.git = git /\ cr'.git \in {cr.git, git}
           /\ pc' = "failure" \/ (cr'.git = git /\ rec'.hook = cr'.hook)
           /\ cr'.hook = cr.hook /\ ~cr'.available /\ ~rec'.available
           /\ cacheCurrent' => cacheCurrent /\ cr' = cr
           /\ UNCHANGED <<spec, cached, outVars, leftovers, edits>>
<1>1. CASE rec.git = git
  BY <1>1
<1>2. CASE rec.git # git
  BY <1>2
<1> QED
  BY <1>1, <1>2

\* The fields of the project after a push, or a change of something else.
LEMMA RemoteFields ==
    ASSUME remote \in RemoteRecord
    PROVE  /\ pushed.history = work.history /\ pushed.head = remote.head
           /\ pushed.ci = work.ci /\ pushed.templates = work.templates
           /\ \A r \in {[remote EXCEPT !.project = TRUE], [remote EXCEPT !.hook = TRUE]} :
                 /\ r.history = remote.history /\ r.head = remote.head
                 /\ r.ci = remote.ci /\ r.templates = remote.templates
BY DEF pushed, RemoteRecord

\* Every step keeps what the copies have to do with the Codebase.
LEMMA CopyInvStep ==
    ASSUME IndInv, Next
    PROVE  CopyInv'
<1> USE DEF TypeOK, CopyInv
<1>1. CASE Reconcile
  <2>1. begin(cached) \in Preparing \cup {"delete"}
    BY PhaseType
  <2>2. CASE ~cached.exists
    BY <1>1, <2>2 DEF Reconcile
  <2>3. CASE cached.exists
    <3>1. rec' = cached /\ recCurrent' = cacheCurrent /\ pc' = begin(cached) /\ UNCHANGED crVars
      BY <1>1, <2>3 DEF Reconcile
    <3>2. pc' \in Preparing \cup {"delete"}
      BY <2>1, <3>1
    <3> QED
      BY <3>1, <3>2
  <2> QED
    BY <2>2, <2>3
<1>2. ASSUME NEW o \in Outcomes, Modify(o) PROVE CopyInv'
  BY <1>2, NewFields DEF Modify
<1>3. ASSUME NEW o \in Outcomes, setFinalizers(o) PROVE CopyInv'
  <2>1. begin([rec EXCEPT !.finalizer = TRUE]) \in Preparing \cup {"delete"}
    BY PhaseType
  <2> QED
    BY <1>3, <2>1, NewFields DEF setFinalizers
<1>4. ASSUME NEW o \in Outcomes, initLabels(o) PROVE CopyInv'
  BY <1>4, NewFields DEF initLabels
<1>5. ASSUME NEW o \in Outcomes, PutGitWebRepoUrl(o) PROVE CopyInv'
  <2>1. afterProject(rec) \in {"branch", "templates", "ci", "hook"}
    BY PhaseType
  <2> QED
    BY <1>5, <2>1 DEF PutGitWebRepoUrl
<1>6. ASSUME NEW o \in Outcomes, PutProject(o) PROVE CopyInv'
  BY <1>6 DEF PutProject
<1>7. ASSUME NEW o \in Outcomes, adoptPushedProject(o) PROVE CopyInv'
  BY <1>7 DEF adoptPushedProject
<1>8. ASSUME NEW o \in Outcomes, initialProjectProvisioning(o) PROVE CopyInv'
  BY <1>8 DEF initialProjectProvisioning
<1>9. ASSUME NEW o \in Outcomes, createProject(o) PROVE CopyInv'
  BY <1>9 DEF createProject
<1>10. ASSUME NEW o \in Outcomes, verifyAbsent(o) PROVE CopyInv'
  BY <1>10 DEF verifyAbsent
<1>11. ASSUME NEW o \in Outcomes, recordIntent(o) PROVE CopyInv'
  <2> HIDE DEF updateGitStatusWithPatch
  <2>1. /\ updateGitStatusWithPatch(o, "push_in_progress", "push")
        /\ pc \in InChain /\ pc # "hookStatus"
    BY <1>11 DEF recordIntent
  <2>2. NotAfter(cr.git, "push_in_progress")
    BY <1>11 DEF recordIntent, ProjectInv
  <2> QED
    BY <2>1, <2>2, GitStatusEffect
<1>12. ASSUME NEW o \in Outcomes, pushProject(o) PROVE CopyInv'
  BY <1>12 DEF pushProject
<1>13. ASSUME NEW o \in Outcomes, setDefaultBranch(o) PROVE CopyInv'
  BY <1>13 DEF setDefaultBranch
<1>14. ASSUME NEW o \in Outcomes, recordPushed(o) PROVE CopyInv'
  <2> HIDE DEF updateGitStatusWithPatch
  <2>1. afterProject([rec EXCEPT !.git = "pushed"]) \in {"branch", "templates", "ci", "hook"}
    BY PhaseType
  <2>2. /\ updateGitStatusWithPatch(o, "pushed", afterProject([rec EXCEPT !.git = "pushed"]))
        /\ pc \in InChain /\ pc # "hookStatus"
    BY <1>14 DEF recordPushed
  <2>3. NotAfter(cr.git, "pushed")
    BY <1>14 DEF recordPushed, ProjectInv
  <2> QED
    BY <2>1, <2>2, <2>3, GitStatusEffect
<1>15. ASSUME NEW o \in Outcomes, PutWebHook(o) PROVE CopyInv'
  <2>1. afterHook(rec) \in {"branch", "templates", "ci"}
    BY PhaseType
  <2> QED
    BY <1>15, <2>1 DEF PutWebHook
<1>16. ASSUME NEW o \in Outcomes, recordWebHook(o) PROVE CopyInv'
  <2>1. afterHook(rec) \in {"branch", "templates", "ci"}
    BY PhaseType
  <2> QED
    BY <1>16, <2>1 DEF recordWebHook
<1>17. ASSUME NEW o \in Outcomes, PutGitLabCIConfig(o) PROVE CopyInv'
  BY <1>17 DEF PutGitLabCIConfig
<1>18. ASSUME NEW o \in Outcomes, pushGitLabCIConfig(o) PROVE CopyInv'
  BY <1>18 DEF pushGitLabCIConfig
<1>19. ASSUME NEW o \in Outcomes, recordGitLabCI(o) PROVE CopyInv'
  <2> HIDE DEF updateGitStatusWithPatch
  <2>1. afterCI([rec EXCEPT !.git = "gitlab_ci_pushed"]) \in {"branch", "templates"}
    BY PhaseType
  <2>2. /\ updateGitStatusWithPatch(o, "gitlab_ci_pushed", afterCI([rec EXCEPT !.git = "gitlab_ci_pushed"]))
        /\ pc \in InChain /\ pc # "hookStatus"
    BY <1>19 DEF recordGitLabCI
  <2>3. NotAfter(cr.git, "gitlab_ci_pushed")
    BY <1>19 DEF recordGitLabCI, ProjectInv
  <2> QED
    BY <2>1, <2>2, <2>3, GitStatusEffect
<1>20. ASSUME NEW o \in Outcomes, PutDeployConfigs(o) PROVE CopyInv'
  BY <1>20 DEF PutDeployConfigs
<1>21. ASSUME NEW o \in Outcomes, pushDeployConfigs(o) PROVE CopyInv'
  BY <1>21 DEF pushDeployConfigs
<1>22. ASSUME NEW o \in Outcomes, recordDeployConfigs(o) PROVE CopyInv'
  <2> HIDE DEF updateGitStatusWithPatch
  <2>1. /\ updateGitStatusWithPatch(o, "templates_pushed", "branch")
        /\ pc \in InChain /\ pc # "hookStatus"
    BY <1>22 DEF recordDeployConfigs
  <2>2. NotAfter(cr.git, "templates_pushed")
    BY <1>22 DEF recordDeployConfigs, ProjectInv
  <2> QED
    BY <2>1, <2>2, GitStatusEffect
<1>23. ASSUME NEW o \in Outcomes, PutDefaultCodeBaseBranch(o) PROVE CopyInv'
  BY <1>23 DEF PutDefaultCodeBaseBranch
<1>24. ASSUME NEW o \in Outcomes, Cleaner(o) PROVE CopyInv'
  BY <1>24 DEF Cleaner
<1>25. ASSUME NEW o \in Outcomes, updateFinishStatus(o) PROVE CopyInv'
  BY <1>25, NewFields DEF updateFinishStatus
<1>26. ASSUME NEW o \in Outcomes, NEW removed \in BOOLEAN, setFailureCount(o, removed)
       PROVE  CopyInv'
  BY <1>26, NewFields DEF setFailureCount
<1>27. ASSUME NEW o \in Outcomes, tryToDeleteCodebase(o) PROVE CopyInv'
  BY <1>27, NewFields DEF tryToDeleteCodebase
<1>28. ASSUME NEW o \in Outcomes, DeleteWebHook(o) PROVE CopyInv'
  BY <1>28 DEF DeleteWebHook
<1>29. ASSUME NEW o \in Outcomes, CleanerOfDeletion(o) PROVE CopyInv'
  BY <1>29, NewFields DEF CleanerOfDeletion
<1>30. ASSUME NEW o \in Outcomes, RemoveFinalizer(o) PROVE CopyInv'
  BY <1>30, NewFields DEF RemoveFinalizer
<1>31. CASE Watch
  BY <1>31 DEF Watch
<1>32. CASE Delete
  BY <1>32 DEF Delete
<1>33. CASE Collect
  BY <1>33 DEF Collect
<1>34. CASE Edit
  BY <1>34 DEF Edit
<1>35. CASE DropHook
  BY <1>35 DEF DropHook
<1>36. CASE PushByOthers
  BY <1>36 DEF PushByOthers
<1>37. CASE Restart
  BY <1>37, NewFields DEF Restart
<1> QED
  BY <1>1, <1>2, <1>3, <1>4, <1>5, <1>6, <1>7, <1>8, <1>9, <1>10, <1>11, <1>12, <1>13, <1>14,
     <1>15, <1>16, <1>17, <1>18, <1>19, <1>20, <1>21, <1>22, <1>23, <1>24, <1>25, <1>26, <1>27,
     <1>28, <1>29, <1>30, <1>31, <1>32, <1>33, <1>34, <1>35, <1>36, <1>37
     DEF Next, Controller, Prepare, Chain, Provision, AddFiles, Deletion

\* Every step keeps the finalizer where it must be.
LEMMA FinalizerInvStep ==
    ASSUME IndInv, Next
    PROVE  FinalizerInv'
<1> USE DEF TypeOK, FinalizerInv
<1>1. CASE Reconcile
  BY <1>1 DEF Reconcile, begin
<1>2. ASSUME NEW o \in Outcomes, Modify(o) PROVE FinalizerInv'
  BY <1>2, NewFields DEF Modify
<1>3. ASSUME NEW o \in Outcomes, setFinalizers(o) PROVE FinalizerInv'
  BY <1>3, NewFields DEF setFinalizers, begin
<1>4. ASSUME NEW o \in Outcomes, initLabels(o) PROVE FinalizerInv'
  BY <1>4, NewFields DEF initLabels
<1>5. ASSUME NEW o \in Outcomes, PutGitWebRepoUrl(o) PROVE FinalizerInv'
  <2>1. afterProject(rec) \in {"branch", "templates", "ci", "hook"}
    BY PhaseType
  <2> QED
    BY <1>5, <2>1 DEF PutGitWebRepoUrl
<1>6. ASSUME NEW o \in Outcomes, PutProject(o) PROVE FinalizerInv'
  BY <1>6 DEF PutProject
<1>7. ASSUME NEW o \in Outcomes, adoptPushedProject(o) PROVE FinalizerInv'
  BY <1>7 DEF adoptPushedProject
<1>8. ASSUME NEW o \in Outcomes, initialProjectProvisioning(o) PROVE FinalizerInv'
  BY <1>8 DEF initialProjectProvisioning
<1>9. ASSUME NEW o \in Outcomes, createProject(o) PROVE FinalizerInv'
  BY <1>9 DEF createProject
<1>10. ASSUME NEW o \in Outcomes, verifyAbsent(o) PROVE FinalizerInv'
  BY <1>10 DEF verifyAbsent
<1>11. ASSUME NEW o \in Outcomes, recordIntent(o) PROVE FinalizerInv'
  BY <1>11 DEF recordIntent
<1>12. ASSUME NEW o \in Outcomes, pushProject(o) PROVE FinalizerInv'
  BY <1>12 DEF pushProject
<1>13. ASSUME NEW o \in Outcomes, setDefaultBranch(o) PROVE FinalizerInv'
  BY <1>13 DEF setDefaultBranch
<1>14. ASSUME NEW o \in Outcomes, recordPushed(o) PROVE FinalizerInv'
  <2>1. afterProject([rec EXCEPT !.git = "pushed"]) \in {"branch", "templates", "ci", "hook"}
    BY PhaseType
  <2> QED
    BY <1>14, <2>1 DEF recordPushed
<1>15. ASSUME NEW o \in Outcomes, PutWebHook(o) PROVE FinalizerInv'
  <2>1. afterHook(rec) \in {"branch", "templates", "ci"}
    BY PhaseType
  <2> QED
    BY <1>15, <2>1 DEF PutWebHook
<1>16. ASSUME NEW o \in Outcomes, recordWebHook(o) PROVE FinalizerInv'
  <2>1. afterHook(rec) \in {"branch", "templates", "ci"}
    BY PhaseType
  <2> QED
    BY <1>16, <2>1 DEF recordWebHook
<1>17. ASSUME NEW o \in Outcomes, PutGitLabCIConfig(o) PROVE FinalizerInv'
  BY <1>17 DEF PutGitLabCIConfig
<1>18. ASSUME NEW o \in Outcomes, pushGitLabCIConfig(o) PROVE FinalizerInv'
  BY <1>18 DEF pushGitLabCIConfig
<1>19. ASSUME NEW o \in Outcomes, recordGitLabCI(o) PROVE FinalizerInv'
  <2>1. afterCI([rec EXCEPT !.git = "gitlab_ci_pushed"]) \in {"branch", "templates"}
    BY PhaseType
  <2> QED
    BY <1>19, <2>1 DEF recordGitLabCI
<1>20. ASSUME NEW o \in Outcomes, PutDeployConfigs(o) PROVE FinalizerInv'
  BY <1>20 DEF PutDeployConfigs
<1>21. ASSUME NEW o \in Outcomes, pushDeployConfigs(o) PROVE FinalizerInv'
  BY <1>21 DEF pushDeployConfigs
<1>22. ASSUME NEW o \in Outcomes, recordDeployConfigs(o) PROVE FinalizerInv'
  BY <1>22 DEF recordDeployConfigs
<1>23. ASSUME NEW o \in Outcomes, PutDefaultCodeBaseBranch(o) PROVE FinalizerInv'
  BY <1>23 DEF PutDefaultCodeBaseBranch
<1>24. ASSUME NEW o \in Outcomes, Cleaner(o) PROVE FinalizerInv'
  BY <1>24 DEF Cleaner
<1>25. ASSUME NEW o \in Outcomes, updateFinishStatus(o) PROVE FinalizerInv'
  BY <1>25, NewFields DEF updateFinishStatus
<1>26. ASSUME NEW o \in Outcomes, NEW removed \in BOOLEAN, setFailureCount(o, removed)
       PROVE  FinalizerInv'
  BY <1>26, NewFields DEF setFailureCount
<1>27. ASSUME NEW o \in Outcomes, tryToDeleteCodebase(o) PROVE FinalizerInv'
  BY <1>27, NewFields DEF tryToDeleteCodebase
<1>28. ASSUME NEW o \in Outcomes, DeleteWebHook(o) PROVE FinalizerInv'
  BY <1>28 DEF DeleteWebHook
<1>29. ASSUME NEW o \in Outcomes, CleanerOfDeletion(o) PROVE FinalizerInv'
  BY <1>29, NewFields DEF CleanerOfDeletion
<1>30. ASSUME NEW o \in Outcomes, RemoveFinalizer(o) PROVE FinalizerInv'
  BY <1>30, NewFields DEF RemoveFinalizer
<1>31. CASE Watch
  BY <1>31 DEF Watch
<1>32. CASE Delete
  BY <1>32 DEF Delete
<1>33. CASE Collect
  BY <1>33 DEF Collect
<1>34. CASE Edit
  BY <1>34 DEF Edit
<1>35. CASE DropHook
  BY <1>35 DEF DropHook
<1>36. CASE PushByOthers
  BY <1>36 DEF PushByOthers
<1>37. CASE Restart
  BY <1>37, NewFields DEF Restart
<1> QED
  BY <1>1, <1>2, <1>3, <1>4, <1>5, <1>6, <1>7, <1>8, <1>9, <1>10, <1>11, <1>12, <1>13, <1>14,
     <1>15, <1>16, <1>17, <1>18, <1>19, <1>20, <1>21, <1>22, <1>23, <1>24, <1>25, <1>26, <1>27,
     <1>28, <1>29, <1>30, <1>31, <1>32, <1>33, <1>34, <1>35, <1>36, <1>37
     DEF Next, Controller, Prepare, Chain, Provision, AddFiles, Deletion

\* Every step keeps what the status and the phase say of the project.
LEMMA ProjectInvStep ==
    ASSUME IndInv, Next
    PROVE  ProjectInv'
<1> USE DEF TypeOK, CopyInv, ProjectInv, Claim, DefaultBranchIsThere
<1>1. CASE Reconcile
  <2>1. begin(cached) \in Preparing \cup {"delete"}
    BY PhaseType
  <2> QED
    BY <1>1, <2>1 DEF Reconcile
<1>2. ASSUME NEW o \in Outcomes, Modify(o) PROVE ProjectInv'
  BY <1>2, NewFields DEF Modify
<1>3. ASSUME NEW o \in Outcomes, setFinalizers(o) PROVE ProjectInv'
  <2>1. begin([rec EXCEPT !.finalizer = TRUE]) \in Preparing \cup {"delete"}
    BY PhaseType
  <2> QED
    BY <1>3, <2>1, NewFields DEF setFinalizers
<1>4. ASSUME NEW o \in Outcomes, initLabels(o) PROVE ProjectInv'
  BY <1>4, NewFields DEF initLabels
<1>5. ASSUME NEW o \in Outcomes, PutGitWebRepoUrl(o) PROVE ProjectInv'
  <2>1. afterProject(rec) \in {"branch", "templates", "ci", "hook"}
    BY PhaseType
  <2>2. UNCHANGED <<spec, cached, work, remote, leftovers>> /\ rec'.git = rec.git
    BY <1>5 DEF PutGitWebRepoUrl
  <2>3. cr'.git = cr.git
    BY <1>5 DEF PutGitWebRepoUrl
  <2>4. \/ pc' = "failure"
        \/ /\ cr.git = rec.git
           /\ pc' = IF skipPutProject(rec) THEN afterProject(rec) ELSE "provision"
    BY <1>5 DEF PutGitWebRepoUrl
  <2>5. CASE skipPutProject(rec)
    BY <2>1, <2>2, <2>3, <2>4, <2>5 DEF skipPutProject
  <2>6. CASE ~skipPutProject(rec)
    BY <2>2, <2>3, <2>4, <2>6 DEF skipPutProject, GitStatuses
  <2> QED
    BY <2>5, <2>6
<1>6. ASSUME NEW o \in Outcomes, PutProject(o) PROVE ProjectInv'
  BY <1>6 DEF PutProject
<1>7. ASSUME NEW o \in Outcomes, adoptPushedProject(o) PROVE ProjectInv'
  BY <1>7 DEF adoptPushedProject, remoteDefaultBranchAbsent
<1>8. ASSUME NEW o \in Outcomes, initialProjectProvisioning(o) PROVE ProjectInv'
  <2>1. UNCHANGED <<spec, cr, cached, remote, leftovers>> /\ rec'.git = rec.git
    BY <1>8, CallEffect DEF initialProjectProvisioning
  <2>2. /\ pc' \in {"project", "failure"}
        /\ pc' = "project" => work' = [work EXCEPT !.history = newHistory]
    BY <1>8 DEF initialProjectProvisioning
  <2>3. newHistory # "none" /\ [work EXCEPT !.history = newHistory].history = newHistory
    BY WorkType DEF OwnHistories, WorkRecord
  <2> QED
    BY <1>8, <2>1, <2>2, <2>3 DEF initialProjectProvisioning
<1>9. ASSUME NEW o \in Outcomes, createProject(o) PROVE ProjectInv'
  <2>1. UNCHANGED <<spec, cr, cached, work, leftovers>> /\ rec'.git = rec.git
    BY <1>9, CallEffect DEF createProject
  <2>2. pc = "project" /\ pc' \in {"absent", "failure"}
    BY <1>9 DEF createProject
  <2>3. /\ remote'.history = remote.history /\ remote'.head = remote.head
        /\ remote'.ci = remote.ci /\ remote'.templates = remote.templates
    BY <1>9, RemoteFields DEF createProject
  <2> QED
    BY <2>1, <2>2, <2>3
<1>10. ASSUME NEW o \in Outcomes, verifyAbsent(o) PROVE ProjectInv'
  BY <1>10 DEF verifyAbsent, remoteDefaultBranchAbsent
<1>11. ASSUME NEW o \in Outcomes, recordIntent(o) PROVE ProjectInv'
  <2>1. spec.strategy # "import" /\ work.history # "none" /\ rec.git = cr.git
    BY <1>11 DEF recordIntent
  <2>2. UNCHANGED <<spec, cached, work, remote, leftovers>>
    BY <1>11 DEF recordIntent
  <2>3. /\ cr'.git \in {cr.git, "push_in_progress"} /\ rec'.git = "push_in_progress"
        /\ pc' \in {"push", "failure"}
    BY <1>11 DEF recordIntent
  <2> QED
    BY <1>11, <2>1, <2>2, <2>3 DEF recordIntent
<1>12. ASSUME NEW o \in Outcomes, pushProject(o) PROVE ProjectInv'
  <2>1. UNCHANGED <<spec, cr, cached, work, leftovers>> /\ rec'.git = rec.git /\ rec.git = cr.git
    BY <1>12, CallEffect DEF pushProject
  <2>2. pc = "push" /\ pc' = IF o = "ok" THEN "head" ELSE "failure"
    BY <1>12 DEF pushProject
  <2>3. remote' = remote \/ (remote'.history = work.history /\ remote'.head = remote.head)
    BY <1>12, RemoteFields DEF pushProject
  <2>4. o = "ok" => remote'.history = work.history
    BY <1>12, RemoteFields DEF pushProject
  <2>5. cached.git \in {"", "push_in_progress"}
    BY <2>2 DEF GitStatuses
  <2> QED
    BY <2>1, <2>2, <2>3, <2>4, <2>5
<1>13. ASSUME NEW o \in Outcomes, setDefaultBranch(o) PROVE ProjectInv'
  <2>1. UNCHANGED <<spec, cr, cached, work, leftovers>> /\ rec'.git = rec.git
    BY <1>13, CallEffect DEF setDefaultBranch
  <2>2. pc = "head" /\ pc' = IF o = "ok" THEN "pushed" ELSE "failure"
    BY <1>13 DEF setDefaultBranch
  <2>3. /\ remote'.history = remote.history /\ remote'.ci = remote.ci
        /\ remote'.templates = remote.templates /\ (remote.head => remote'.head)
        /\ o = "ok" => remote'.head \/ spec.provider = "bitbucket"
    BY <1>13 DEF setDefaultBranch, RemoteRecord
  <2> QED
    BY <2>1, <2>2, <2>3
<1>14. ASSUME NEW o \in Outcomes, recordPushed(o) PROVE ProjectInv'
  <2>1. afterProject([rec EXCEPT !.git = "pushed"]) \in {"branch", "templates", "ci", "hook"}
    BY PhaseType
  <2>2. spec.strategy # "import" /\ rec.git # "pushed" /\ DefaultBranchIsThere
    BY <1>14 DEF recordPushed
  <2>3. UNCHANGED <<spec, cached, work, remote, leftovers>>
    BY <1>14 DEF recordPushed
  <2>4. /\ cr'.git \in {cr.git, "pushed"} /\ rec'.git = "pushed"
        /\ pc' \in {"branch", "templates", "ci", "hook"} => cr'.git = "pushed"
        /\ pc' \in {"branch", "templates", "ci", "hook", "failure"}
    BY <1>14, <2>1, <2>2 DEF recordPushed
  <2> QED
    BY <2>2, <2>3, <2>4
<1>15. ASSUME NEW o \in Outcomes, PutWebHook(o) PROVE ProjectInv'
  <2>1. afterHook(rec) \in {"branch", "templates", "ci"}
    BY PhaseType
  <2>2. UNCHANGED <<spec, cr, cached, work, leftovers>> /\ rec'.git = rec.git
    BY <1>15 DEF PutWebHook
  <2>3. pc = "hook" /\ pc' \in {"branch", "templates", "ci", "hookStatus", "failure"}
    BY <1>15, <2>1 DEF PutWebHook
  <2>4. /\ remote'.history = remote.history /\ remote'.head = remote.head
        /\ remote'.ci = remote.ci /\ remote'.templates = remote.templates
    BY <1>15, RemoteFields DEF PutWebHook
  <2> QED
    BY <2>2, <2>3, <2>4
<1>16. ASSUME NEW o \in Outcomes, recordWebHook(o) PROVE ProjectInv'
  <2>1. afterHook(rec) \in {"branch", "templates", "ci"}
    BY PhaseType
  <2> QED
    BY <1>16, <2>1 DEF recordWebHook
<1>17. ASSUME NEW o \in Outcomes, PutGitLabCIConfig(o) PROVE ProjectInv'
  BY <1>17 DEF PutGitLabCIConfig
<1>18. ASSUME NEW o \in Outcomes, pushGitLabCIConfig(o) PROVE ProjectInv'
  BY <1>18 DEF pushGitLabCIConfig, RemoteRecord, pushed, FilesInv
<1>19. ASSUME NEW o \in Outcomes, recordGitLabCI(o) PROVE ProjectInv'
  <2>1. afterCI([rec EXCEPT !.git = "gitlab_ci_pushed"]) \in {"branch", "templates"}
    BY PhaseType
  <2> QED
    BY <1>19, <2>1 DEF recordGitLabCI, FilesInv
<1>20. ASSUME NEW o \in Outcomes, PutDeployConfigs(o) PROVE ProjectInv'
  BY <1>20 DEF PutDeployConfigs
<1>21. ASSUME NEW o \in Outcomes, pushDeployConfigs(o) PROVE ProjectInv'
  BY <1>21 DEF pushDeployConfigs, RemoteRecord, pushed, FilesInv
<1>22. ASSUME NEW o \in Outcomes, recordDeployConfigs(o) PROVE ProjectInv'
  BY <1>22 DEF recordDeployConfigs, FilesInv
<1>23. ASSUME NEW o \in Outcomes, PutDefaultCodeBaseBranch(o) PROVE ProjectInv'
  BY <1>23 DEF PutDefaultCodeBaseBranch
<1>24. ASSUME NEW o \in Outcomes, Cleaner(o) PROVE ProjectInv'
  BY <1>24 DEF Cleaner, clean
<1>25. ASSUME NEW o \in Outcomes, updateFinishStatus(o) PROVE ProjectInv'
  BY <1>25, NewFields DEF updateFinishStatus
<1>26. ASSUME NEW o \in Outcomes, NEW removed \in BOOLEAN, setFailureCount(o, removed)
       PROVE  ProjectInv'
  <2>1. UNCHANGED <<spec, cached, remote>> /\ pc' = "idle" /\ rec' = NewCodebase
    BY <1>26 DEF setFailureCount
  <2>2. cr'.git \in {cr.git, rec.git}
    BY <1>26 DEF setFailureCount
  <2>3. leftovers > 0 => leftovers' > 0
    BY <1>26, LeftoversCounted
  <2> QED
    BY <2>1, <2>2, <2>3, NewFields
<1>27. ASSUME NEW o \in Outcomes, tryToDeleteCodebase(o) PROVE ProjectInv'
  BY <1>27, NewFields DEF tryToDeleteCodebase
<1>28. ASSUME NEW o \in Outcomes, DeleteWebHook(o) PROVE ProjectInv'
  BY <1>28 DEF DeleteWebHook, RemoteRecord
<1>29. ASSUME NEW o \in Outcomes, CleanerOfDeletion(o) PROVE ProjectInv'
  BY <1>29, NewFields DEF CleanerOfDeletion, clean
<1>30. ASSUME NEW o \in Outcomes, RemoveFinalizer(o) PROVE ProjectInv'
  BY <1>30, NewFields DEF RemoveFinalizer
<1>31. CASE Watch
  BY <1>31 DEF Watch
<1>32. CASE Delete
  BY <1>32 DEF Delete
<1>33. CASE Collect
  BY <1>33 DEF Collect
<1>34. CASE Edit
  BY <1>34 DEF Edit
<1>35. CASE DropHook
  BY <1>35 DEF DropHook, RemoteRecord
<1>36. CASE PushByOthers
  BY <1>36 DEF PushByOthers, RemoteRecord
<1>37. CASE Restart
  BY <1>37, NewFields DEF Restart
<1> QED
  BY <1>1, <1>2, <1>3, <1>4, <1>5, <1>6, <1>7, <1>8, <1>9, <1>10, <1>11, <1>12, <1>13, <1>14,
     <1>15, <1>16, <1>17, <1>18, <1>19, <1>20, <1>21, <1>22, <1>23, <1>24, <1>25, <1>26, <1>27,
     <1>28, <1>29, <1>30, <1>31, <1>32, <1>33, <1>34, <1>35, <1>36, <1>37
     DEF Next, Controller, Prepare, Chain, Provision, AddFiles, Deletion

\* Every step keeps what they say of the files.
LEMMA FilesInvStep ==
    ASSUME IndInv, Next
    PROVE  FilesInv'
<1> USE DEF TypeOK, CopyInv, ProjectInv, Claim, DefaultBranchIsThere, FilesInv
<1>1. CASE Reconcile
  <2>1. begin(cached) \in Preparing \cup {"delete"}
    BY PhaseType
  <2> QED
    BY <1>1, <2>1 DEF Reconcile
<1>2. ASSUME NEW o \in Outcomes, Modify(o) PROVE FilesInv'
  BY <1>2, NewFields DEF Modify
<1>3. ASSUME NEW o \in Outcomes, setFinalizers(o) PROVE FilesInv'
  <2>1. begin([rec EXCEPT !.finalizer = TRUE]) \in Preparing \cup {"delete"}
    BY PhaseType
  <2> QED
    BY <1>3, <2>1, NewFields DEF setFinalizers
<1>4. ASSUME NEW o \in Outcomes, initLabels(o) PROVE FilesInv'
  BY <1>4, NewFields DEF initLabels
<1>5. ASSUME NEW o \in Outcomes, PutGitWebRepoUrl(o) PROVE FilesInv'
  BY <1>5 DEF PutGitWebRepoUrl, afterProject, afterHook, afterCI, skipGitLabCI, skipDeployConfigs,
     hasWebHook, skipPutProject
<1>6. ASSUME NEW o \in Outcomes, PutProject(o) PROVE FilesInv'
  BY <1>6 DEF PutProject
<1>7. ASSUME NEW o \in Outcomes, adoptPushedProject(o) PROVE FilesInv'
  BY <1>7 DEF adoptPushedProject, remoteDefaultBranchAbsent
<1>8. ASSUME NEW o \in Outcomes, initialProjectProvisioning(o) PROVE FilesInv'
  BY <1>8, WorkType DEF initialProjectProvisioning, WorkRecord, OwnHistories
<1>9. ASSUME NEW o \in Outcomes, createProject(o) PROVE FilesInv'
  BY <1>9 DEF createProject, RemoteRecord
<1>10. ASSUME NEW o \in Outcomes, verifyAbsent(o) PROVE FilesInv'
  BY <1>10 DEF verifyAbsent, remoteDefaultBranchAbsent
<1>11. ASSUME NEW o \in Outcomes, recordIntent(o) PROVE FilesInv'
  BY <1>11 DEF recordIntent
<1>12. ASSUME NEW o \in Outcomes, pushProject(o) PROVE FilesInv'
  BY <1>12 DEF pushProject, RemoteRecord, pushed
<1>13. ASSUME NEW o \in Outcomes, setDefaultBranch(o) PROVE FilesInv'
  BY <1>13 DEF setDefaultBranch, RemoteRecord
<1>14. ASSUME NEW o \in Outcomes, recordPushed(o) PROVE FilesInv'
  BY <1>14 DEF recordPushed, afterProject, afterHook, afterCI, skipGitLabCI, skipDeployConfigs,
     hasWebHook, skipPutProject
<1>15. ASSUME NEW o \in Outcomes, PutWebHook(o) PROVE FilesInv'
  BY <1>15 DEF PutWebHook, afterHook, afterCI, skipGitLabCI, skipDeployConfigs, hasWebHook,
     RemoteRecord
<1>16. ASSUME NEW o \in Outcomes, recordWebHook(o) PROVE FilesInv'
  BY <1>16 DEF recordWebHook, afterHook, afterCI, skipGitLabCI, skipDeployConfigs, hasWebHook
<1>17. ASSUME NEW o \in Outcomes, PutGitLabCIConfig(o) PROVE FilesInv'
  BY <1>17 DEF PutGitLabCIConfig, RemoteRecord, WorkRecord, PrepareGitRepository
<1>18. ASSUME NEW o \in Outcomes, pushGitLabCIConfig(o) PROVE FilesInv'
  BY <1>18 DEF pushGitLabCIConfig, RemoteRecord, pushed
<1>19. ASSUME NEW o \in Outcomes, recordGitLabCI(o) PROVE FilesInv'
  BY <1>19 DEF recordGitLabCI, afterCI, skipDeployConfigs
<1>20. ASSUME NEW o \in Outcomes, PutDeployConfigs(o) PROVE FilesInv'
  BY <1>20 DEF PutDeployConfigs, RemoteRecord, WorkRecord, PrepareGitRepository
<1>21. ASSUME NEW o \in Outcomes, pushDeployConfigs(o) PROVE FilesInv'
  BY <1>21 DEF pushDeployConfigs, RemoteRecord, pushed
<1>22. ASSUME NEW o \in Outcomes, recordDeployConfigs(o) PROVE FilesInv'
  BY <1>22 DEF recordDeployConfigs
<1>23. ASSUME NEW o \in Outcomes, PutDefaultCodeBaseBranch(o) PROVE FilesInv'
  BY <1>23 DEF PutDefaultCodeBaseBranch
<1>24. ASSUME NEW o \in Outcomes, Cleaner(o) PROVE FilesInv'
  BY <1>24 DEF Cleaner, clean, NoWork
<1>25. ASSUME NEW o \in Outcomes, updateFinishStatus(o) PROVE FilesInv'
  BY <1>25, NewFields DEF updateFinishStatus
<1>26. ASSUME NEW o \in Outcomes, NEW removed \in BOOLEAN, setFailureCount(o, removed)
       PROVE  FilesInv'
  <2>1. UNCHANGED <<spec, remote>> /\ pc' = "idle"
    BY <1>26 DEF setFailureCount
  <2>2. cr'.git = cr.git \/ (NotAfter(cr.git, rec.git) /\ cr'.git = rec.git)
    BY <1>26 DEF setFailureCount
  <2>3. /\ leftovers > 0 => leftovers' > 0
        /\ work' = NoWork \/ (work' = work /\ leftovers' > 0)
    BY <1>26, LeftoversCounted
  <2>4. NoWork.history = "none" /\ ~NoWork.ci /\ ~NoWork.templates
    BY DEF NoWork
  <2>5. cr'.git \in {"", "push_in_progress"} => cr.git \in {"", "push_in_progress"}
    BY <2>2 DEF GitStatuses
  <2> QED
    BY <2>1, <2>3, <2>4, <2>5
<1>27. ASSUME NEW o \in Outcomes, tryToDeleteCodebase(o) PROVE FilesInv'
  BY <1>27, NewFields DEF tryToDeleteCodebase, NoWork
<1>28. ASSUME NEW o \in Outcomes, DeleteWebHook(o) PROVE FilesInv'
  BY <1>28 DEF DeleteWebHook, RemoteRecord
<1>29. ASSUME NEW o \in Outcomes, CleanerOfDeletion(o) PROVE FilesInv'
  BY <1>29, NewFields DEF CleanerOfDeletion, clean, NoWork
<1>30. ASSUME NEW o \in Outcomes, RemoveFinalizer(o) PROVE FilesInv'
  BY <1>30, NewFields DEF RemoveFinalizer
<1>31. CASE Watch
  BY <1>31 DEF Watch
<1>32. CASE Delete
  BY <1>32 DEF Delete
<1>33. CASE Collect
  BY <1>33 DEF Collect
<1>34. CASE Edit
  BY <1>34 DEF Edit
<1>35. CASE DropHook
  BY <1>35 DEF DropHook, RemoteRecord
<1>36. CASE PushByOthers
  BY <1>36 DEF PushByOthers, RemoteRecord
<1>37. CASE Restart
  BY <1>37, NewFields DEF Restart, NoWork
<1> QED
  BY <1>1, <1>2, <1>3, <1>4, <1>5, <1>6, <1>7, <1>8, <1>9, <1>10, <1>11, <1>12, <1>13, <1>14,
     <1>15, <1>16, <1>17, <1>18, <1>19, <1>20, <1>21, <1>22, <1>23, <1>24, <1>25, <1>26, <1>27,
     <1>28, <1>29, <1>30, <1>31, <1>32, <1>33, <1>34, <1>35, <1>36, <1>37
     DEF Next, Controller, Prepare, Chain, Provision, AddFiles, Deletion

\* Every step keeps what they say of the webhook.
LEMMA HookInvStep ==
    ASSUME IndInv, Next
    PROVE  HookInv'
<1> USE DEF TypeOK, CopyInv, FinalizerInv, HookInv, hasWebHook
<1>1. CASE Reconcile
  <2>1. begin(cached) \in Preparing \cup {"delete"}
    BY PhaseType
  <2> QED
    BY <1>1, <2>1 DEF Reconcile
<1>2. ASSUME NEW o \in Outcomes, Modify(o) PROVE HookInv'
  <2>0. faults' = 0 => faults = 0 /\ o = "ok"
    BY <1>2, FaultsCounted DEF Modify
  <2> QED
    BY <1>2, <2>0, NewFields DEF Modify
<1>3. ASSUME NEW o \in Outcomes, setFinalizers(o) PROVE HookInv'
  <2>0. faults' = 0 => faults = 0 /\ o = "ok"
    BY <1>3, FaultsCounted DEF setFinalizers
  <2>1. begin([rec EXCEPT !.finalizer = TRUE]) \in Preparing \cup {"delete"}
    BY PhaseType
  <2>2. UNCHANGED <<spec, remote, cached>>
    BY <1>3 DEF setFinalizers
  <2>3. cr'.hook = cr.hook /\ (cr.finalizer => cr'.finalizer) /\ (rec'.hook => rec.hook)
    BY <1>3, NewFields DEF setFinalizers
  <2>4. pc' \in Preparing \cup {"delete", "idle"}
    BY <1>3, <2>1 DEF setFinalizers
  <2> QED
    BY <1>3, <2>0, <2>2, <2>3, <2>4
<1>4. ASSUME NEW o \in Outcomes, initLabels(o) PROVE HookInv'
  BY <1>4, NewFields DEF initLabels
<1>5. ASSUME NEW o \in Outcomes, PutGitWebRepoUrl(o) PROVE HookInv'
  BY <1>5 DEF PutGitWebRepoUrl, afterProject, afterHook, afterCI, skipGitLabCI, skipDeployConfigs,
     skipPutProject
<1>6. ASSUME NEW o \in Outcomes, PutProject(o) PROVE HookInv'
  BY <1>6 DEF PutProject
<1>7. ASSUME NEW o \in Outcomes, adoptPushedProject(o) PROVE HookInv'
  BY <1>7 DEF adoptPushedProject, remoteDefaultBranchAbsent
<1>8. ASSUME NEW o \in Outcomes, initialProjectProvisioning(o) PROVE HookInv'
  BY <1>8, WorkType DEF initialProjectProvisioning, WorkRecord, OwnHistories
<1>9. ASSUME NEW o \in Outcomes, createProject(o) PROVE HookInv'
  BY <1>9 DEF createProject, RemoteRecord
<1>10. ASSUME NEW o \in Outcomes, verifyAbsent(o) PROVE HookInv'
  BY <1>10 DEF verifyAbsent, remoteDefaultBranchAbsent
<1>11. ASSUME NEW o \in Outcomes, recordIntent(o) PROVE HookInv'
  BY <1>11 DEF recordIntent
<1>12. ASSUME NEW o \in Outcomes, pushProject(o) PROVE HookInv'
  BY <1>12 DEF pushProject, RemoteRecord, pushed
<1>13. ASSUME NEW o \in Outcomes, setDefaultBranch(o) PROVE HookInv'
  BY <1>13 DEF setDefaultBranch, RemoteRecord
<1>14. ASSUME NEW o \in Outcomes, recordPushed(o) PROVE HookInv'
  BY <1>14 DEF recordPushed, afterProject, afterHook, afterCI, skipGitLabCI, skipDeployConfigs,
     skipPutProject
<1>15. ASSUME NEW o \in Outcomes, PutWebHook(o) PROVE HookInv'
  <2>1. afterHook(rec) \in {"branch", "templates", "ci"}
    BY PhaseType
  <2> QED
    BY <1>15, <2>1 DEF PutWebHook, RemoteRecord
<1>16. ASSUME NEW o \in Outcomes, recordWebHook(o) PROVE HookInv'
  <2>1. afterHook(rec) \in {"branch", "templates", "ci"}
    BY PhaseType
  <2> QED
    BY <1>16, <2>1 DEF recordWebHook
<1>17. ASSUME NEW o \in Outcomes, PutGitLabCIConfig(o) PROVE HookInv'
  BY <1>17 DEF PutGitLabCIConfig, RemoteRecord, WorkRecord, PrepareGitRepository
<1>18. ASSUME NEW o \in Outcomes, pushGitLabCIConfig(o) PROVE HookInv'
  BY <1>18 DEF pushGitLabCIConfig, RemoteRecord, pushed
<1>19. ASSUME NEW o \in Outcomes, recordGitLabCI(o) PROVE HookInv'
  BY <1>19 DEF recordGitLabCI, afterCI, skipDeployConfigs
<1>20. ASSUME NEW o \in Outcomes, PutDeployConfigs(o) PROVE HookInv'
  BY <1>20 DEF PutDeployConfigs, RemoteRecord, WorkRecord, PrepareGitRepository
<1>21. ASSUME NEW o \in Outcomes, pushDeployConfigs(o) PROVE HookInv'
  BY <1>21 DEF pushDeployConfigs, RemoteRecord, pushed
<1>22. ASSUME NEW o \in Outcomes, recordDeployConfigs(o) PROVE HookInv'
  BY <1>22 DEF recordDeployConfigs
<1>23. ASSUME NEW o \in Outcomes, PutDefaultCodeBaseBranch(o) PROVE HookInv'
  BY <1>23 DEF PutDefaultCodeBaseBranch
<1>24. ASSUME NEW o \in Outcomes, Cleaner(o) PROVE HookInv'
  BY <1>24 DEF Cleaner, clean, NoWork
<1>25. ASSUME NEW o \in Outcomes, updateFinishStatus(o) PROVE HookInv'
  BY <1>25, NewFields DEF updateFinishStatus
<1>26. ASSUME NEW o \in Outcomes, NEW removed \in BOOLEAN, setFailureCount(o, removed)
       PROVE  HookInv'
  BY <1>26, CodebaseAssumption, NewFields DEF setFailureCount
<1>27. ASSUME NEW o \in Outcomes, tryToDeleteCodebase(o) PROVE HookInv'
  <2>0. faults' = 0 => faults = 0 /\ o = "ok"
    BY <1>27, FaultsCounted DEF tryToDeleteCodebase
  <2> QED
    BY <1>27, <2>0, NewFields DEF tryToDeleteCodebase
<1>28. ASSUME NEW o \in Outcomes, DeleteWebHook(o) PROVE HookInv'
  <2>0. faults' = 0 => faults = 0 /\ o = "ok"
    BY <1>28, FaultsCounted DEF DeleteWebHook
  <2> QED
    BY <1>28, <2>0 DEF DeleteWebHook, RemoteRecord
<1>29. ASSUME NEW o \in Outcomes, CleanerOfDeletion(o) PROVE HookInv'
  <2>0. faults' = 0 => faults = 0 /\ o = "ok"
    BY <1>29, FaultsCounted DEF CleanerOfDeletion
  <2> QED
    BY <1>29, <2>0, NewFields DEF CleanerOfDeletion, clean
<1>30. ASSUME NEW o \in Outcomes, RemoveFinalizer(o) PROVE HookInv'
  <2>0. faults' = 0 => faults = 0 /\ o = "ok"
    BY <1>30, FaultsCounted DEF RemoveFinalizer
  <2> QED
    BY <1>30, <2>0, NewFields DEF RemoveFinalizer
<1>31. CASE Watch
  BY <1>31 DEF Watch
<1>32. CASE Delete
  BY <1>32 DEF Delete
<1>33. CASE Collect
  BY <1>33 DEF Collect
<1>34. CASE Edit
  BY <1>34, EditsCounted DEF Edit
<1>35. CASE DropHook
  BY <1>35, EditsCounted DEF DropHook, RemoteRecord
<1>36. CASE PushByOthers
  BY <1>36 DEF PushByOthers, RemoteRecord
<1>37. CASE Restart
  BY <1>37, FaultsCounted, NewFields DEF Restart
<1> QED
  BY <1>1, <1>2, <1>3, <1>4, <1>5, <1>6, <1>7, <1>8, <1>9, <1>10, <1>11, <1>12, <1>13, <1>14,
     <1>15, <1>16, <1>17, <1>18, <1>19, <1>20, <1>21, <1>22, <1>23, <1>24, <1>25, <1>26, <1>27,
     <1>28, <1>29, <1>30, <1>31, <1>32, <1>33, <1>34, <1>35, <1>36, <1>37
     DEF Next, Controller, Prepare, Chain, Provision, AddFiles, Deletion

\* Every step keeps an available Codebase complete.
LEMMA CompleteInvStep ==
    ASSUME IndInv, Next
    PROVE  CompleteInv'
<1> USE DEF TypeOK, CopyInv, FinalizerInv, ProjectInv, FilesInv, HookInv, CompleteInv,
   DefaultBranchIsThere, AvailableIsComplete, CredentialsOutlivePush, hasWebHook
<1>1. CASE Reconcile
  <2>1. begin(cached) \in Preparing \cup {"delete"}
    BY PhaseType
  <2> QED
    BY <1>1, <2>1 DEF Reconcile
<1>2. ASSUME NEW o \in Outcomes, Modify(o) PROVE CompleteInv'
  BY <1>2, NewFields DEF Modify
<1>3. ASSUME NEW o \in Outcomes, setFinalizers(o) PROVE CompleteInv'
  <2>1. begin([rec EXCEPT !.finalizer = TRUE]) \in Preparing \cup {"delete"}
    BY PhaseType
  <2> QED
    BY <1>3, <2>1, NewFields DEF setFinalizers
<1>4. ASSUME NEW o \in Outcomes, initLabels(o) PROVE CompleteInv'
  BY <1>4, NewFields DEF initLabels
<1>5. ASSUME NEW o \in Outcomes, PutGitWebRepoUrl(o) PROVE CompleteInv'
  <2>1. afterProject(rec) \in {"branch", "templates", "ci", "hook"}
    BY PhaseType
  <2> QED
    BY <1>5, <2>1 DEF PutGitWebRepoUrl
<1>6. ASSUME NEW o \in Outcomes, PutProject(o) PROVE CompleteInv'
  BY <1>6 DEF PutProject
<1>7. ASSUME NEW o \in Outcomes, adoptPushedProject(o) PROVE CompleteInv'
  BY <1>7 DEF adoptPushedProject
<1>8. ASSUME NEW o \in Outcomes, initialProjectProvisioning(o) PROVE CompleteInv'
  BY <1>8 DEF initialProjectProvisioning
<1>9. ASSUME NEW o \in Outcomes, createProject(o) PROVE CompleteInv'
  BY <1>9 DEF createProject, RemoteRecord
<1>10. ASSUME NEW o \in Outcomes, verifyAbsent(o) PROVE CompleteInv'
  BY <1>10 DEF verifyAbsent
<1>11. ASSUME NEW o \in Outcomes, recordIntent(o) PROVE CompleteInv'
  BY <1>11 DEF recordIntent
<1>12. ASSUME NEW o \in Outcomes, pushProject(o) PROVE CompleteInv'
  BY <1>12 DEF pushProject, RemoteRecord, pushed
<1>13. ASSUME NEW o \in Outcomes, setDefaultBranch(o) PROVE CompleteInv'
  BY <1>13 DEF setDefaultBranch, RemoteRecord
<1>14. ASSUME NEW o \in Outcomes, recordPushed(o) PROVE CompleteInv'
  <2>1. afterProject([rec EXCEPT !.git = "pushed"]) \in {"branch", "templates", "ci", "hook"}
    BY PhaseType
  <2> QED
    BY <1>14, <2>1 DEF recordPushed
<1>15. ASSUME NEW o \in Outcomes, PutWebHook(o) PROVE CompleteInv'
  <2>1. afterHook(rec) \in {"branch", "templates", "ci"}
    BY PhaseType
  <2> QED
    BY <1>15, <2>1 DEF PutWebHook, RemoteRecord
<1>16. ASSUME NEW o \in Outcomes, recordWebHook(o) PROVE CompleteInv'
  <2>1. afterHook(rec) \in {"branch", "templates", "ci"}
    BY PhaseType
  <2> QED
    BY <1>16, <2>1 DEF recordWebHook
<1>17. ASSUME NEW o \in Outcomes, PutGitLabCIConfig(o) PROVE CompleteInv'
  BY <1>17 DEF PutGitLabCIConfig
<1>18. ASSUME NEW o \in Outcomes, pushGitLabCIConfig(o) PROVE CompleteInv'
  BY <1>18 DEF pushGitLabCIConfig, RemoteRecord, pushed
<1>19. ASSUME NEW o \in Outcomes, recordGitLabCI(o) PROVE CompleteInv'
  <2>1. afterCI([rec EXCEPT !.git = "gitlab_ci_pushed"]) \in {"branch", "templates"}
    BY PhaseType
  <2> QED
    BY <1>19, <2>1 DEF recordGitLabCI
<1>20. ASSUME NEW o \in Outcomes, PutDeployConfigs(o) PROVE CompleteInv'
  BY <1>20 DEF PutDeployConfigs
<1>21. ASSUME NEW o \in Outcomes, pushDeployConfigs(o) PROVE CompleteInv'
  BY <1>21 DEF pushDeployConfigs, RemoteRecord, pushed
<1>22. ASSUME NEW o \in Outcomes, recordDeployConfigs(o) PROVE CompleteInv'
  BY <1>22 DEF recordDeployConfigs
<1>23. ASSUME NEW o \in Outcomes, PutDefaultCodeBaseBranch(o) PROVE CompleteInv'
  BY <1>23 DEF PutDefaultCodeBaseBranch
<1>24. ASSUME NEW o \in Outcomes, Cleaner(o) PROVE CompleteInv'
  BY <1>24 DEF Cleaner, clean
<1>25. ASSUME NEW o \in Outcomes, updateFinishStatus(o) PROVE CompleteInv'
  BY <1>25, NewFields DEF updateFinishStatus
<1>26. ASSUME NEW o \in Outcomes, NEW removed \in BOOLEAN, setFailureCount(o, removed)
       PROVE  CompleteInv'
  BY <1>26, LeftoversCounted, NewFields DEF setFailureCount
<1>27. ASSUME NEW o \in Outcomes, tryToDeleteCodebase(o) PROVE CompleteInv'
  BY <1>27, NewFields DEF tryToDeleteCodebase
<1>28. ASSUME NEW o \in Outcomes, DeleteWebHook(o) PROVE CompleteInv'
  BY <1>28 DEF DeleteWebHook, RemoteRecord
<1>29. ASSUME NEW o \in Outcomes, CleanerOfDeletion(o) PROVE CompleteInv'
  BY <1>29, NewFields DEF CleanerOfDeletion, clean
<1>30. ASSUME NEW o \in Outcomes, RemoveFinalizer(o) PROVE CompleteInv'
  BY <1>30, NewFields DEF RemoveFinalizer
<1>31. CASE Watch
  BY <1>31 DEF Watch
<1>32. CASE Delete
  BY <1>32 DEF Delete
<1>33. CASE Collect
  BY <1>33 DEF Collect
<1>34. CASE Edit
  BY <1>34, EditsCounted DEF Edit
<1>35. CASE DropHook
  BY <1>35, EditsCounted DEF DropHook, RemoteRecord
<1>36. CASE PushByOthers
  BY <1>36 DEF PushByOthers, RemoteRecord
<1>37. CASE Restart
  BY <1>37, NewFields DEF Restart
<1> QED
  BY <1>1, <1>2, <1>3, <1>4, <1>5, <1>6, <1>7, <1>8, <1>9, <1>10, <1>11, <1>12, <1>13, <1>14,
     <1>15, <1>16, <1>17, <1>18, <1>19, <1>20, <1>21, <1>22, <1>23, <1>24, <1>25, <1>26, <1>27,
     <1>28, <1>29, <1>30, <1>31, <1>32, <1>33, <1>34, <1>35, <1>36, <1>37
     DEF Next, Controller, Prepare, Chain, Provision, AddFiles, Deletion

\* The invariant holds at the beginning.
LEMMA InitInv == Init => IndInv
<1> SUFFICES ASSUME Init PROVE IndInv
  OBVIOUS
<1>1. TypeOK
  BY InitTypeOK
<1>2. /\ remote.history = IF spec.strategy = "import" THEN "foreign" ELSE "none"
      /\ remote.head = (spec.strategy = "import")
      /\ ~remote.ci /\ ~remote.templates /\ ~remote.hook
  BY DEF Init
<1>3. /\ cr = NewCodebase /\ cached = NewCodebase /\ rec = NewCodebase
      /\ pc = "idle" /\ ~recCurrent /\ work = NoWork /\ secret
  BY DEF Init
<1>4. work.history = "none" /\ ~work.ci /\ ~work.templates
  BY <1>3 DEF NoWork
<1>5. CopyInv /\ FinalizerInv
  BY <1>3, NewFields DEF CopyInv, FinalizerInv
<1>6. ProjectInv /\ FilesInv
  BY <1>2, <1>3, <1>4, NewFields DEF ProjectInv, FilesInv, Claim
<1>7. HookInv /\ CompleteInv
  BY <1>2, <1>3, NewFields
     DEF HookInv, CompleteInv, AvailableIsComplete, CredentialsOutlivePush
<1> QED
  BY <1>1, <1>5, <1>6, <1>7

\* Every step keeps the invariant.
LEMMA NextInv == IndInv /\ [Next]_vars => IndInv'
<1> SUFFICES ASSUME IndInv, [Next]_vars PROVE IndInv'
  OBVIOUS
<1>1. CASE Next
  BY <1>1, NextTypeOK, CopyInvStep, FinalizerInvStep, ProjectInvStep, FilesInvStep, HookInvStep,
     CompleteInvStep
<1>2. CASE UNCHANGED vars
  <2> USE <1>2 DEF vars
  <2>0. TypeOK'
    BY NextTypeOK
  <2>1. CopyInv'
    BY DEF CopyInv
  <2>5. FinalizerInv'
    BY DEF FinalizerInv
  <2>2. ProjectInv'
    BY DEF ProjectInv, Claim, DefaultBranchIsThere
  <2>6. FilesInv'
    BY DEF FilesInv
  <2>3. HookInv'
    BY DEF HookInv, hasWebHook
  <2>4. CompleteInv'
    BY DEF CompleteInv, DefaultBranchIsThere, hasWebHook, AvailableIsComplete,
       CredentialsOutlivePush
  <2> QED
    BY <2>0, <2>1, <2>2, <2>3, <2>4, <2>5, <2>6
<1> QED
  BY <1>1, <1>2

\* So it holds always.
LEMMA Invariant == Spec => []IndInv
BY InitInv, NextInv, PTL DEF Spec
-----------------------------------------------------------------------------
(***************************************************************************)
(* What follows.                                                           *)
(***************************************************************************)

\* Status.Git in the API server is never ahead of the git server, whatever calls of
\* the chain fail, although updateGitStatusWithPatch leaves the new value in a copy that
\* setFailureCount writes.
THEOREM GitStatusCorrect == Spec => []GitStatusIsTrue
<1>1. IndInv => GitStatusIsTrue
  BY DEF ProjectInv, Claim, GitStatusIsTrue
<1> QED
  BY <1>1, Invariant, PTL

\* updateFinishStatus makes a Codebase available only when its project, branch, webhook
\* and files are there, and no later step takes one of them away unnoticed.
THEOREM AvailableCorrect == Spec => []AvailableIsComplete
<1>1. IndInv => AvailableIsComplete
  BY DEF CompleteInv
<1> QED
  BY <1>1, Invariant, PTL

\* Cleaner removes the clone credentials only after the push, or with the Codebase.
THEOREM CredentialsCorrect == Spec => []CredentialsOutlivePush
<1>1. IndInv => CredentialsOutlivePush
  BY DEF CompleteInv
<1> QED
  BY <1>1, Invariant, PTL

\* Without a fault the deletion chain removes the webhook that the status names, even
\* when it started from a copy older than that status.
THEOREM HookDeletionCorrect == Spec => []RecordedHookIsDeleted
<1>1. IndInv => RecordedHookIsDeleted
  BY DEF HookInv, FinalizerInv, RecordedHookIsDeleted
<1> QED
  BY <1>1, Invariant, PTL

\* No step writes the Codebase and the project at once, brings a Codebase back or takes
\* the project's history away.
LEMMA ServersStep ==
    ASSUME IndInv, Next
    PROVE  /\ cr' = cr \/ remote' = remote
           /\ cr'.exists => cr.exists
           /\ remote.history # "none" => remote'.history # "none"
<1> DEFINE P == /\ cr' = cr \/ remote' = remote
                /\ cr'.exists => cr.exists
                /\ remote.history # "none" => remote'.history # "none"
<1>0. cr \in CodebaseRecord /\ remote \in RemoteRecord /\ work \in WorkRecord
  BY DEF TypeOK
<1>1. ASSUME NEW o \in Outcomes, Prepare(o) PROVE P
  BY <1>0, <1>1 DEF Prepare, Modify, setFinalizers, initLabels
<1>2. ASSUME NEW o \in Outcomes, PutGitWebRepoUrl(o) \/ PutProject(o) \/ recordWebHook(o) PROVE P
  BY <1>0, <1>2 DEF PutGitWebRepoUrl, PutProject, recordWebHook
<1>3. ASSUME NEW o \in Outcomes,
             recordIntent(o) \/ recordPushed(o) \/ recordGitLabCI(o) \/ recordDeployConfigs(o)
      PROVE  P
  BY <1>0, <1>3 DEF recordIntent, recordPushed, recordGitLabCI, recordDeployConfigs
<1>4. ASSUME NEW o \in Outcomes, pushProject(o) \/ pushGitLabCIConfig(o) \/ pushDeployConfigs(o)
      PROVE  P
  <2>1. work.history # "none"
    BY <1>4 DEF pushProject, pushGitLabCIConfig, pushDeployConfigs, ProjectInv, FilesInv
  <2>2. pushed.history = work.history
    BY <1>0 DEF pushed, RemoteRecord
  <2> QED
    BY <1>4, <2>1, <2>2 DEF pushProject, pushGitLabCIConfig, pushDeployConfigs
<1>5. ASSUME NEW o \in Outcomes,
             createProject(o) \/ setDefaultBranch(o) \/ PutWebHook(o) \/ DeleteWebHook(o)
      PROVE  P
  BY <1>0, <1>5 DEF createProject, setDefaultBranch, PutWebHook, DeleteWebHook, RemoteRecord
<1>6. ASSUME NEW o \in Outcomes,
             \/ adoptPushedProject(o) \/ initialProjectProvisioning(o) \/ verifyAbsent(o)
             \/ PutGitLabCIConfig(o) \/ PutDeployConfigs(o) \/ PutDefaultCodeBaseBranch(o)
             \/ Cleaner(o) \/ tryToDeleteCodebase(o) \/ CleanerOfDeletion(o)
      PROVE  P
  BY <1>6 DEF adoptPushedProject, initialProjectProvisioning, verifyAbsent, PutGitLabCIConfig,
     PutDeployConfigs, PutDefaultCodeBaseBranch, Cleaner, tryToDeleteCodebase,
     CleanerOfDeletion, clean
<1>7. ASSUME NEW o \in Outcomes, NEW removed \in BOOLEAN,
             updateFinishStatus(o) \/ setFailureCount(o, removed) \/ RemoveFinalizer(o)
      PROVE  P
  BY <1>0, <1>7 DEF updateFinishStatus, setFailureCount, RemoveFinalizer
<1>8. CASE Reconcile \/ Watch \/ Delete \/ Collect \/ Edit \/ DropHook \/ PushByOthers \/ Restart
  BY <1>0, <1>8 DEF Reconcile, Watch, Delete, Collect, Edit, DropHook, PushByOthers, Restart,
     RemoteRecord
<1> QED
  BY <1>1, <1>2, <1>3, <1>4, <1>5, <1>6, <1>7, <1>8
     DEF Next, Controller, Chain, Provision, AddFiles, Deletion

\* The Codebase implements what its CodebaseBranches rely on: whoever sees it available
\* finds its project, then and later, through every failure, retry and stale copy.
THEOREM LifecycleImplemented == Spec => ImplementsLifecycle
<1>1. Init => Lifecycle!Init
  BY NewFields DEF Init, Lifecycle!Init, lifecycle
<1>2. IndInv /\ IndInv' /\ [Next]_vars => [Lifecycle!Next]_lifecycle
  <2> SUFFICES ASSUME IndInv, IndInv', [Next]_vars PROVE [Lifecycle!Next]_lifecycle
    OBVIOUS
  <2> USE DEF Lifecycle!Next, Lifecycle!Pushed, Lifecycle!Available, Lifecycle!Busy,
              Lifecycle!Deleted, lifecycle
  <2>1. /\ cr.available => remote.history # "none"
        /\ cr'.available => remote'.history # "none"
    BY DEF CompleteInv
  <2>2. CASE UNCHANGED vars
    BY <2>2 DEF vars
  <2>3. CASE Next /\ cr' = cr
    BY <2>1, <2>3, ServersStep
  <2>4. CASE Next /\ remote' = remote
    BY <2>1, <2>4, ServersStep
  <2> QED
    BY <2>2, <2>3, <2>4, ServersStep
<1> QED
  BY <1>1, <1>2, Invariant, PTL DEF Spec, ImplementsLifecycle, Lifecycle!Spec

\* Every step keeps the work directory in line with the history of the project.
LEMMA HistoryInvStep ==
    ASSUME ForeignPush # "always", IndInv, HistoryInv, Next
    PROVE  HistoryInv'
<1> USE DEF TypeOK, CopyInv, ProjectInv, HistoryInv
<1>1. CASE Reconcile
  <2>1. begin(cached) \in Preparing \cup {"delete"}
    BY PhaseType
  <2> QED
    BY <1>1, <2>1 DEF Reconcile
<1>2. ASSUME NEW o \in Outcomes, Modify(o) PROVE HistoryInv'
  BY <1>2, NewFields DEF Modify
<1>3. ASSUME NEW o \in Outcomes, setFinalizers(o) PROVE HistoryInv'
  <2>1. begin([rec EXCEPT !.finalizer = TRUE]) \in Preparing \cup {"delete"}
    BY PhaseType
  <2> QED
    BY <1>3, <2>1, NewFields DEF setFinalizers
<1>4. ASSUME NEW o \in Outcomes, initLabels(o) PROVE HistoryInv'
  BY <1>4, NewFields DEF initLabels
<1>5. ASSUME NEW o \in Outcomes, PutGitWebRepoUrl(o) PROVE HistoryInv'
  <2>1. afterProject(rec) \in {"branch", "templates", "ci", "hook"}
    BY PhaseType
  <2> QED
    BY <1>5, <2>1 DEF PutGitWebRepoUrl
<1>6. ASSUME NEW o \in Outcomes, PutProject(o) PROVE HistoryInv'
  BY <1>6 DEF PutProject
<1>7. ASSUME NEW o \in Outcomes, adoptPushedProject(o) PROVE HistoryInv'
  BY <1>7 DEF adoptPushedProject, remoteDefaultBranchAbsent
<1>8. ASSUME NEW o \in Outcomes, initialProjectProvisioning(o) PROVE HistoryInv'
  BY <1>8 DEF initialProjectProvisioning, WorkRecord
<1>9. ASSUME NEW o \in Outcomes, createProject(o) PROVE HistoryInv'
  BY <1>9 DEF createProject, RemoteRecord
<1>10. ASSUME NEW o \in Outcomes, verifyAbsent(o) PROVE HistoryInv'
  BY <1>10 DEF verifyAbsent, remoteDefaultBranchAbsent
<1>11. ASSUME NEW o \in Outcomes, recordIntent(o) PROVE HistoryInv'
  BY <1>11 DEF recordIntent
<1>12. ASSUME NEW o \in Outcomes, pushProject(o) PROVE HistoryInv'
  BY <1>12 DEF pushProject, RemoteRecord, pushed
<1>13. ASSUME NEW o \in Outcomes, setDefaultBranch(o) PROVE HistoryInv'
  BY <1>13 DEF setDefaultBranch, RemoteRecord
<1>14. ASSUME NEW o \in Outcomes, recordPushed(o) PROVE HistoryInv'
  <2>1. afterProject([rec EXCEPT !.git = "pushed"]) \in {"branch", "templates", "ci", "hook"}
    BY PhaseType
  <2> QED
    BY <1>14, <2>1 DEF recordPushed
<1>15. ASSUME NEW o \in Outcomes, PutWebHook(o) PROVE HistoryInv'
  <2>1. afterHook(rec) \in {"branch", "templates", "ci"}
    BY PhaseType
  <2> QED
    BY <1>15, <2>1 DEF PutWebHook, RemoteRecord
<1>16. ASSUME NEW o \in Outcomes, recordWebHook(o) PROVE HistoryInv'
  <2>1. afterHook(rec) \in {"branch", "templates", "ci"}
    BY PhaseType
  <2> QED
    BY <1>16, <2>1 DEF recordWebHook
<1>17. ASSUME NEW o \in Outcomes, PutGitLabCIConfig(o) PROVE HistoryInv'
  BY <1>17 DEF PutGitLabCIConfig, RemoteRecord, WorkRecord, PrepareGitRepository
<1>18. ASSUME NEW o \in Outcomes, pushGitLabCIConfig(o) PROVE HistoryInv'
  BY <1>18 DEF pushGitLabCIConfig, RemoteRecord, pushed, FilesInv
<1>19. ASSUME NEW o \in Outcomes, recordGitLabCI(o) PROVE HistoryInv'
  <2>1. afterCI([rec EXCEPT !.git = "gitlab_ci_pushed"]) \in {"branch", "templates"}
    BY PhaseType
  <2> QED
    BY <1>19, <2>1 DEF recordGitLabCI
<1>20. ASSUME NEW o \in Outcomes, PutDeployConfigs(o) PROVE HistoryInv'
  BY <1>20 DEF PutDeployConfigs, RemoteRecord, WorkRecord, PrepareGitRepository
<1>21. ASSUME NEW o \in Outcomes, pushDeployConfigs(o) PROVE HistoryInv'
  BY <1>21 DEF pushDeployConfigs, RemoteRecord, pushed, FilesInv
<1>22. ASSUME NEW o \in Outcomes, recordDeployConfigs(o) PROVE HistoryInv'
  BY <1>22 DEF recordDeployConfigs
<1>23. ASSUME NEW o \in Outcomes, PutDefaultCodeBaseBranch(o) PROVE HistoryInv'
  BY <1>23 DEF PutDefaultCodeBaseBranch
<1>24. ASSUME NEW o \in Outcomes, Cleaner(o) PROVE HistoryInv'
  BY <1>24 DEF Cleaner, clean, NoWork
<1>25. ASSUME NEW o \in Outcomes, updateFinishStatus(o) PROVE HistoryInv'
  BY <1>25, NewFields DEF updateFinishStatus
<1>26. ASSUME NEW o \in Outcomes, NEW removed \in BOOLEAN, setFailureCount(o, removed)
       PROVE  HistoryInv'
  <2>1. UNCHANGED <<spec, remote>> /\ pc' = "idle" /\ pc = "failure"
    BY <1>26 DEF setFailureCount
  <2>2. cr'.git \in {cr.git, rec.git}
    BY <1>26 DEF setFailureCount
  <2>3. work' = work \/ work'.history = "none"
    <3>1. work' = work \/ work' = NoWork
      BY <1>26, LeftoversCounted
    <3>2. NoWork.history = "none"
      BY DEF NoWork
    <3> QED
      BY <3>1, <3>2
  <2> QED
    BY <2>1, <2>2, <2>3
<1>27. ASSUME NEW o \in Outcomes, tryToDeleteCodebase(o) PROVE HistoryInv'
  BY <1>27, NewFields DEF tryToDeleteCodebase, NoWork
<1>28. ASSUME NEW o \in Outcomes, DeleteWebHook(o) PROVE HistoryInv'
  BY <1>28 DEF DeleteWebHook, RemoteRecord
<1>29. ASSUME NEW o \in Outcomes, CleanerOfDeletion(o) PROVE HistoryInv'
  BY <1>29, NewFields DEF CleanerOfDeletion, clean, NoWork
<1>30. ASSUME NEW o \in Outcomes, RemoveFinalizer(o) PROVE HistoryInv'
  BY <1>30, NewFields DEF RemoveFinalizer
<1>31. CASE Watch
  BY <1>31 DEF Watch
<1>32. CASE Delete
  BY <1>32 DEF Delete
<1>33. CASE Collect
  BY <1>33 DEF Collect
<1>34. CASE Edit
  BY <1>34 DEF Edit
<1>35. CASE DropHook
  BY <1>35 DEF DropHook, RemoteRecord
<1>36. CASE PushByOthers
  <2>1. ForeignPush = "early" /\ {cr.git, rec.git} = {""} /\ pc \notin {"intent", "push"}
    BY <1>36 DEF PushByOthers
  <2>2. cr.git = "" /\ rec.git = ""
    BY <2>1
  <2>3. remote.history = "none" /\ UNCHANGED <<spec, cr, rec, pc, work>>
    BY <1>36 DEF PushByOthers
  <2> QED
    BY <2>1, <2>2, <2>3
<1>37. CASE Restart
  BY <1>37, NewFields DEF Restart, NoWork
<1> QED
  BY <1>1, <1>2, <1>3, <1>4, <1>5, <1>6, <1>7, <1>8, <1>9, <1>10, <1>11, <1>12, <1>13, <1>14,
     <1>15, <1>16, <1>17, <1>18, <1>19, <1>20, <1>21, <1>22, <1>23, <1>24, <1>25, <1>26, <1>27,
     <1>28, <1>29, <1>30, <1>31, <1>32, <1>33, <1>34, <1>35, <1>36, <1>37
     DEF Next, Controller, Prepare, Chain, Provision, AddFiles, Deletion

\* A history on the git server is never replaced, although every retry generates a new
\* one and the git client pushes over what it does not know: not after a lost answer, a
\* crash, a lost status or a stale cache. The hypothesis is the one the code relies on:
\* nobody else pushes between verifyAbsent and the push.
THEOREM HistoryKept == ForeignPush # "always" => (Spec => HistoryNeverReplaced)
<1> SUFFICES ASSUME ForeignPush # "always" PROVE Spec => HistoryNeverReplaced
  OBVIOUS
<1>1. Init => HistoryInv
  <2> SUFFICES ASSUME Init PROVE HistoryInv
    OBVIOUS
  <2>1. pc = "idle" /\ work.history = "none"
    BY DEF Init, NoWork
  <2> QED
    BY <2>1 DEF HistoryInv
<1>2. IndInv /\ HistoryInv /\ [Next]_vars => HistoryInv'
  <2>1. CASE UNCHANGED vars
    BY <2>1 DEF vars, HistoryInv
  <2> QED
    BY <2>1, HistoryInvStep
<1>3. IndInv /\ HistoryInv /\ [Next]_vars =>
          [remote.history # "none" => remote'.history = remote.history]_vars
  <2> SUFFICES ASSUME IndInv, HistoryInv, Next, remote.history # "none"
               PROVE  remote'.history = remote.history
    OBVIOUS
  <2>0. remote \in RemoteRecord
    BY DEF TypeOK
  <2>1. ASSUME NEW o \in Outcomes, pushProject(o) PROVE FALSE
    BY <2>1 DEF pushProject, HistoryInv
  <2>2. ASSUME NEW o \in Outcomes, pushGitLabCIConfig(o) \/ pushDeployConfigs(o)
        PROVE  remote'.history = remote.history
    <3>1. work.history = remote.history
      BY <2>2 DEF pushGitLabCIConfig, pushDeployConfigs, HistoryInv, FilesInv, ProjectInv
    <3>2. pushed.history = work.history
      BY <2>0 DEF pushed, RemoteRecord
    <3> QED
      BY <2>2, <3>1, <3>2 DEF pushGitLabCIConfig, pushDeployConfigs
  <2>3. ASSUME NEW o \in Outcomes,
               createProject(o) \/ setDefaultBranch(o) \/ PutWebHook(o) \/ DeleteWebHook(o)
        PROVE  remote'.history = remote.history
    BY <2>0, <2>3 DEF createProject, setDefaultBranch, PutWebHook, DeleteWebHook, RemoteRecord
  <2>4. CASE DropHook \/ PushByOthers
    BY <2>0, <2>4 DEF DropHook, PushByOthers, RemoteRecord
  <2>5. CASE remote' = remote
    BY <2>5
  <2>6. \/ DropHook \/ PushByOthers \/ remote' = remote
        \/ \E o \in Outcomes :
             \/ pushProject(o) \/ pushGitLabCIConfig(o) \/ pushDeployConfigs(o) \/ createProject(o)
             \/ setDefaultBranch(o) \/ PutWebHook(o) \/ DeleteWebHook(o)
    <3>1. ASSUME NEW o \in Outcomes, Prepare(o) \/ Chain(o) \/ Deletion(o) PROVE <2>6
      BY <3>1
         DEF Prepare, Modify, setFinalizers, initLabels, Chain, Provision, AddFiles, PutGitWebRepoUrl,
             PutProject, adoptPushedProject, initialProjectProvisioning, verifyAbsent, recordIntent,
             recordPushed, recordWebHook, PutGitLabCIConfig, recordGitLabCI, PutDeployConfigs,
             recordDeployConfigs, PutDefaultCodeBaseBranch, Cleaner, clean, updateFinishStatus,
             Deletion, tryToDeleteCodebase, CleanerOfDeletion, RemoveFinalizer
    <3>2. ASSUME NEW o \in Outcomes, NEW removed \in BOOLEAN, setFailureCount(o, removed) PROVE <2>6
      BY <3>2 DEF setFailureCount
    <3>3. CASE Reconcile \/ Watch \/ Delete \/ Collect \/ Edit \/ DropHook \/ PushByOthers \/ Restart
      BY <3>3 DEF Reconcile, Watch, Delete, Collect, Edit, Restart
    <3> QED
      BY <3>1, <3>2, <3>3 DEF Next, Controller
  <2> QED
    BY <2>1, <2>2, <2>3, <2>4, <2>5, <2>6
<1> QED
  BY <1>1, <1>2, <1>3, Invariant, PTL DEF Spec, HistoryNeverReplaced

=============================================================================
