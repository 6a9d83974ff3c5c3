------------------------- MODULE StaleCheck_proofs -------------------------
(***************************************************************************)
(* Proofs about the stale branch checker, for every set of branches, every *)
(* default branch, with and without the webhooks, and for any number of    *)
(* events and faults.                                                      *)
(***************************************************************************)
EXTENDS StaleCheck, TLAPS

USE DEF Phases, CodebaseStates, Outcomes

(***************************************************************************)
(* Types.                                                                  *)
(***************************************************************************)

\* There is a branch to stand for none.
LEMMA NowhereType == Nowhere \in Branches /\ NoName \in GitBranches
BY StaleCheckAssumption DEF Nowhere, NoName

\* The records that the actions write have their type.
LEMMA NewBranchType ==
    /\ \A g \in GitBranches : NewBranch(g) \in BranchRecord
    /\ NoBranch \in BranchRecord
BY NowhereType DEF NewBranch, NoBranch, BranchRecord

LEMMA NoCopiesType == NoCopies \in [Branches -> BranchRecord]
BY NewBranchType DEF NoCopies

\* So have the records with one field changed.
LEMMA FieldType ==
    ASSUME NEW r \in BranchRecord, NEW p \in BOOLEAN,
           NEW s \in {"none", "found", "missing", "retained"}
    PROVE  /\ [r EXCEPT !.deleting = TRUE] \in BranchRecord
           /\ [r EXCEPT !.created = TRUE] \in BranchRecord
           /\ [r EXCEPT !.protected = p] \in BranchRecord
           /\ [r EXCEPT !.stale = s] \in BranchRecord
           /\ [r EXCEPT !.label = p] \in BranchRecord
BY DEF BranchRecord

\* A call, an event and their absence leave the counters within their bounds.
LEMMA CounterType ==
    ASSUME events \in 0 .. MaxEvents, faults \in 0 .. MaxFaults,
           Event \/ Silent \/ \E o \in Outcomes : Outcome(o)
    PROVE  events' \in 0 .. MaxEvents /\ faults' \in 0 .. MaxFaults
BY StaleCheckAssumption DEF Event, Silent, Outcome

\* At the end of a sweep its variables are well typed.
LEMMA IdleType ==
    ASSUME Idle
    PROVE  /\ copy' \in [Branches -> BranchRecord]
           /\ {listing', absent'} \subseteq SUBSET GitBranches
           /\ {usage', held'} \subseteq SUBSET References /\ todo' \in SUBSET Branches
           /\ autoCleanup' \in BOOLEAN /\ pc' \in Phases /\ branch' \in Branches /\ name' \in GitBranches
BY NowhereType, NoCopiesType DEF Idle

\* What people, the controller and the garbage collector write is well typed.
LEMMA WriteType ==
    ASSUME cr \in [Branches -> BranchRecord], NEW b \in Branches
    PROVE  /\ [cr EXCEPT ![b].deleting = TRUE] \in [Branches -> BranchRecord]
           /\ [cr EXCEPT ![b].created = TRUE] \in [Branches -> BranchRecord]
           /\ [cr EXCEPT ![b].protected = ~cr[b].protected] \in [Branches -> BranchRecord]
           /\ \A g \in GitBranches : [cr EXCEPT ![b] = NewBranch(g)] \in [Branches -> BranchRecord]
           /\ [cr EXCEPT ![b] = NoBranch] \in [Branches -> BranchRecord]
<1>1. cr[b] \in BranchRecord
  OBVIOUS
<1>2. (~cr[b].protected) \in BOOLEAN
  OBVIOUS
<1> QED
  BY <1>1, <1>2, FieldType, NewBranchType

\* So is what a patch writes and what it returns.
LEMMA PatchType ==
    ASSUME {cr, copy} \subseteq [Branches -> BranchRecord], branch \in Branches,
           NEW new \in BranchRecord, NEW o, NEW needed, Patched(o, needed, new)
    PROVE  {cr', copy'} \subseteq [Branches -> BranchRecord]
BY DEF Patched

\* Every step of the checker keeps the types.
LEMMA CheckerType ==
    ASSUME TypeOK, Checker
    PROVE  TypeOK'
<1> USE DEF TypeOK
<1>0. ASSUME NEW o \in Outcomes, Outcome(o) PROVE events' \in 0 .. MaxEvents /\ faults' \in 0 .. MaxFaults
  BY <1>0, CounterType
<1>1. CASE sweep
  BY <1>1 DEF sweep, clusterVars, branchVars, usageVars, codebaseVars, history, Silent
<1>2. CASE finished
  BY <1>2, IdleType DEF finished, clusterVars, branchVars, usageVars, codebaseVars, Silent
<1>3. ASSUME NEW b \in Branches, checkBranch(b) PROVE TypeOK'
  <2>1. copy[b].git \in GitBranches
    BY DEF BranchRecord
  <2> QED
    BY <1>3, <2>1 DEF checkBranch, clusterVars, branchVars, usageVars, codebaseVars, history, Silent
<1>4. ASSUME NEW o \in Outcomes, NewBranchUsageIndex(o) PROVE TypeOK'
  <2>1. CASE Idle
    BY <1>0, <1>4, <2>1, IdleType
       DEF NewBranchUsageIndex, clusterVars, branchVars, usageVars, codebaseVars
  <2>2. CASE ~Idle
    BY <1>0, <1>4, <2>2 DEF NewBranchUsageIndex, clusterVars, branchVars, usageVars, codebaseVars
  <2> QED
    BY <2>1, <2>2
<1>5. ASSUME NEW o \in Outcomes, ListRemoteBranches(o) PROVE TypeOK'
  <2>1. CASE Idle
    BY <1>0, <1>5, <2>1, IdleType
       DEF ListRemoteBranches, clusterVars, branchVars, usageVars, codebaseVars
  <2>2. CASE ~Idle
    BY <1>0, <1>5, <2>2 DEF ListRemoteBranches, clusterVars, branchVars, usageVars, codebaseVars
  <2> QED
    BY <2>1, <2>2
<1>6. ASSUME NEW o \in Outcomes, updateStatusCondition(o) PROVE TypeOK'
  <2>1. verdict \in {"none", "found", "missing", "retained"}
    BY DEF verdict
  <2>2. cr[branch] \in BranchRecord
    OBVIOUS
  <2>3. [cr[branch] EXCEPT !.stale = verdict] \in BranchRecord
    BY <2>1, <2>2, FieldType
  <2>4. {cr', copy'} \subseteq [Branches -> BranchRecord]
    BY <1>6, <2>3, PatchType DEF updateStatusCondition
  <2> QED
    BY <1>0, <1>6, <2>4 DEF updateStatusCondition, usageVars, codebaseVars, history
<1>7. ASSUME NEW o \in Outcomes, updateStaleLabel(o) PROVE TypeOK'
  <2>1. cr[branch] \in BranchRecord /\ (name \notin listing) \in BOOLEAN
    OBVIOUS
  <2>2. [cr[branch] EXCEPT !.label = name \notin listing] \in BranchRecord
    BY <2>1, FieldType
  <2>3. {cr', copy'} \subseteq [Branches -> BranchRecord]
    BY <1>7, <2>2, PatchType DEF updateStaleLabel
  <2> QED
    BY <1>0, <1>7, <2>3 DEF updateStaleLabel, usageVars, codebaseVars, history
<1>8. ASSUME NEW o \in Outcomes, CleanupAction(o) PROVE TypeOK'
  <2>0. [cr EXCEPT ![branch].deleting = TRUE] \in [Branches -> BranchRecord]
    BY WriteType
  <2>1. cr' \in [Branches -> BranchRecord]
    BY <1>8, <2>0 DEF CleanupAction, Delete
  <2> QED
    BY <1>0, <1>8, <2>1 DEF CleanupAction, usageVars, codebaseVars, history
<1> QED
  BY <1>1, <1>2, <1>3, <1>4, <1>5, <1>6, <1>7, <1>8 DEF Checker

\* So does everything that people do.
LEMMA UsersType ==
    ASSUME TypeOK, Users
    PROVE  TypeOK'
<1> USE DEF TypeOK
<1>0. ASSUME Event PROVE events' \in 0 .. MaxEvents /\ faults' \in 0 .. MaxFaults
  BY <1>0, CounterType
<1>1. ASSUME NEW new \in [Branches -> BranchRecord], Event, Write(new) PROVE TypeOK'
  BY <1>0, <1>1 DEF Write, usageVars, codebaseVars, sweepVars, history
<1>2. CASE ChangeStrategy
  BY <1>0, <1>2 DEF ChangeStrategy, branchVars, usageVars, sweepVars, history
<1>3. CASE ProtectCodebase \/ DeleteCodebase
  BY <1>0, <1>3 DEF ProtectCodebase, DeleteCodebase, branchVars, usageVars, sweepVars, history
<1>4. ASSUME NEW g \in GitBranches, RemoveRemoteBranch(g) \/ PushBranch(g) PROVE TypeOK'
  BY <1>0, <1>4
     DEF RemoveRemoteBranch, PushBranch, branchVars, usageVars, codebaseVars, sweepVars, history
<1>5. ASSUME NEW x \in References, Deploy(x) \/ Undeploy(x) PROVE TypeOK'
  BY <1>0, <1>5 DEF Deploy, Undeploy, branchVars, codebaseVars, sweepVars, history
<1>6. ASSUME NEW b \in Branches, NEW g \in GitBranches, Protect(b) \/ Create(b, g) \/ DeleteByUser(b)
      PROVE  TypeOK'
  BY <1>1, <1>6, WriteType DEF Protect, Create, DeleteByUser
<1> QED
  BY <1>2, <1>3, <1>4, <1>5, <1>6, NowhereType DEF Users

\* So do the watches, the controllers, the garbage collector and a restart.
LEMMA ClusterType ==
    ASSUME TypeOK, Cluster
    PROVE  TypeOK'
<1> USE DEF TypeOK
<1>1. ASSUME NEW new \in [Branches -> BranchRecord], Write(new), Silent PROVE TypeOK'
  BY <1>1 DEF Write, Silent, usageVars, codebaseVars, sweepVars, history
<1>2. CASE Watch
  BY <1>2 DEF Watch, Silent, usageVars, codebaseVars, sweepVars, history
<1>3. CASE WatchUsage
  BY <1>3 DEF WatchUsage, Silent, branchVars, codebaseVars, sweepVars, history
<1>4. CASE ReleaseCodebase
  BY <1>4 DEF ReleaseCodebase, Silent, branchVars, usageVars, sweepVars, history
<1>5. CASE Restart
  BY <1>5, IdleType, StaleCheckAssumption DEF Restart, codebaseVars
<1>6. ASSUME NEW b \in Branches, PutBranchInGit(b) PROVE TypeOK'
  <2>0. [cr EXCEPT ![b].created = TRUE] \in [Branches -> BranchRecord]
    BY <1>6, WriteType
  <2>1. cr[b].git \in GitBranches
    BY <1>6 DEF BranchRecord
  <2>2. cr' \in [Branches -> BranchRecord] /\ inGit' \in SUBSET GitBranches
    BY <1>6, <2>0, <2>1 DEF PutBranchInGit
  <2> QED
    BY <1>6, <2>2 DEF PutBranchInGit, Silent, usageVars, codebaseVars, sweepVars, history
<1>7. ASSUME NEW b \in Branches, Release(b) \/ GarbageCollect(b) PROVE TypeOK'
  BY <1>1, <1>7, WriteType DEF Release, GarbageCollect
<1> QED
  BY <1>2, <1>3, <1>4, <1>5, <1>6, <1>7 DEF Cluster

\* All variables keep their types, whatever people do and whatever fails.
THEOREM TypeCorrect == Spec => []TypeOK
<1>1. Init => TypeOK
  <2> SUFFICES ASSUME Init PROVE TypeOK
    OBVIOUS
  <2>1. PICK git \in [Branches -> GitBranches] :
           cr = [b \in Branches |-> [NewBranch(git[b]) EXCEPT !.created = TRUE]]
    BY DEF Init
  <2>2. \A b \in Branches : [NewBranch(git[b]) EXCEPT !.created = TRUE] \in BranchRecord
    BY NewBranchType, FieldType
  <2>4. {cr, cached, copy} \subseteq [Branches -> BranchRecord]
    BY <2>1, <2>2, NoCopiesType DEF Init
  <2>3. events \in 0 .. MaxEvents /\ faults \in 0 .. MaxFaults
    BY StaleCheckAssumption DEF Init
  <2>5. /\ {inGit, listing, absent} \subseteq SUBSET GitBranches
        /\ {used, usedCached, usage, held} \subseteq SUBSET References
    BY StaleCheckAssumption DEF Init, References
  <2>6. branch \in Branches /\ name \in GitBranches
    BY NowhereType DEF Init
  <2>7. /\ default \in DefaultBranches /\ webhooks \in Webhooks /\ codebase \in CodebaseStates
        /\ {auto, guarded, autoCleanup} \subseteq BOOLEAN /\ pc \in Phases
        /\ todo \in SUBSET Branches
    BY DEF Init, CodebaseStates, Phases
  <2> QED
    BY <2>3, <2>4, <2>5, <2>6, <2>7 DEF TypeOK
<1>2. TypeOK /\ [Next]_vars => TypeOK'
  <2>1. ASSUME TypeOK, UNCHANGED vars PROVE TypeOK'
    BY <2>1
       DEF TypeOK, vars, clusterVars, branchVars, usageVars, codebaseVars, sweepVars, history
  <2> QED
    BY <2>1, CheckerType, UsersType, ClusterType DEF Next
<1> QED
  BY <1>1, <1>2, PTL DEF Spec

(***************************************************************************)
(* The sweep.                                                              *)
(***************************************************************************)

\* What the sweep has read is what it acts on: a branch it counts as held is in its
\* usage, its listing is the answer of the git server, and a branch that it deletes
\* is neither there nor in use.
SweepInv ==
    /\ held \subseteq usage
    /\ pc \in {"next", "condition", "label", "delete"} => absent = GitBranches \ listing
    /\ pc = "delete" => name \notin listing /\ branch \notin usage /\ name \notin usage

\* The steps of others leave the sweep alone.
Elsewhere ==
    /\ UNCHANGED <<sweepVars, default, absent>>
    /\ held' \subseteq held

\* Nothing but a restart and its own steps changes a sweep.
LEMMA OthersElsewhere ==
    ASSUME Users \/ Cluster
    PROVE  Elsewhere \/ Restart
<1>1. ASSUME Users PROVE Elsewhere
  BY <1>1
     DEF Users, Elsewhere, ChangeStrategy, ProtectCodebase, DeleteCodebase, RemoveRemoteBranch,
         PushBranch, Deploy, Undeploy, Protect, Create, DeleteByUser, Write, codebaseVars, history
<1>2. ASSUME Cluster PROVE Elsewhere \/ Restart
  BY <1>2
     DEF Cluster, Elsewhere, Watch, WatchUsage, ReleaseCodebase, PutBranchInGit, Release,
         GarbageCollect, Write, codebaseVars, history
<1> QED
  BY <1>1, <1>2

\* The sweep knows what it does: SweepInv is inductive.
LEMMA SweepInvInductive ==
    ASSUME TypeOK, SweepInv, [Next]_vars
    PROVE  SweepInv'
<1>1. ASSUME Elsewhere PROVE SweepInv'
  BY <1>1 DEF Elsewhere, SweepInv, sweepVars
<1>2. ASSUME Idle PROVE SweepInv'
  BY <1>2 DEF Idle, SweepInv
<1>3. ASSUME UNCHANGED vars PROVE SweepInv'
  BY <1>3 DEF vars, sweepVars, history, clusterVars, codebaseVars, SweepInv
<1>4. ASSUME sweep \/ \E b \in Branches : checkBranch(b) PROVE SweepInv'
  BY <1>4
     DEF sweep, checkBranch, deletes, Find, SweepInv, history, clusterVars, codebaseVars
<1>5. ASSUME NEW o \in Outcomes, NewBranchUsageIndex(o), ~Idle PROVE SweepInv'
  BY <1>5 DEF NewBranchUsageIndex, SweepInv, clusterVars, codebaseVars
<1>6. ASSUME NEW o \in Outcomes, ListRemoteBranches(o), ~Idle PROVE SweepInv'
  BY <1>6 DEF ListRemoteBranches, SweepInv, clusterVars, codebaseVars
<1>7. ASSUME NEW o \in Outcomes,
             updateStatusCondition(o) \/ updateStaleLabel(o) \/ CleanupAction(o)
      PROVE  SweepInv'
  BY <1>7
     DEF updateStatusCondition, updateStaleLabel, CleanupAction, SweepInv, codebaseVars, history
<1>8. ASSUME Checker PROVE SweepInv'
  BY <1>2, <1>4, <1>5, <1>6, <1>7, <1>8 DEF Checker, finished
<1> QED
  BY <1>1, <1>2, <1>3, <1>8, OthersElsewhere DEF Next, Restart

\* The types and SweepInv hold for ever.
LEMMA SweepInvariant == Spec => [](TypeOK /\ SweepInv)
<1>1. Init => SweepInv
  BY DEF Init, SweepInv
<1>2. TypeOK /\ SweepInv /\ [Next]_vars => SweepInv'
  BY SweepInvInductive
<1> QED
  BY <1>1, <1>2, TypeCorrect, PTL DEF Spec

\* Only CleanupAction deletes for the sweep, and it deletes what the sweep is at.
LEMMA DeletedBySweep ==
    ASSUME TypeOK, Next, NEW b \in Branches, deletedBySweep(b)
    PROVE  pc = "delete" /\ b = branch
<1>1. PICK o \in Outcomes : CleanupAction(o)
  <2>1. ~Elsewhere /\ ~Idle
    BY DEF Elsewhere, Idle, sweepVars, deletedBySweep
  <2>2. Checker
    BY <2>1, OthersElsewhere DEF Next, Restart
  <2> QED
    BY <2>2
       DEF Checker, sweep, finished, checkBranch, NewBranchUsageIndex, ListRemoteBranches,
           updateStatusCondition, updateStaleLabel, deletedBySweep
<1>2. cr' = cr \/ cr' = [cr EXCEPT ![branch].deleting = TRUE]
  BY <1>1 DEF CleanupAction, Delete
<1>3. cr \in [Branches -> BranchRecord]
  BY DEF TypeOK
<1> QED
  BY <1>2, <1>3 DEF deletedBySweep

\* Only updateStatusCondition marks a branch, and it marks what the sweep is at.
LEMMA Marked ==
    ASSUME TypeOK, Next, NEW b \in Branches, marked(b)
    PROVE  pc = "condition" /\ b = branch /\ name \notin listing
<1>0. cr \in [Branches -> BranchRecord] /\ cr' # cr
  BY DEF TypeOK, marked
<1> DEFINE Keeps(new) == \A c \in Branches : new[c].stale \in {cr[c].stale, "none"}
<1>1. ASSUME NEW c \in Branches
      PROVE  /\ Keeps([cr EXCEPT ![c].deleting = TRUE])
             /\ Keeps([cr EXCEPT ![c].created = TRUE])
             /\ Keeps([cr EXCEPT ![c].protected = ~cr[c].protected])
             /\ \A g \in GitBranches : Keeps([cr EXCEPT ![c] = NewBranch(g)])
             /\ Keeps([cr EXCEPT ![c] = NoBranch])
  BY <1>0, <1>1 DEF BranchRecord, NewBranch, NoBranch
<1>2. ~Keeps(cr')
  BY DEF marked
<1> HIDE DEF Keeps
<1>3. ~Users
  BY <1>0, <1>1, <1>2
     DEF Users, ChangeStrategy, ProtectCodebase, DeleteCodebase, RemoveRemoteBranch, PushBranch,
         Deploy, Undeploy, Protect, Create, DeleteByUser, Write, branchVars
<1>4. ~Cluster
  BY <1>0, <1>1, <1>2
     DEF Cluster, Watch, WatchUsage, ReleaseCodebase, Restart, PutBranchInGit, Release,
         GarbageCollect, Write, branchVars
<1>5. ASSUME NEW o \in Outcomes PROVE ~CleanupAction(o)
  BY <1>0, <1>1, <1>2 DEF CleanupAction, Delete, TypeOK
<1>6. ASSUME NEW o \in Outcomes PROVE ~updateStaleLabel(o)
  <2> SUFFICES ASSUME updateStaleLabel(o) PROVE FALSE
    OBVIOUS
  <2>1. cr' = [cr EXCEPT ![branch] = [cr[branch] EXCEPT !.label = name \notin listing]]
    BY <1>0 DEF updateStaleLabel, Patched
  <2> QED
    BY <1>0, <2>1 DEF marked, BranchRecord, TypeOK
<1>7. PICK o \in Outcomes : updateStatusCondition(o)
  BY <1>0, <1>3, <1>4, <1>5, <1>6
     DEF Next, Checker, sweep, finished, checkBranch, NewBranchUsageIndex, ListRemoteBranches,
         clusterVars, branchVars
<1>8. cr' = [cr EXCEPT ![branch] = [cr[branch] EXCEPT !.stale = verdict]]
  BY <1>0, <1>7 DEF updateStatusCondition, Patched
<1>9. b = branch /\ verdict \in {"missing", "retained"}
  BY <1>0, <1>8 DEF marked, BranchRecord
<1> QED
  BY <1>7, <1>9 DEF updateStatusCondition, verdict

\* The stale check acts on the answer of the git server only: for any branches, any
\* failures, restarts and staleness, with and without the webhooks, the git branch of
\* what a sweep marks or deletes was absent when the server was asked, unless the
\* name has been given to another one since.
THEOREM UnknownIsSpared == Spec => NeverOnUnknown
<1>1. ASSUME TypeOK, SweepInv, Next, NEW b \in Branches,
             deletedBySweep(b) \/ marked(b), sameBranch(b)
      PROVE  cr[b].git \in absent
  <2>1. pc \in {"delete", "condition"} /\ name \notin listing
    BY <1>1, DeletedBySweep, Marked DEF SweepInv
  <2>2. name \in GitBranches
    BY <1>1 DEF TypeOK
  <2> QED
    BY <1>1, <2>1, <2>2 DEF SweepInv, sameBranch
<1>2. TypeOK /\ SweepInv /\ [Next]_vars
      => [\A b \in Branches :
             (deletedBySweep(b) \/ marked(b)) /\ sameBranch(b) => cr[b].git \in absent]_vars
  BY <1>1
<1> QED
  BY <1>2, SweepInvariant, PTL DEF Spec, NeverOnUnknown

\* No sweep deletes a branch that has been in use since it read the usage, by name or
\* through a quality gate, even when the webhooks are disabled.
THEOREM UsedIsSpared == Spec => InUseSpared
<1>1. TypeOK /\ SweepInv /\ [Next]_vars
      => [\A b \in Branches :
             deletedBySweep(b) => b \notin held /\ (sameBranch(b) => cr[b].git \notin held)]_vars
  BY DeletedBySweep DEF SweepInv, sameBranch
<1> QED
  BY <1>1, SweepInvariant, PTL DEF Spec, InUseSpared
=============================================================================
