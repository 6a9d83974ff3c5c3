-------------------------- MODULE GitServer_proofs --------------------------
(***************************************************************************)
(* Proofs about the GitServer controller and PutWebHook, for any           *)
(* GitServers and Codebases, any number of recreated GitServers and of     *)
(* generated tokens, and any number of events and faults.                  *)
(***************************************************************************)
EXTENDS GitServer, TLAPS

(***************************************************************************)
(* Types.                                                                  *)
(***************************************************************************)

\* An incarnation is a number, and there is always a first one.
LEMMA IncarnationType ==
    /\ Incarnations \subseteq Nat /\ NoOwner \in Incarnations
    /\ \A s \in Servers : \A u \in Nat : u < MaxIncarnation[s] => u + 1 \in Incarnations
    /\ \A s \in Servers : 1 \in Incarnations
<1>1. \A s \in Servers : MaxIncarnation[s] \in Nat /\ MaxIncarnation[s] # 0
  BY GitServerAssumption
<1>2. \A s \in Servers : 0 .. MaxIncarnation[s] \subseteq Incarnations
  BY DEF Incarnations
<1>3. PICK t \in Servers : TRUE
  BY GitServerAssumption
<1>4. \A u \in Incarnations : \E s \in Servers : u \in 0 .. MaxIncarnation[s]
  BY DEF Incarnations
<1>5. Incarnations \subseteq Nat
  BY <1>1, <1>4
<1>6. NoOwner \in Incarnations
  <2>1. 0 \in 0 .. MaxIncarnation[t]
    BY <1>1
  <2> QED
    BY <1>2, <2>1 DEF NoOwner
<1>7. ASSUME NEW s \in Servers, NEW u \in Nat, u < MaxIncarnation[s] PROVE u + 1 \in Incarnations
  <2>1. u + 1 \in 0 .. MaxIncarnation[s]
    BY <1>1, <1>7
  <2> QED
    BY <1>2, <2>1
<1>8. ASSUME NEW s \in Servers PROVE 1 \in Incarnations
  <2>1. 1 \in 0 .. MaxIncarnation[s]
    BY <1>1
  <2> QED
    BY <1>2, <2>1
<1> QED
  BY <1>5, <1>6, <1>7, <1>8

\* The records that the actions write have their type.
LEMMA NewType ==
    /\ SomeServer \in Servers /\ NoServer \in ServerRecord
    /\ NoObjects \in ObjectRecord /\ NoHook \in HookRecord
    /\ [NoHook EXCEPT !.state = "done"] \in HookRecord
    /\ \A u \in Incarnations : /\ [NoServer EXCEPT !.exists = TRUE, !.uid = u] \in ServerRecord
                               /\ [NoServer EXCEPT !.uid = u] \in ServerRecord
    /\ \A t \in Tokens : [state |-> "register", token |-> t] \in HookRecord
<1>1. SomeServer \in Servers
  BY GitServerAssumption DEF SomeServer
<1>2. 0 \in Incarnations /\ 0 \in Tokens
  BY IncarnationType, GitServerAssumption DEF NoOwner, Tokens
<1> QED
  BY <1>1, <1>2
     DEF NoServer, NoObjects, NoHook, NoToken, NoOwner, ServerRecord, ObjectRecord, HookRecord,
         Statuses

\* So has a GitServer with another status.
LEMMA StatusType ==
    ASSUME NEW r \in ServerRecord, NEW status \in Statuses
    PROVE  Status(r, status) \in ServerRecord
BY DEF Status, ServerRecord

\* The same for the Secret.
LEMMA SecretType ==
    ASSUME NEW x \in SecretRecord
    PROVE  /\ [x EXCEPT !.exists = FALSE] \in SecretRecord
           /\ \A t \in Tokens : [x EXCEPT !.token = t] \in SecretRecord
           /\ \A s \in Servers, u \in Incarnations :
                 [x EXCEPT !.owner = s, !.uid = u] \in SecretRecord
BY DEF SecretRecord

\* The same for the EventListener and the Ingress.
LEMMA ObjectType ==
    ASSUME NEW x \in ObjectRecord, NEW u \in Incarnations
    PROVE  /\ [x EXCEPT !.selector = TRUE, !.listener = u] \in ObjectRecord
           /\ [x EXCEPT !.ingress = u] \in ObjectRecord
           /\ [x EXCEPT !.selector = FALSE] \in ObjectRecord
           /\ [x EXCEPT !.listener = u, !.selector = FALSE] \in ObjectRecord
           /\ x.listener \in Incarnations
BY DEF ObjectRecord

\* A call, an event and their absence keep the counters within their bounds.
LEMMA CounterType ==
    ASSUME events \in 0 .. MaxEvents, faults \in 0 .. MaxFaults,
           Event \/ Silent \/ \E o \in Outcomes : Outcome(o)
    PROVE  events' \in 0 .. MaxEvents /\ faults' \in 0 .. MaxFaults
BY GitServerAssumption DEF Event, Silent, Outcome, bounds

USE DEF gsVars, secretVars, recVars, hookVars

\* The steps of a reconcile keep the types.
LEMMA ReconcileTypeOK ==
    ASSUME TypeOK, Steps \/ \E s \in Servers, o \in Outcomes : Reconcile(s, o)
    PROVE  TypeOK'
<1> USE DEF TypeOK, Phases
<1>0. ASSUME NEW o \in Outcomes, Outcome(o)
      PROVE  events' \in 0 .. MaxEvents /\ faults' \in 0 .. MaxFaults
  BY <1>0, CounterType
<1>1. ASSUME NEW s \in Servers, NEW o \in Outcomes, Reconcile(s, o) PROVE TypeOK'
  <2>1. gsCached[s] \in ServerRecord /\ gsCached[s].uid \in Incarnations
    BY DEF ServerRecord
  <2>2. owned(s, secretCached) \in SecretRecord
    BY <2>1, SecretType DEF owned
  <2>3. \A status \in Statuses : Status(gsCached[s], status) \in ServerRecord
    BY <2>1, StatusType
  <2>4. /\ server' \in Servers /\ oldStatus' \in ServerRecord /\ recCurrent' \in BOOLEAN
        /\ rec' \in ServerRecord /\ pc' \in Phases
    BY <1>1, <2>1, <2>3 DEF Reconcile, Begin, Statuses
  <2>5. /\ {secret', secretCached'} \subseteq SecretRecord
        /\ secretCurrent' \in BOOLEAN
    BY <1>1, <2>2 DEF Reconcile, WriteSecret
  <2> QED
    BY <1>0, <1>1, <2>4, <2>5 DEF Reconcile
<1>2. ASSUME NEW o \in Outcomes, createEventListener(o) PROVE TypeOK'
  <2> DEFINE found == objects[server]
             new == [found EXCEPT !.selector = TRUE,
                                  !.listener = IF @ = NoOwner THEN rec.uid ELSE @]
  <2>1. found \in ObjectRecord /\ found.listener \in Incarnations /\ rec.uid \in Incarnations
    BY DEF ObjectRecord, ServerRecord
  <2>2. new = [found EXCEPT !.selector = TRUE,
                            !.listener = IF found.listener = NoOwner THEN rec.uid
                                         ELSE found.listener]
    BY <2>1 DEF ObjectRecord
  <2>3. new \in ObjectRecord
    BY <2>1, <2>2, ObjectType
  <2>4. Status(rec, "failed") \in ServerRecord
    BY StatusType DEF Statuses
  <2>5. objects' \in [Servers -> ObjectRecord]
    BY <1>2, <2>3 DEF createEventListener
  <2>6. pc' \in Phases /\ rec' \in ServerRecord
    BY <1>2, <2>4 DEF createEventListener, Go
  <2> QED
    BY <1>0, <1>2, <2>5, <2>6 DEF createEventListener, Go
<1>3. ASSUME NEW o \in Outcomes, createIngress(o) PROVE TypeOK'
  <2>1. objects[server] \in ObjectRecord /\ rec.uid \in Incarnations
    BY DEF ServerRecord
  <2>2. [objects[server] EXCEPT !.ingress = rec.uid] \in ObjectRecord
    BY <2>1, ObjectType
  <2>3. [objects EXCEPT ![server].ingress = rec.uid] \in [Servers -> ObjectRecord]
    BY <2>2
  <2>4. Status(rec, "failed") \in ServerRecord /\ Status(rec, "ok") \in ServerRecord
    BY StatusType DEF Statuses
  <2>5. objects' \in [Servers -> ObjectRecord] /\ pc' \in Phases /\ rec' \in ServerRecord
    BY <1>3, <2>3, <2>4 DEF createIngress, Go
  <2> QED
    BY <1>0, <1>3, <2>5 DEF createIngress, Go
<1>4. ASSUME NEW o \in Outcomes, updateGitServerStatus(o) PROVE TypeOK'
  <2>1. /\ gs' \in [Servers -> ServerRecord] /\ gsCurrent' \in [Servers -> BOOLEAN]
        /\ gsCached' = gsCached
    BY <1>4 DEF updateGitServerStatus
  <2> QED
    BY <1>0, <1>4, <2>1, NewType DEF updateGitServerStatus, Done
<1> QED
  BY <1>1, <1>2, <1>3, <1>4 DEF Steps

\* So do the steps of PutWebHook.
LEMMA HookTypeOK ==
    ASSUME TypeOK, NEW c \in Codebases, PutWebHook(c)
    PROVE  TypeOK'
<1> USE DEF TypeOK
<1>0. ASSUME NEW o \in Outcomes, Outcome(o)
      PROVE  events' \in 0 .. MaxEvents /\ faults' \in 0 .. MaxFaults
  BY <1>0, CounterType
<1>1. ASSUME NEW o \in Outcomes, getGitServerSecret(c, o) PROVE TypeOK'
  <2>1. tokens < MaxTokens => tokens + 1 \in Tokens
    BY GitServerAssumption DEF Tokens
  <2>2. tokens' \in Tokens
    BY <1>1, <2>1 DEF getGitServerSecret
  <2>3. \A t \in Tokens : [secretCached EXCEPT !.token = t] \in SecretRecord
    BY SecretType
  <2>4. {secret', secretCached'} \subseteq SecretRecord /\ secretCurrent' \in BOOLEAN
    BY <1>1, <2>2, <2>3 DEF getGitServerSecret, WriteSecret
  <2>5. \A t \in Tokens : Holds(c, t) \in [Codebases -> HookRecord]
    BY NewType DEF Holds
  <2>6. secretCached.token \in Tokens
    BY DEF SecretRecord
  <2>7. hook' \in [Codebases -> HookRecord]
    BY <1>1, <2>2, <2>5, <2>6 DEF getGitServerSecret
  <2> QED
    BY <1>0, <1>1, <2>2, <2>4, <2>7 DEF getGitServerSecret
<1>2. ASSUME NEW o \in Outcomes, CreateWebHook(c, o) PROVE TypeOK'
  <2>1. hook[c].token \in Tokens
    BY DEF HookRecord
  <2>2. registered' \in [Codebases -> Tokens]
    BY <1>2, <2>1 DEF CreateWebHook
  <2>3. hook' \in [Codebases -> HookRecord]
    BY <1>2, NewType DEF CreateWebHook, GivesUp
  <2> QED
    BY <1>0, <1>2, <2>2, <2>3 DEF CreateWebHook
<1> QED
  BY <1>1, <1>2 DEF PutWebHook

\* So do users, the garbage collector, the watches and a restart.
LEMMA OthersTypeOK ==
    ASSUME TypeOK,
           \/ Users \/ Restart \/ WatchSecret \/ CollectSecret \/ WatchServers
           \/ \E s \in Servers : CollectObjects(s)
    PROVE  TypeOK'
<1> USE DEF TypeOK
<1>0. ASSUME Event \/ Silent
      PROVE  events' \in 0 .. MaxEvents /\ faults' \in 0 .. MaxFaults
  BY <1>0, CounterType
<1>1. ASSUME NEW s \in Servers, NEW new \in ServerRecord, Event, WriteServer(s, new) PROVE TypeOK'
  BY <1>0, <1>1 DEF WriteServer
<1>2. ASSUME NEW s \in Servers, NEW new \in ObjectRecord, Event \/ Silent, WriteObjects(s, new)
      PROVE  TypeOK'
  BY <1>0, <1>2 DEF WriteObjects
<1>3. ASSUME NEW s \in Servers, Create(s) \/ Replace(s) \/ Delete(s) PROVE TypeOK'
  <2>1. gs[s].uid \in Incarnations /\ gs[s].uid \in Nat
    BY IncarnationType DEF ServerRecord
  <2>2. gs[s].uid < MaxIncarnation[s] => gs[s].uid + 1 \in Incarnations
    BY <2>1, IncarnationType
  <2>3. CASE Create(s) \/ Replace(s)
    <3>1. [NoServer EXCEPT !.exists = TRUE, !.uid = gs[s].uid + 1] \in ServerRecord
      BY <2>2, <2>3, NewType DEF Create, Replace
    <3> QED
      BY <1>1, <2>3, <3>1 DEF Create, Replace
  <2>4. CASE Delete(s)
    <3>1. [NoServer EXCEPT !.uid = gs[s].uid] \in ServerRecord
      BY <2>1, NewType
    <3> QED
      BY <1>1, <2>4, <3>1 DEF Delete
  <2> QED
    BY <1>3, <2>3, <2>4
<1>4. ASSUME NEW s \in Servers, RemoveIngress(s) \/ EditSelector(s) \/ CollectObjects(s)
      PROVE  TypeOK'
  <2>1. NoOwner \in Incarnations /\ objects[s] \in ObjectRecord
    BY IncarnationType
  <2>2. /\ [objects[s] EXCEPT !.ingress = NoOwner] \in ObjectRecord
        /\ [objects[s] EXCEPT !.selector = FALSE] \in ObjectRecord
        /\ [objects[s] EXCEPT !.listener = NoOwner, !.selector = FALSE] \in ObjectRecord
    BY <2>1, ObjectType
  <2> QED
    BY <1>2, <1>4, <2>2 DEF RemoveIngress, EditSelector, CollectObjects
<1>5. CASE Restart
  <2>1. faults' \in 0 .. MaxFaults
    BY <1>5, GitServerAssumption DEF Restart
  <2>2. hook' \in [Codebases -> HookRecord]
    BY <1>5, NewType DEF Restart
  <2> QED
    BY <1>5, <2>1, <2>2, NewType DEF Restart, Done, Phases
<1>6. CASE WatchSecret
  BY <1>0, <1>6 DEF WatchSecret
<1>7. CASE CollectSecret
  <2>1. [secret EXCEPT !.exists = FALSE] \in SecretRecord
    BY SecretType
  <2> QED
    BY <1>0, <1>7, <2>1 DEF CollectSecret, WriteSecret
<1>8. CASE WatchServers
  BY <1>0, <1>8 DEF WatchServers
<1> QED
  BY <1>3, <1>4, <1>5, <1>6, <1>7, <1>8 DEF Users

\* The variables have their types at the beginning.
LEMMA InitTypeOK == Init => TypeOK
<1> SUFFICES ASSUME Init PROVE TypeOK
  OBVIOUS
<1>1. gs \in {NewServers(Listening), NewServers(Servers)} /\ gsCached = gs
  BY DEF Init
<1>2. \A s \in Servers : [NoServer EXCEPT !.exists = TRUE, !.uid = 1] \in ServerRecord
  BY NewType, IncarnationType
<1>3. {gs, gsCached} \subseteq [Servers -> ServerRecord]
  BY <1>1, <1>2, NewType DEF NewServers
<1>4. NoToken \in Tokens /\ tokens \in Tokens
  BY GitServerAssumption DEF Init, NoToken, Tokens
<1>5. [exists |-> TRUE, owner |-> SomeServer, uid |-> NoOwner, token |-> NoToken] \in SecretRecord
  BY <1>4, NewType, IncarnationType DEF SecretRecord
<1>6. events \in 0 .. MaxEvents /\ faults \in 0 .. MaxFaults
  BY GitServerAssumption DEF Init
<1> QED
  BY <1>3, <1>4, <1>5, <1>6, NewType DEF Init, TypeOK, Phases

\* Every step keeps them.
LEMMA NextTypeOK == TypeOK /\ [Next]_vars => TypeOK'
<1> SUFFICES ASSUME TypeOK, [Next]_vars PROVE TypeOK'
  OBVIOUS
<1>1. CASE Next
  BY <1>1, ReconcileTypeOK, HookTypeOK, OthersTypeOK DEF Next
<1>2. CASE UNCHANGED vars
  BY <1>2 DEF vars, bounds, TypeOK
<1> QED
  BY <1>1, <1>2

\* The variables keep their types: the copies and objects are well formed, no GitServer
\* is created more often, and no more tokens are generated, than the bounds allow.
THEOREM TypesCorrect == Spec => []TypeOK
BY InitTypeOK, NextTypeOK, PTL DEF Spec
-----------------------------------------------------------------------------
(***************************************************************************)
(* The token of the Secret.  Two Codebases may generate one at the same    *)
(* time; the update of the Secret, which carries its version, lets only    *)
(* the first succeed.                                                      *)
(***************************************************************************)

\* The cache shows no token or the one of the Secret; a Codebase that is about to
\* register its webhook holds that one, and so do the webhooks that are registered.
TokenInv ==
    /\ secretCurrent => secretCached = secret
    /\ secretCached.token \in {NoToken, secret.token}
    /\ \A c \in Codebases : hook[c].state = "register" =>
          hook[c].token = secret.token /\ secret.token # NoToken
    /\ TokenAgrees

\* A step that leaves the token and the webhooks alone keeps this, whether it writes the
\* Secret, reads it into the cache, or neither.
LEMMA TokenUntouched ==
    ASSUME TokenInv, UNCHANGED <<hook, registered>>, secret'.token = secret.token,
           \/ UNCHANGED secretVars
           \/ ~secretCurrent' /\ UNCHANGED secretCached
           \/ secret' = secret /\ secretCached' = secret
    PROVE  TokenInv'
BY DEF TokenInv, TokenAgrees

\* Every step of PutWebHook keeps it: a new token is written only over none.
LEMMA TokenHookStep ==
    ASSUME TypeOK, TokenInv, NEW c \in Codebases, PutWebHook(c)
    PROVE  TokenInv'
<1>1. ASSUME NEW o \in Outcomes, getGitServerSecret(c, o) PROVE TokenInv'
  <2> DEFINE effect == /\ secretCached.token = NoToken /\ o # "error" /\ tokens < MaxTokens
                       /\ secretCurrent /\ secret.exists
  <2>1. CASE secretCached.token # NoToken
    <3>1. UNCHANGED <<secretVars, registered>> /\ hook' = Holds(c, secretCached.token)
      BY <1>1, <2>1 DEF getGitServerSecret
    <3>2. secretCached.token = secret.token /\ secret.token # NoToken
      BY <2>1 DEF TokenInv
    <3>3. \A d \in Codebases : hook'[d].state = "register" => hook'[d].token = secret.token
      BY <3>1, <3>2 DEF Holds, TokenInv, TypeOK
    <3> QED
      BY <3>1, <3>2, <3>3 DEF TokenInv, TokenAgrees
  <2>2. CASE effect
    <3>1. secret.token = NoToken /\ secretCached.token = NoToken
      BY <2>2 DEF TokenInv
    <3>2. /\ secret' = [secretCached EXCEPT !.token = tokens'] /\ ~secretCurrent'
          /\ UNCHANGED <<secretCached, registered>> /\ hook' \in {hook, Holds(c, tokens')}
      BY <1>1, <2>2 DEF getGitServerSecret, WriteSecret
    <3>3. tokens' # NoToken
      <4>1. tokens \in Nat /\ tokens' = tokens + 1
        BY <1>1, <2>2, GitServerAssumption DEF getGitServerSecret, TypeOK, Tokens
      <4> QED
        BY <4>1 DEF NoToken
    <3>4. secret'.token = tokens'
      BY <3>2 DEF TypeOK, SecretRecord
    <3>5. \A d \in Codebases : hook[d].state # "register" /\ registered[d] = NoToken
      BY <3>1 DEF TokenInv, TokenAgrees
    <3>6. \A d \in Codebases : hook'[d].state = "register" => hook'[d].token = tokens'
      BY <3>2, <3>5 DEF Holds, TypeOK
    <3> QED
      BY <3>1, <3>2, <3>3, <3>4, <3>5, <3>6 DEF TokenInv, TokenAgrees
  <2>3. CASE secretCached.token = NoToken /\ ~effect
    <3>1. UNCHANGED <<secretVars, hook, registered>>
      BY <1>1, <2>3 DEF getGitServerSecret
    <3> QED
      BY <3>1, TokenUntouched
  <2> QED
    BY <2>1, <2>2, <2>3
<1>2. ASSUME NEW o \in Outcomes, CreateWebHook(c, o) PROVE TokenInv'
  <2>1. hook[c].token = secret.token /\ secret.token # NoToken /\ UNCHANGED secretVars
    BY <1>2 DEF CreateWebHook, TokenInv
  <2>2. \A d \in Codebases : registered'[d] \in {registered[d], secret.token}
    BY <1>2, <2>1 DEF CreateWebHook, TypeOK
  <2>3. \A d \in Codebases : hook'[d].state = "register" => hook'[d] = hook[d]
    <3>1. NoHook.state # "register" /\ [NoHook EXCEPT !.state = "done"].state # "register"
      BY DEF NoHook
    <3> QED
      BY <1>2, <3>1 DEF CreateWebHook, GivesUp, TypeOK
  <2> QED
    BY <2>1, <2>2, <2>3 DEF TokenInv, TokenAgrees
<1> QED
  BY <1>1, <1>2 DEF PutWebHook

\* So does every other step: ensureSecretOwnership and the garbage collector write
\* the Secret too, but keep its token.
LEMMA TokenStep == TypeOK /\ TokenInv /\ [Next]_vars => TokenInv'
<1> SUFFICES ASSUME TypeOK, TokenInv, [Next]_vars PROVE TokenInv'
  OBVIOUS
<1>1. CASE \E c \in Codebases : PutWebHook(c)
  BY <1>1, TokenHookStep
<1>2. CASE Steps
  BY <1>2, TokenUntouched DEF Steps, createEventListener, createIngress, updateGitServerStatus
<1>3. ASSUME NEW s \in Servers, NEW o \in Outcomes, Reconcile(s, o) PROVE TokenInv'
  <2>1. owned(s, secretCached).token = secretCached.token
    BY DEF owned, TypeOK, SecretRecord
  <2>2. UNCHANGED <<hook, registered>>
    BY <1>3 DEF Reconcile
  <2>3. \/ UNCHANGED secretVars
        \/ /\ secret' = owned(s, secretCached) /\ secretCached = secret
           /\ ~secretCurrent' /\ UNCHANGED secretCached
    BY <1>3 DEF Reconcile, WriteSecret, TokenInv
  <2> QED
    BY <2>1, <2>2, <2>3, TokenUntouched
<1>4. CASE Users \/ WatchServers \/ \E s \in Servers : CollectObjects(s)
  <2>1. UNCHANGED <<secretVars, hook, registered>>
    BY <1>4 DEF Users, WatchServers, CollectObjects, Create, Replace, Delete, RemoveIngress,
       EditSelector, WriteServer, WriteObjects
  <2> QED
    BY <2>1, TokenUntouched
<1>5. CASE WatchSecret
  BY <1>5, TokenUntouched DEF WatchSecret
<1>6. CASE CollectSecret
  <2>1. [secret EXCEPT !.exists = FALSE].token = secret.token
    BY DEF TypeOK, SecretRecord
  <2> QED
    BY <1>6, <2>1, TokenUntouched DEF CollectSecret, WriteSecret
<1>7. CASE Restart
  <2>1. secret' = secret /\ secretCached' = secret /\ UNCHANGED registered
    BY <1>7 DEF Restart
  <2>2. \A c \in Codebases : hook'[c].state # "register"
    BY <1>7 DEF Restart, NoHook
  <2> QED
    BY <2>1, <2>2 DEF TokenInv, TokenAgrees
<1>8. CASE UNCHANGED vars
  BY <1>8, TokenUntouched DEF vars
<1> QED
  BY <1>1, <1>2, <1>3, <1>4, <1>5, <1>6, <1>7, <1>8 DEF Next

\* Every registered webhook has the token by which the EventListener checks its calls,
\* whatever Codebases put webhooks at the same time, fail and are restarted, and although
\* the GitServer controller writes the same Secret.
THEOREM TokenCorrect == Spec => []TokenAgrees
<1>1. Init => TokenInv
  BY DEF Init, TokenInv, TokenAgrees, NoHook
<1>2. TokenInv => TokenAgrees
  BY DEF TokenInv
<1> QED
  BY <1>1, <1>2, TokenStep, TypesCorrect, PTL DEF Spec
-----------------------------------------------------------------------------
(***************************************************************************)
(* The ownership of the Secret.  It rests on the first conjunct of         *)
(* TokenInv: a copy that the API server accepts shows the owner.           *)
(***************************************************************************)

\* A Secret that has an owner keeps it in every step: who writes the Secret writes a
\* copy that shows the owner, and ensureSecretOwnership leaves such a copy alone.
LEMMA OwnerStep ==
    ASSUME TypeOK, TokenInv, [Next]_vars, secret.uid # NoOwner
    PROVE  secret'.uid = secret.uid /\ secret'.owner = secret.owner
<1>1. ASSUME NEW s \in Servers, NEW o \in Outcomes, Reconcile(s, o) PROVE secret' = secret
  <2>1. CASE takesOwnership(s) /\ secretCurrent
    BY <2>1 DEF takesOwnership, TokenInv
  <2>2. CASE ~(takesOwnership(s) /\ secretCurrent)
    BY <1>1, <2>2 DEF Reconcile
  <2> QED
    BY <2>1, <2>2
<1>2. ASSUME NEW c \in Codebases, PutWebHook(c)
      PROVE  secret' = secret \/ secret' = [secret EXCEPT !.token = tokens']
  BY <1>2 DEF PutWebHook, getGitServerSecret, CreateWebHook, WriteSecret, TokenInv
<1>3. CASE CollectSecret
  BY <1>3 DEF CollectSecret, WriteSecret, TypeOK, SecretRecord
<1>4. CASE Steps \/ Restart \/ WatchSecret
  BY <1>4 DEF Steps, createEventListener, createIngress, updateGitServerStatus, Restart,
     WatchSecret
<1>5. CASE Users \/ WatchServers \/ \E s \in Servers : CollectObjects(s)
  BY <1>5 DEF Users, WatchServers, CollectObjects, Create, Replace, Delete, RemoveIngress,
     EditSelector, WriteServer, WriteObjects
<1>6. CASE UNCHANGED vars
  BY <1>6 DEF vars
<1>7. [secret EXCEPT !.token = tokens'].uid = secret.uid
      /\ [secret EXCEPT !.token = tokens'].owner = secret.owner
  BY DEF TypeOK, SecretRecord
<1> QED
  BY <1>1, <1>2, <1>3, <1>4, <1>5, <1>6, <1>7 DEF Next

\* The Secret keeps its controller owner, whatever GitServers and Codebases write copies
\* of it from stale caches, fail and are restarted: what is to be collected with a
\* GitServer stays so, and no other GitServer takes it over.
THEOREM OwnerCorrect == Spec => OwnerKept
<1>1. Init => TokenInv
  BY DEF Init, TokenInv, TokenAgrees, NoHook
<1>2. TypeOK /\ TokenInv /\ [Next]_vars =>
         [secret.uid # NoOwner => secret'.uid = secret.uid /\ secret'.owner = secret.owner]_vars
  BY OwnerStep
<1> QED
  BY <1>1, <1>2, TokenStep, TypesCorrect, PTL DEF Spec, OwnerKept
=============================================================================
