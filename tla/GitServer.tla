----------------------------- MODULE GitServer -----------------------------
(***************************************************************************)
(* The GitServer controller (controllers/gitserver), and the step of the   *)
(* Codebase chain that puts webhooks (PutWebHook), which share a Secret.   *)
(*                                                                         *)
(* A reconcile of a GitServer takes ownership of the credentials Secret,   *)
(* checks the connection, creates the EventListener and the Ingress, and   *)
(* writes the status; it is repeated periodically.  PutWebHook generates   *)
(* the webhook token into the same Secret and registers it with the git    *)
(* provider.  Both update the Secret from the cache, with its version.     *)
(* The garbage collector deletes what a deleted GitServer owned.  The      *)
(* module follows GitServers that refer to one Secret.                     *)
(***************************************************************************)
EXTENDS Integers

CONSTANTS
    Servers,        \* the GitServers
    Listening,      \* those without Spec.TektonDisabled and Spec.WebhookUrl
    Codebases,      \* the Codebases that need a webhook
    ServerOf,       \* Codebase.Spec.GitServer
    MaxIncarnation, \* bound: times each GitServer is created
    MaxTokens,      \* bound: webhook tokens generated
    MaxEvents,      \* bound: what people do
    MaxFaults       \* bound: failed calls and restarts

ASSUME GitServerAssumption ==
    /\ ServerOf \in [Codebases -> Listening] /\ Listening \subseteq Servers /\ Servers # {}
    /\ MaxIncarnation \in [Servers -> Nat \ {0}]
    /\ {MaxTokens, MaxEvents, MaxFaults} \subseteq Nat

VARIABLES
    gs,             \* the GitServers in the API server
    gsCached,       \* the GitServers in the cache
    gsCurrent,      \* those whose last resourceVersion the cache holds
    secret,         \* the Secret in the API server
    secretCached,   \* the Secret in the cache
    secretCurrent,  \* whether the cache holds its last resourceVersion
    objects,        \* the EventListener and the Ingress of each GitServer
    pc,             \* the next call of the reconcile
    server,         \* the GitServer it is about
    rec,            \* its copy
    oldStatus,      \* the copy as it was read
    recCurrent,     \* whether the copy has the last resourceVersion
    hook,           \* the progress of PutWebHook for each Codebase
    registered,     \* the tokens that the git provider has
    tokens,         \* the number of tokens generated
    events, faults

gsVars == <<gs, gsCached, gsCurrent>>
secretVars == <<secret, secretCached, secretCurrent>>
recVars == <<pc, server, rec, oldStatus, recCurrent>>
hookVars == <<hook, registered, tokens>>
bounds == <<events, faults>>
vars == <<gsVars, secretVars, objects, recVars, hookVars, bounds>>
-----------------------------------------------------------------------------
Incarnations ==                         \* the UIDs of the GitServers of one name
    UNION {0 .. MaxIncarnation[s] : s \in Servers}
Tokens == 0 .. MaxTokens
NoToken == 0
NoOwner == 0                            \* in the place of an incarnation

\* "": the status of a new GitServer; "disconnected": failed without Connected, because
\* of the Secret or the connection; "failed": connected, without the objects.
Statuses == {"", "ok", "disconnected", "failed"}

ServerRecord == [exists : BOOLEAN, uid : Incarnations, status : Statuses]
NoServer == [exists |-> FALSE, uid |-> 0, status |-> ""]

\* owner and uid: the controller reference.
SecretRecord ==
    [exists : BOOLEAN, owner : Servers, uid : Incarnations, token : Tokens]

\* The incarnations that own the EventListener and the Ingress; selector: whether
\* the label selector of the EventListener names the GitServer.
ObjectRecord ==
    [listener : Incarnations, selector : BOOLEAN, ingress : Incarnations]
NoObjects == [listener |-> NoOwner, selector |-> FALSE, ingress |-> NoOwner]

\* state: what PutWebHook does next; token: the one it has read or generated.
HookRecord == [state : {"idle", "register", "done"}, token : Tokens]
NoHook == [state |-> "idle", token |-> NoToken]

Phases == {"idle", "listener", "ingress", "status"}

SomeServer == CHOOSE s \in Servers : TRUE

NewServers(new) ==
    [s \in Servers |-> IF s \in new THEN [NoServer EXCEPT !.exists = TRUE, !.uid = 1] ELSE NoServer]

\* Some GitServers are new, others are created later; the Secret has the credentials.
Init ==
    /\ gs \in {NewServers(Listening), NewServers(Servers)}
    /\ gsCached = gs
    /\ gsCurrent = [s \in Servers |-> TRUE]
    /\ secret = [exists |-> TRUE, owner |-> SomeServer, uid |-> NoOwner, token |-> NoToken]
    /\ secretCached = secret /\ secretCurrent = TRUE
    /\ objects = [s \in Servers |-> NoObjects]
    /\ pc = "idle" /\ server = SomeServer /\ rec = NoServer /\ oldStatus = NoServer
    /\ recCurrent = FALSE
    /\ hook = [c \in Codebases |-> NoHook] /\ registered = [c \in Codebases |-> NoToken]
    /\ tokens = 0
    /\ events = 0 /\ faults = 0

Outcomes == {"ok", "error", "unknown"}

\* A call ends well, fails, or takes effect although the caller gets an error.
Outcome(o) ==
    /\ o \in Outcomes
    /\ faults' = IF o = "ok" THEN faults ELSE faults + 1
    /\ o # "ok" => faults < MaxFaults
    /\ UNCHANGED events

Event == events < MaxEvents /\ events' = events + 1 /\ UNCHANGED faults
Silent == UNCHANGED bounds
-----------------------------------------------------------------------------
(* The Secret. *)

\* A new version of the Secret. Its readers write the whole copy that the cache shows,
\* at once: they get a conflict when it is not the last version.
WriteSecret(new) == secret' = new /\ secretCurrent' = FALSE /\ UNCHANGED secretCached

WatchSecret ==
    /\ ~secretCurrent /\ secretCached' = secret /\ secretCurrent' = TRUE
    /\ UNCHANGED <<gsVars, secret, objects, recVars, hookVars>> /\ Silent

Alive(s, uid) == gs[s].exists /\ gs[s].uid = uid

CollectSecret ==
    /\ secret.exists /\ secret.uid # NoOwner /\ ~Alive(secret.owner, secret.uid)
    /\ WriteSecret([secret EXCEPT !.exists = FALSE])
    /\ UNCHANGED <<gsVars, objects, recVars, hookVars>> /\ Silent
-----------------------------------------------------------------------------
(* The reconcile. *)

Go(phase, r) == pc' = phase /\ rec' = r /\ UNCHANGED <<server, oldStatus, recCurrent>>

Done ==
    /\ pc' = "idle" /\ server' = SomeServer /\ rec' = NoServer /\ oldStatus' = NoServer
    /\ recCurrent' = FALSE

\* Mutant: the error is written into Status.
errorAsStatus(r, status) ==
    [r EXCEPT !.status = IF status \in Statuses \ {"ok"} THEN "error" ELSE status]

\* SetSuccess, and SetFailed with Connected false ("disconnected") or true ("failed").
Status(r, status) == [r EXCEPT !.status = status]

\* ensureSecretOwnership leaves a Secret that is owned or shared, or not there yet.
takesOwnership(s) ==
    /\ secretCached.exists /\ secretCached.uid = NoOwner
    /\ \A t \in Servers \ {s} : ~gsCached[t].exists

\* A Secret is there for the connection; the one that answers may be refused (o).
checkConnectionToGitServer(o) == o = "ok" /\ secretCached.exists

Begin(s, connected) ==
    /\ server' = s /\ oldStatus' = gsCached[s] /\ recCurrent' = gsCurrent[s]
    /\ IF connected
       THEN IF s \in Listening THEN pc' = "listener" /\ rec' = gsCached[s]
                               ELSE pc' = "status" /\ rec' = Status(gsCached[s], "ok")
       ELSE pc' = "status" /\ rec' = Status(gsCached[s], "disconnected")

owned(s, x) == [x EXCEPT !.owner = s, !.uid = gsCached[s].uid]

\* The beginning of a reconcile: ensureSecretOwnership, then the connection (with an
\* unknown outcome, one that is refused after the Secret was taken). It is repeated
\* after 30 minutes, or 30 seconds when it failed.
Reconcile(s, o) ==
    LET takes == takesOwnership(s)
        effect == takes /\ o # "error" /\ secretCurrent /\ secret.exists
    IN  /\ pc = "idle" /\ gsCached[s].exists /\ Outcome(o)
        /\ IF effect
           THEN WriteSecret(owned(s, secretCached))
           ELSE UNCHANGED secretVars
        /\ Begin(s, (takes => effect) /\ checkConnectionToGitServer(o))
        /\ UNCHANGED <<gsVars, objects, hookVars>>

\* An EventListener that exists gets the label selector; otherwise one is created. It
\* is unstructured, and as such not read from the cache.
createEventListener(o) ==
    LET found == objects[server]
        new == [found EXCEPT !.selector = TRUE,
                             !.listener = IF @ = NoOwner THEN rec.uid ELSE @]
    IN  /\ pc = "listener" /\ Outcome(o)
        /\ objects' = IF o = "error" THEN objects ELSE [objects EXCEPT ![server] = new]
        /\ IF o = "ok" THEN Go("ingress", rec) ELSE Go("status", Status(rec, "failed"))
        /\ UNCHANGED <<gsVars, secretVars, hookVars>>

\* createIngress, createHTTPRoute and createRoute: one that exists is left alone. It is
\* read from the cache; when that misses one, the creation is refused, an error.
createIngress(o) ==
    LET found == objects[server].ingress # NoOwner
    IN  /\ pc = "ingress" /\ Outcome(o)
        /\ objects' = IF found \/ o = "error" THEN objects
                      ELSE [objects EXCEPT ![server].ingress = rec.uid]
        /\ Go("status", Status(rec, IF o = "ok" THEN "ok" ELSE "failed"))
        /\ UNCHANGED <<gsVars, secretVars, hookVars>>

\* Mutant: oldStatus is a pointer into the copy, and shows no change.
aliasedStatus(o) ==
    /\ pc = "status" /\ Outcome(o) /\ Done
    /\ UNCHANGED <<gsVars, secretVars, objects, hookVars>>

\* The status is written when it changed; a conflict is an error and retried.
updateGitServerStatus(o) ==
    LET effect == o # "error" /\ recCurrent /\ gs[server].exists
    IN  /\ pc = "status" /\ Outcome(o)
        /\ IF rec = oldStatus
           THEN o = "ok" /\ UNCHANGED gsVars
           ELSE /\ gs' = IF effect THEN [gs EXCEPT ![server] = rec] ELSE gs
                /\ gsCurrent' = [gsCurrent EXCEPT ![server] = @ /\ ~effect]
                /\ UNCHANGED gsCached
        /\ Done
        /\ UNCHANGED <<secretVars, objects, hookVars>>
-----------------------------------------------------------------------------
(* PutWebHook, which workers of the Codebase controller run at the same time. *)

Holds(c, token) == [hook EXCEPT ![c] = [state |-> "register", token |-> token]]
GivesUp(c) == [hook EXCEPT ![c] = NoHook]

\* Mutant: a new token is patched into the Secret.
patchesToken(c, o) ==
    /\ hook[c].state = "idle" /\ gsCached[ServerOf[c]].exists /\ secretCached.exists
    /\ Outcome(o) /\ o = "ok"
    /\ IF secretCached.token # NoToken
       THEN hook' = Holds(c, secretCached.token) /\ UNCHANGED <<tokens, secretVars>>
       ELSE /\ tokens < MaxTokens /\ tokens' = tokens + 1
            /\ WriteSecret([secret EXCEPT !.token = tokens'])
            /\ hook' = Holds(c, tokens')
    /\ UNCHANGED <<gsVars, objects, recVars, registered>>

\* Mutant: the copy is written without its version.
overwritesSecret(c, o) ==
    /\ hook[c].state = "idle" /\ gsCached[ServerOf[c]].exists /\ secretCached.exists
    /\ Outcome(o) /\ o = "ok" /\ secret.exists
    /\ IF secretCached.token # NoToken
       THEN hook' = Holds(c, secretCached.token) /\ UNCHANGED <<tokens, secretVars>>
       ELSE /\ tokens < MaxTokens /\ tokens' = tokens + 1
            /\ WriteSecret([secretCached EXCEPT !.token = tokens'])
            /\ hook' = Holds(c, tokens')
    /\ UNCHANGED <<gsVars, objects, recVars, registered>>

\* A token that the cache shows is taken. A new one is used only when the update of
\* the Secret has succeeded.
getGitServerSecret(c, o) ==
    LET needed == secretCached.token = NoToken
        effect == /\ needed /\ o # "error" /\ tokens < MaxTokens
                  /\ secretCurrent /\ secret.exists
    IN  /\ hook[c].state = "idle" /\ gsCached[ServerOf[c]].exists /\ secretCached.exists
        /\ Outcome(o) /\ (~needed => o = "ok")
        /\ IF effect
           THEN /\ tokens' = tokens + 1
                /\ WriteSecret([secretCached EXCEPT !.token = tokens'])
           ELSE UNCHANGED <<tokens, secretVars>>
        /\ hook' = IF ~needed THEN Holds(c, secretCached.token)
                   ELSE IF o = "ok" /\ effect THEN Holds(c, tokens') ELSE hook
        /\ UNCHANGED <<gsVars, objects, recVars, registered>>

\* getWebHookUrl needs the Ingress; a webhook that is there is left alone.
CreateWebHook(c, o) ==
    LET shown == objects[ServerOf[c]].ingress # NoOwner
    IN  /\ hook[c].state = "register" /\ Outcome(o)
        /\ ~shown => o = "ok"
        /\ registered' = IF shown /\ o # "error" /\ registered[c] = NoToken
                         THEN [registered EXCEPT ![c] = hook[c].token] ELSE registered
        /\ hook' = IF shown /\ o = "ok"
                   THEN [hook EXCEPT ![c] = [NoHook EXCEPT !.state = "done"]] ELSE GivesUp(c)
        /\ UNCHANGED <<gsVars, secretVars, objects, recVars, tokens>>
-----------------------------------------------------------------------------
(* The environment. *)

\* A GitServer has no finalizer: deletion removes it.
WriteServer(s, new) ==
    /\ gs' = [gs EXCEPT ![s] = new] /\ gsCurrent' = [gsCurrent EXCEPT ![s] = FALSE]
    /\ recCurrent' = (recCurrent /\ s # server)
    /\ UNCHANGED <<gsCached, secretVars, objects, pc, server, rec, oldStatus>>
    /\ UNCHANGED hookVars

Create(s) ==
    /\ Event /\ ~gs[s].exists /\ gs[s].uid < MaxIncarnation[s]
    /\ WriteServer(s, [NoServer EXCEPT !.exists = TRUE, !.uid = gs[s].uid + 1])

\* A GitServer is deleted and created again, before the controller sees either.
Replace(s) ==
    /\ Event /\ gs[s].exists /\ gs[s].uid < MaxIncarnation[s]
    /\ WriteServer(s, [NoServer EXCEPT !.exists = TRUE, !.uid = gs[s].uid + 1])

Delete(s) == Event /\ gs[s].exists /\ WriteServer(s, [NoServer EXCEPT !.uid = gs[s].uid])

WatchServers ==
    /\ \E s \in Servers : ~gsCurrent[s]
    /\ gsCached' = gs /\ gsCurrent' = [s \in Servers |-> TRUE]
    /\ UNCHANGED <<gs, secretVars, objects, recVars, hookVars>> /\ Silent

WriteObjects(s, new) ==
    /\ objects' = [objects EXCEPT ![s] = new]
    /\ UNCHANGED <<gsVars, secretVars, recVars, hookVars>>

RemoveIngress(s) ==
    /\ Event /\ objects[s].ingress # NoOwner
    /\ WriteObjects(s, [objects[s] EXCEPT !.ingress = NoOwner])

EditSelector(s) ==
    Event /\ objects[s].selector /\ WriteObjects(s, [objects[s] EXCEPT !.selector = FALSE])

CollectObjects(s) ==
    /\ \/ /\ objects[s].listener \notin {NoOwner} /\ ~Alive(s, objects[s].listener)
          /\ WriteObjects(s, [objects[s] EXCEPT !.listener = NoOwner, !.selector = FALSE])
       \/ /\ objects[s].ingress # NoOwner /\ ~Alive(s, objects[s].ingress)
          /\ WriteObjects(s, [objects[s] EXCEPT !.ingress = NoOwner])
    /\ Silent

Restart ==
    /\ faults < MaxFaults /\ faults' = faults + 1 /\ UNCHANGED events
    /\ gsCached' = gs /\ gsCurrent' = [s \in Servers |-> TRUE]
    /\ secretCached' = secret /\ secretCurrent' = TRUE
    /\ Done
    /\ hook' = [c \in Codebases |-> IF hook[c].state = "done" THEN hook[c] ELSE NoHook]
    /\ UNCHANGED <<gs, secret, objects, registered, tokens>>
-----------------------------------------------------------------------------
Steps ==
    \E o \in Outcomes :
       createEventListener(o) \/ createIngress(o) \/ updateGitServerStatus(o)

PutWebHook(c) ==
    \E o \in Outcomes : getGitServerSecret(c, o) \/ CreateWebHook(c, o)

Users == \E s \in Servers : Create(s) \/ Replace(s) \/ Delete(s) \/ RemoveIngress(s) \/ EditSelector(s)

Next ==
    \/ Steps \/ \E s \in Servers, o \in Outcomes : Reconcile(s, o)
    \/ \E c \in Codebases : PutWebHook(c)
    \/ Users \/ Restart
    \/ WatchSecret \/ CollectSecret
    \/ WatchServers \/ \E s \in Servers : CollectObjects(s)

Spec == Init /\ [][Next]_vars

\* The work queue is fair to the GitServers; everything else goes on.
Fairness ==
    /\ WF_vars(Steps)
    /\ WF_vars(WatchSecret) /\ WF_vars(CollectSecret)
    /\ WF_vars(WatchServers)
    /\ \A s \in Servers :
          /\ SF_vars(\E o \in Outcomes : Reconcile(s, o))
          /\ WF_vars(CollectObjects(s))
    /\ \A c \in Codebases : WF_vars(PutWebHook(c))

FairSpec == Spec /\ Fairness
-----------------------------------------------------------------------------
(* Properties. *)

TypeOK ==
    /\ {gs, gsCached} \subseteq [Servers -> ServerRecord]
    /\ gsCurrent \in [Servers -> BOOLEAN]
    /\ {secret, secretCached} \subseteq SecretRecord
    /\ objects \in [Servers -> ObjectRecord]
    /\ pc \in Phases /\ server \in Servers /\ {rec, oldStatus} \subseteq ServerRecord
    /\ {secretCurrent, recCurrent} \subseteq BOOLEAN
    /\ hook \in [Codebases -> HookRecord] /\ registered \in [Codebases -> Tokens]
    /\ tokens \in Tokens
    /\ events \in 0 .. MaxEvents /\ faults \in 0 .. MaxFaults

\* Every webhook that was registered has the token of the Secret, by which the
\* EventListener checks its calls: neither two Codebases that generate a token at
\* the same time nor the GitServer controller, which writes the same Secret, replace one.
TokenAgrees == \A c \in Codebases : registered[c] \in {NoToken, secret.token}

\* "Leave the secret untouched if it already has a controller owner": neither another
\* GitServer nor PutWebHook, which write whole copies from the cache, replace or lose
\* the reference by which the Secret is collected.
OwnerKept ==
    [][secret.uid # NoOwner => secret'.uid = secret.uid /\ secret'.owner = secret.owner]_vars

served(s) ==
    IF secret.exists
    THEN /\ gs[s].status = "ok"
         /\ s \in Listening => objects[s] =
               [listener |-> gs[s].uid, selector |-> TRUE, ingress |-> gs[s].uid]
    ELSE gs[s].status = "disconnected"

\* In the end every GitServer that exists has its own EventListener and Ingress and
\* says so, also when one of the same name was deleted before, or objects were
\* removed or changed by others. One whose Secret was collected with its owner says
\* that it is not connected. Every
\* Codebase of a GitServer that is served has its webhook.
EventuallyServed ==
    <>[](/\ \A s \in Servers : gs[s].exists => served(s)
         /\ \A c \in Codebases :
               gs[ServerOf[c]].exists /\ secret.exists => registered[c] # NoToken)
=============================================================================
