----------------------------- MODULE StageQueue -----------------------------
(***************************************************************************)
(* What auto-deployment promises: every request to deploy to a stage is    *)
(* worked on at most once, a stage works on one request at a time, and a   *)
(* request is closed when its work is complete, unless its owner withdraws *)
(* it or there is nothing to do for it.                                    *)
(***************************************************************************)
CONSTANTS Requests, Stages,
          Idle,         \* the stages where there is nothing to do
          Withdrawable  \* the requests their owners may withdraw

VARIABLES request,      \* "absent", "open" or "closed"
          stage,        \* the stage a request is for
          work          \* "none", "active" or "complete"

vars == <<request, stage, work>>

Init ==
    /\ request = [r \in Requests |-> "absent"]
    /\ stage \in [Requests -> Stages]
    /\ work = [r \in Requests |-> "none"]

Open(r, s) ==
    /\ request[r] = "absent"
    /\ request' = [request EXCEPT ![r] = "open"]
    /\ stage' = [stage EXCEPT ![r] = s]
    /\ UNCHANGED work

\* A request that was withdrawn a moment ago may still be started.
Start(r) ==
    /\ request[r] # "absent" /\ work[r] = "none" /\ stage[r] \notin Idle
    /\ \A q \in Requests : stage[q] = stage[r] => work[q] # "active"
    /\ work' = [work EXCEPT ![r] = "active"]
    /\ UNCHANGED <<request, stage>>

Complete(r) ==
    /\ work[r] = "active"
    /\ work' = [work EXCEPT ![r] = "complete"]
    /\ UNCHANGED <<request, stage>>

Close(r) ==
    /\ request[r] = "open"
    /\ work[r] = "complete" \/ stage[r] \in Idle
    /\ request' = [request EXCEPT ![r] = "closed"]
    /\ UNCHANGED <<stage, work>>

Withdraw(r) ==
    /\ r \in Withdrawable /\ request[r] = "open"
    /\ request' = [request EXCEPT ![r] = "closed"]
    /\ UNCHANGED <<stage, work>>

Next ==
    \/ \E r \in Requests, s \in Stages : Open(r, s)
    \/ \E r \in Requests : Start(r) \/ Complete(r) \/ Close(r) \/ Withdraw(r)

Spec == Init /\ [][Next]_vars

\* Every open request gets its turn, and its work is completed and closed.
Fairness ==
    \A r \in Requests :
        /\ SF_vars(request[r] = "open" /\ Start(r))
        /\ WF_vars(Complete(r))
        /\ WF_vars(Close(r))

FairSpec == Spec /\ Fairness
=============================================================================
