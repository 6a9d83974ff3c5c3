------------------------- MODULE CodebaseLifecycle -------------------------
(***************************************************************************)
(* Abstract: what a Codebase promises to those that depend on it, and all  *)
(* that a CodebaseBranch relies on.  Its project is pushed once and stays; *)
(* only then is it available, and every reconcile takes that back for a    *)
(* while; it is deleted for good.  Module Codebase implements this, module *)
(* CodebaseBranch is composed with it.                                     *)
(***************************************************************************)

VARIABLE codebase

\* "new": there is no project; "busy": there is one, the Codebase is not available.
CodebaseStates == {"new", "busy", "available", "gone"}

\* An imported project is there from the beginning.
Init == codebase \in {"new", "busy"}

Pushed == codebase = "new" /\ codebase' = "busy"
Available == codebase = "busy" /\ codebase' = "available"
Busy == codebase = "available" /\ codebase' = "busy"
Deleted == codebase # "gone" /\ codebase' = "gone"

Next == Pushed \/ Available \/ Busy \/ Deleted

Spec == Init /\ [][Next]_codebase
=============================================================================
