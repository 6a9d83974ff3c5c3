---------------------------- MODULE MCStaleCheck ----------------------------
(* Small instances of StaleCheck for TLC. *)
EXTENDS StaleCheck

CONSTANTS b1, main, feature

\* The default branch is there at first, and may be removed; a CDPipeline, a quality
\* gate or nothing refers to the branch.
MCRepositories == {{main}, {main, feature}}
MCDeployments == {{}, {b1}, {feature}}
=============================================================================
