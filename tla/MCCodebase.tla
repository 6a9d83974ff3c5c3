----------------------------- MODULE MCCodebase -----------------------------
(* Small instances of Codebase for TLC. *)
EXTENDS Codebase
=============================================================================
