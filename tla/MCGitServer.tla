---------------------------- MODULE MCGitServer ----------------------------
(* Small instances of GitServer for TLC. *)
EXTENDS GitServer, TLC

CONSTANTS s1, s2, c1, c2

MCServerOf == c1 :> s1 @@ c2 :> s1
MCMaxIncarnation == s1 :> 2 @@ s2 :> 1
=============================================================================
