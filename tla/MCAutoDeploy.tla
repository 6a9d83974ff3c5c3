---------------------------- MODULE MCAutoDeploy ----------------------------
(* Instances of AutoDeploy for TLC. *)
EXTENDS AutoDeploy

CONSTANTS d1, d2, d3, d4, d5, dev, sit, app, lib

FirstStable == [s \in Stages |-> [a \in Apps |-> 1]]
NoneTagged == [a \in Apps |-> 0]
LaterTagged == [a \in Apps |-> IF a = lib THEN 2 ELSE 1]
AppLabels == [a \in Apps |-> IF a = app THEN Stages ELSE {}]
=============================================================================
