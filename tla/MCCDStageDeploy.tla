-------------------------- MODULE MCCDStageDeploy --------------------------
(* Instances of CDStageDeploy for TLC. *)
EXTENDS CDStageDeploy

CONSTANTS d1, d2, d3, dev, sit, app, lib

NoStable == [s \in Stages |-> [a \in Apps |-> 0]]
LibStable == [s \in Stages |-> [a \in Apps |-> IF a = lib THEN 1 ELSE 0]]
AllTagged == [a \in Apps |-> 1]
AppTagged == [a \in Apps |-> IF a = app THEN 1 ELSE 0]
=============================================================================
