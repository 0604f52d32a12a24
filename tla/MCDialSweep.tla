---------------------------- MODULE MCDialSweep ----------------------------
(* Instances of DialSweep for TLC.                                          *)
EXTENDS DialSweep

\* The two pools dialled first never answer, the last is up.
TwoSilent == {[p \in Pools |-> IF p = NPools THEN "up" ELSE "silent"]}
AnyHosts == [Pools -> Behaviour]
=============================================================================
