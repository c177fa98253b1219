------------------------------- MODULE MCCron -------------------------------
(* Instances of Cron for TLC: one or two versions that declare the same      *)
(* expression. Its last slot lies beyond the end of time and is never        *)
(* reached.                                                                  *)
EXTENDS Cron, TLC

CONSTANTS v1, v2, hourly

MCVersions == {v1, v2}
OneVersion == {v1}
MCExprs == {hourly}
MCDeclares == [v \in Versions |-> {hourly}]
MCSlots == [e \in MCExprs |-> {1, 2, 99}]
MCRetryDelay == [i \in 1..4 |-> i]
Symmetry == Permutations(Versions)
=============================================================================
