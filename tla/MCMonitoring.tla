---------------------------- MODULE MCMonitoring ----------------------------
(* A panel that may not answer hides the two conditions of its answer.     *)
EXTENDS Monitoring, TLC

CONSTANTS n1, xray, cpu, a1, a2

MCStatusCategories == <<xray, cpu>>
MCAdmins == <<a1, a2>>
=============================================================================
