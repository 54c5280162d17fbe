------------------------------ MODULE MCAlerts ------------------------------
(* One shelf and one bill, the worker and one more evaluation.             *)
EXTENDS Alerts

MCTotal == [s \in Bills |-> 2]
MCAtCounter == [s \in Bills |-> 1]
=============================================================================
