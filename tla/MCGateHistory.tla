---------------------------- MODULE MCGateHistory ----------------------------
(* The small instances of IssueWorkflow, with the history of gates.            *)
EXTENDS GateHistory, MCIssueWorkflow

=============================================================================
