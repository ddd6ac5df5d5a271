-------------------------- MODULE MCToolExecution --------------------------
(***************************************************************************)
(* Constants of ToolExecution for TLC.                                     *)
(***************************************************************************)
EXTENDS ToolExecution

CONSTANTS i1, i2, tool, agent

MCInstances == {i1, i2}
MCCalls == {tool, agent}
MCTool == {tool}
=============================================================================
