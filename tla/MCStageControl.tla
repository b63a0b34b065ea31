-------------------------- MODULE MCStageControl --------------------------
(* Values of the constants of StageControl for the model checker: a stage   *)
(* whose config has a two-word parameter, written and read by one command,  *)
(* and whose second word also has a command of its own.                     *)
EXTENDS StageControl

MCWords == {"b0", "b1"}
MCCommands == {"coeffs", "shift"}
MCCmdWords == [k \in MCCommands |-> IF k = "coeffs" THEN MCWords ELSE {"b1"}]
MCNoWords == {}
MCValues == {0, 1}
=============================================================================
