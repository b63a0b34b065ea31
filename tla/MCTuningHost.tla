----------------------------- MODULE MCTuningHost -----------------------------
(* A stage with a parameter it reads late and a level of its own, which can    *)
(* only be read, behind another stage with a parameter.                        *)
EXTENDS TuningHost

MCCommands == {"filter"}
MCWords == {"filter", "level"}
MCCmdWords == [k \in MCCommands |-> {k}]
MCDynamic == {"level"}
MCLate == {"filter"}
MCOrder == <<"filter", "elsewhere">>
MCSettings == [k \in {"filter", "elsewhere"} |-> IF k = "filter" THEN {0, 1} ELSE {0, Malformed}]
MCValues == {0, 1}
===============================================================================
