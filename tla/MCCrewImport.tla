---------------------------- MODULE MCCrewImport ----------------------------
(* Two imported operators, so that one is deleted while the other is awaited, *)
(* and a crew around them.                                                    *)
EXTENDS CrewImport
CONSTANTS k1, k2, a1
MCPlan == <<"bot", "bot", "group", "routine">>
==============================================================================
