--------------------------- MODULE MCToolWatchdog ---------------------------
EXTENDS ToolWatchdog

(* The pause checker and the ceiling, each installed or not; every tool.     *)
MCConfigs == [pause : BOOLEAN, ceiling : BOOLEAN]
MCBehaviours == {"returns", "cooperative", "stuck"}
=============================================================================
