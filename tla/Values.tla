------------------------------- MODULE Values -------------------------------
(***************************************************************************)
(* The value that stands for what is not there, shared by the modules that *)
(* MCEdge and MCPlatform put together.                                     *)
(***************************************************************************)
CONSTANT None
=============================================================================
