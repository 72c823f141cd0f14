---------------------------- MODULE MCMcpManager ----------------------------
(* Two servers, one of them enabled twice: the list of names is not a set. *)
EXTENDS McpManager

MCEnabled == <<"filesystem", "fetch", "filesystem">>
=============================================================================
