---------------------------- MODULE MCMcpMounts -----------------------------
(* Two suites that ship copies of one server.                              *)
EXTENDS McpMounts, TLC

CONSTANTS a, b, n

MCNameOf == (a :> n) @@ (b :> n)
MCRank == (a :> 1) @@ (b :> 2)
=============================================================================
