---------------------------- MODULE MCLspMounts -----------------------------
(* A server of a suite and one of the user's table, which claim one extension. *)
EXTENDS LspMounts, TLC

CONSTANTS suite, table, ts

MCExtensionOf == (suite :> ts) @@ (table :> ts)
MCRank == (suite :> 1) @@ (table :> 2)
=============================================================================
