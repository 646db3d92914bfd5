----------------------------- MODULE MCCommands -----------------------------
(***************************************************************************)
(* The command objects on the instances of MCCLI.                          *)
(***************************************************************************)
EXTENDS MCCLI, Commands
=============================================================================
