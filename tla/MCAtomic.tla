------------------------------ MODULE MCAtomic ------------------------------
(***************************************************************************)
(* A small instance of AtomicCommands for TLC.                             *)
(***************************************************************************)
EXTENDS AtomicCommands, TLC

CONSTANTS alice, n, c

MCUser    == {Admin, alice}
MCContent == {Empty, c}
=============================================================================
