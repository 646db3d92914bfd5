-------------------------- MODULE MCEncryptDecrypt --------------------------
(***************************************************************************)
(* Contents whose bytes are all different, of the lengths around one, two  *)
(* and three chunks, with the sizes the code has.                          *)
(***************************************************************************)
EXTENDS EncryptDecrypt

Lengths == {0, 1, 2, 50, 99, 100, 101, 150, 199, 200, 201, 299, 300, 301}

MCByte == 1 .. 301
MCFile == {[b \in 1 .. length |-> b] : length \in Lengths}
=============================================================================
