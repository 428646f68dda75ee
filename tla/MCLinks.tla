------------------------------ MODULE MCLinks ------------------------------
(***************************************************************************)
(* A small instance of Links for TLC.                                      *)
(***************************************************************************)
EXTENDS Links

Thrice == 1 .. 3
=============================================================================
