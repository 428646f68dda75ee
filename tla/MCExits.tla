------------------------------ MODULE MCExits ------------------------------
(***************************************************************************)
(* Small instances of Exits for TLC.                                       *)
(***************************************************************************)
EXTENDS Exits, TLC

\* Launches are interchangeable, and so are conversations.
Symmetry == Permutations(Ptys) \cup Permutations(Records)
=============================================================================
