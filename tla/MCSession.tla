----------------------------- MODULE MCSession -----------------------------
(***************************************************************************)
(* Small instances of a session for TLC: each .cfg gives the callers, the  *)
(* viewers and the program enough to do for one of the questions asked.    *)
(***************************************************************************)
EXTENDS Session, TLC

\* Holders, and numbered viewers, are interchangeable
Symmetry == Permutations(Holders) \cup Permutations(Watchers)
=============================================================================
