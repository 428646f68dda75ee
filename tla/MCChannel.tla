----------------------------- MODULE MCChannel -----------------------------
(***************************************************************************)
(* A small instance of Channel for TLC: one channel of one device, which   *)
(* two recorded events precede.                                            *)
(***************************************************************************)
EXTENDS Channel

CONSTANTS c, phone

OwnDevice == [x \in {c} |-> phone]
Before == <<"shown", "other">>
=============================================================================
