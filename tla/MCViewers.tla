----------------------------- MODULE MCViewers -----------------------------
(***************************************************************************)
(* A small instance of a session for TLC, about its viewers.  TLC goes on  *)
(* only from states of one of two scenes: a numbered viewer comes, goes    *)
(* and resumes while the program prints and the terminal is resized        *)
(* (Stream); or two terminals are asked what the program asks while leases *)
(* come and go (Queries).                                                  *)
(***************************************************************************)
EXTENDS Session

Stream ==
    /\ granted = <<>>
    /\ \A t \in Terminals : attached[t] = 0 /\ shown[t] = <<>>
    /\ \A n \in DOMAIN printed : printed[n].ask = "text"

Queries ==
    /\ ~ replay.on
    /\ localSize = InitSize /\ size = InitSize /\ child = "running"
    /\ \A p \in Automations : pending[p] = Idle

OneScene == Stream \/ Queries
=============================================================================
