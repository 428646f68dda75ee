----------------------------- MODULE MCDaemon -----------------------------
(***************************************************************************)
(* Instances of Daemon for TLC.                                            *)
(***************************************************************************)
EXTENDS Daemon

\* One client is a build behind the others, as when an update landed under an app left open.
TwoBuilds == [c \in Clients |-> IF c = "old" THEN 2 ELSE 3]
===========================================================================
