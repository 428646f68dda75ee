------------------------------ MODULE MCSmoke ------------------------------
(***************************************************************************)
(* Small instances of Smoke for TLC: a file that two tests follow each     *)
(* other in, one that starts a server in its setup and one that asks a     *)
(* person.                                                                 *)
(***************************************************************************)
EXTENDS Smoke

In(phase, kind) == [phase |-> phase, kind |-> kind]

Served == <<In("setup", "start"), In("steps", "work"), In("teardown", "work")>>
Asked == <<In("steps", "browser"), In("steps", "manual"), In("teardown", "manual")>>

Two == [v1 |-> Served, v2 |-> Asked]
=============================================================================
