------------------------------- MODULE MCAccess -------------------------------
(***************************************************************************)
(* One user with a token of the app and one that another client got.       *)
(***************************************************************************)
EXTENDS Access

CONSTANTS u1

MCUserOf == [t \in Tokens |-> u1]
===============================================================================
