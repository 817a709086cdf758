------------------------------- MODULE MCNode -------------------------------
(***************************************************************************)
(* An instance of Node for TLC.                                            *)
(***************************************************************************)
EXTENDS Node

CONSTANTS k, s, z, x, y, w

MCFor     == [search \in Searches |-> k]
MCLookups == [search \in Searches |-> IF search = s THEN {x} ELSE {}]
MCKind    == [r \in Requests |-> IF r = x THEN "FIND_VALUE"
                                 ELSE IF r = w THEN "FIND_NODE" ELSE "STORE"]
=============================================================================
