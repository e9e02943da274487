------------------------------ MODULE MCFleet ------------------------------
(***************************************************************************)
(* Instances of Fleet for TLC.                                             *)
(***************************************************************************)
EXTENDS Fleet

CONSTANTS a1, a2, n1, n2, n3, loop, thread

\* a1 has two node objects, so that it can register anew while a check holds the other.
MCOwner == [n \in Nodes |-> IF n = n3 THEN a2 ELSE a1]
=============================================================================
