-------------------------- MODULE MCCircuitBreaker --------------------------
(***************************************************************************)
(* Instances of CircuitBreaker for TLC.                                    *)
(***************************************************************************)
EXTENDS CircuitBreaker, TLC

\* The callers are interchangeable: no definition tells one from another.
CallerSymmetry == Permutations(Callers)
=============================================================================
