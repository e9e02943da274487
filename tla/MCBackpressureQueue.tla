------------------------ MODULE MCBackpressureQueue ------------------------
(***************************************************************************)
(* Instances of BackpressureQueue for TLC.                                 *)
(***************************************************************************)
EXTENDS BackpressureQueue, TLC

\* The threads are interchangeable: no definition tells one from another.
ThreadSymmetry == Permutations(Threads)
=============================================================================
