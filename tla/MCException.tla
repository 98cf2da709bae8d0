----------------------------- MODULE MCException -----------------------------
(* Model values of Exception: threads are interchangeable, depths below    *)
(* zero need a definition.                                                 *)
EXTENDS Exception, TLC

MCDepths   == {-1, 0, 1, 4}
MCSymmetry == Permutations(Threads)
=============================================================================
