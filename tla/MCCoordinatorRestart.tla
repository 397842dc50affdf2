------------------------- MODULE MCCoordinatorRestart -------------------------
(* Finite instances of CoordinatorRestart for TLC. *)
EXTENDS CoordinatorRestart, TLC

CONSTANTS t1, t2

NoCouplings == {}
MCCouplings == {<<1, 2>>}
\* Domain 1 may be a child of 2, which is loaded after it.
MCParents == {<<1, 2>>}

MCSymmetry == Permutations(Threads)
===============================================================================
