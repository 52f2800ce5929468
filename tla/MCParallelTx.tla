----------------------------- MODULE MCParallelTx -----------------------------
(***************************************************************************)
(* ParallelTx for TLC: the threads are interchangeable.                    *)
(***************************************************************************)
EXTENDS ParallelTx

Symmetry == Permutations(Threads)
=============================================================================
