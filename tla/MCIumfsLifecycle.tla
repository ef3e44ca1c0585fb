-------------------------- MODULE MCIumfsLifecycle --------------------------
(***************************************************************************)
(* Instances of IumfsLifecycle for TLC.                                    *)
(***************************************************************************)
EXTENDS IumfsLifecycle, TLC

Symmetry == Permutations(Threads) \cup Permutations(Mounts)
=============================================================================
