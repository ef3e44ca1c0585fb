--------------------------- MODULE MCIumfsRequest ---------------------------
(* Instances of IumfsRequest for TLC: the threads of a kind are alike. *)
EXTENDS IumfsRequest, TLC

Symmetry == Permutations(Threads) \cup Permutations(Daemons)
=============================================================================
