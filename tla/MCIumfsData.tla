---------------------------- MODULE MCIumfsData ----------------------------
(***************************************************************************)
(* Instances of IumfsData for TLC.                                         *)
(***************************************************************************)
EXTENDS IumfsData, TLC

Symmetry == Permutations(Threads)

OverBorder == {<<1, 2>>}          \* from one page into the next
ByPieces   == {<<0, 1>>, <<1, 3>>}
AllOfIt    == {<<0, MaxSize>>}
=============================================================================
