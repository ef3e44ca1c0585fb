---------------------------- MODULE MCIumfsNodes ----------------------------
(***************************************************************************)
(* Instances of IumfsNodes for TLC.                                        *)
(***************************************************************************)
EXTENDS IumfsNodes, TLC

CONSTANTS a, d    \* the names used

Symmetry == Permutations(Threads)

OneFile     == <<a>> :> "file"
DirWithFile == (<<a>> :> "dir") @@ (<<a, a>> :> "file")
FileTree    == (<<a>> :> "file") @@ (<<d>> :> "file")
EmptyDir    == <<a>> :> "dir"
=============================================================================
