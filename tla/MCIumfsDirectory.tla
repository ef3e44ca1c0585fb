-------------------------- MODULE MCIumfsDirectory --------------------------
(***************************************************************************)
(* Instances of IumfsDirectory for TLC.                                    *)
(***************************************************************************)
EXTENDS IumfsDirectory
=============================================================================
