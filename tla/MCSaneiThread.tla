---------------------------- MODULE MCSaneiThread ----------------------------
(***************************************************************************)
(* SaneiThread for TLC.                                                    *)
(***************************************************************************)
EXTENDS SaneiThread, TLC

\* Tasks are only compared: any permutation of them is the same run.
TaskSymmetry == Permutations(Tasks)
=============================================================================
