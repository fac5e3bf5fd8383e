---------------------------- MODULE MCSharedQueue ----------------------------
(***************************************************************************)
(* SharedQueue for TLC.  The ring is small enough that it fills, empties   *)
(* and wraps around several times within the bound on pushes.              *)
(***************************************************************************)
EXTENDS SharedQueue, TLC

LoaderSymmetry == Permutations(Loaders)
=============================================================================
