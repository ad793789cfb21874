-------------------------- MODULE MCDataPatches --------------------------
(***************************************************************************)
(* Model-checking instances of DataPatches.                                *)
(***************************************************************************)
EXTENDS DataPatches, TLC

AllReversible == 1 .. PatchCount

WorkerSymmetry == Permutations(Workers)
===========================================================================
