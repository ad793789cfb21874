---------------------------- MODULE MCFileService ----------------------------
(***************************************************************************)
(* FileService with interchangeable request slots.                         *)
(***************************************************************************)
EXTENDS FileService, TLC

RequestSymmetry == Permutations(Requests)
=============================================================================
