------------------------- MODULE MCProjectionRebuild -------------------------
(***************************************************************************)
(* ProjectionRebuild with interchangeable drivers.                         *)
(***************************************************************************)
EXTENDS ProjectionRebuild, TLC

CONSTANTS a, b

DriverSymmetry == Permutations(Drivers)
=============================================================================
