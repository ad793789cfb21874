--------------------------- MODULE MCSideEffects ---------------------------
(***************************************************************************)
(* An instance of SideEffects.                                             *)
(***************************************************************************)
EXTENDS SideEffects, TLC

CONSTANTS r1, r2, r3, w1, w2

TwoRecords == {1, 2}

OneEventTwoTargets == {{1, 2}}

Interchangeable ==
  Permutations(Workers) \cup Permutations(ClaimIds) \cup Permutations(FileSlots)
=============================================================================
