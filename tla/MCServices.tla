----------------------------- MODULE MCServices -----------------------------
(***************************************************************************)
(* An instance of Services.                                                *)
(***************************************************************************)
EXTENDS Services, TLC

CONSTANTS w1, w2, document, value, l1, p

LastTwo == {PatchCount - 1, PatchCount}

\* A provider that sets and vouches for an address, or disables the account.
ProviderPatches == {[email |-> "b", emailVerified |-> TRUE, enabled |-> FALSE]}

Interchangeable == Permutations(Actors)
=============================================================================
