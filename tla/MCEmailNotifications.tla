------------------------ MODULE MCEmailNotifications ------------------------
(***************************************************************************)
(* Model-checking instance of EmailNotifications.                          *)
(***************************************************************************)
EXTENDS EmailNotifications, TLC

WorkerSymmetry == Permutations(Workers)
=============================================================================
