--------------------------- MODULE MCJobExecution ---------------------------
(***************************************************************************)
(* An instance of JobExecution.  All races are between deliveries of one   *)
(* key, so there is one; one operator retries it.                          *)
(***************************************************************************)
EXTENDS JobExecution
=============================================================================
