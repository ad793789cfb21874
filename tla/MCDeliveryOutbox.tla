-------------------------- MODULE MCDeliveryOutbox --------------------------
(***************************************************************************)
(* Instances of DeliveryOutbox for TLC.  One source event enqueues two     *)
(* targets.                                                                *)
(***************************************************************************)
EXTENDS DeliveryOutbox

TwoRecords == {1, 2}

OneEventTwoTargets == {{1, 2}}

=============================================================================
