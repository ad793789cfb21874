-------------------------- MODULE DeliveryLifecycle --------------------------
(***************************************************************************)
(* What the delivery outbox promises about each record, with no stream, no *)
(* checkpoints and no workers: a record is enqueued once, claimed when it  *)
(* is pending or failed, and delivered or failed by the claim that holds   *)
(* it.  Delivered is terminal.                                             *)
(***************************************************************************)
EXTENDS Naturals

CONSTANTS Records, ClaimIds, NoClaim

VARIABLE record

Absent == [status |-> "absent", attempts |-> 0, claim |-> NoClaim]

Init == record = [id \in Records |-> Absent]

\* One domain event enqueues all of its targets that are new, in one commit.
Enqueue(S) ==
  /\ \A id \in S : record[id] = Absent
  /\ record' = [id \in Records |->
                  IF id \in S THEN [Absent EXCEPT !.status = "pending"]
                  ELSE record[id]]

\* One drain claims several records in one commit, each for one more attempt.
Claim(S, claimId) ==
  /\ \A id \in S : record[id].status \in {"pending", "failed"}
  /\ record' = [id \in Records |->
                  IF id \in S
                  THEN [status |-> "claimed",
                        attempts |-> record[id].attempts + 1,
                        claim |-> claimId]
                  ELSE record[id]]

\* The claim that holds the record ends it, for good or until a retry.
Complete(id, status) ==
  /\ record[id].status = "claimed"
  /\ record' = [record EXCEPT ![id].status = status]

Next ==
  \/ \E S \in SUBSET Records : Enqueue(S)
  \/ \E S \in SUBSET Records, claimId \in ClaimIds : Claim(S, claimId)
  \/ \E id \in Records : Complete(id, "delivered")
  \/ \E id \in Records : Complete(id, "failed")

Spec == Init /\ [][Next]_record

=============================================================================
