------------------------- MODULE EmailNotifications -------------------------
(***************************************************************************)
(* The outbox of one email message: queueFromDomainEvent, the delivery of  *)
(* a queued message under a claim that times out, and the recording of its *)
(* outcome.  Every message has a stream of its own, so one is enough.      *)
(***************************************************************************)
EXTENDS Naturals, FiniteSets

CONSTANTS
    Workers,            \* invocations: after-commit hooks, drains, delivery jobs
    RequestBound,       \* bounds of the environment
    ExpiryBound,
    FaultBound

VARIABLES
    record,             \* the fold of the message's stream
    version,            \* and its length
    request,            \* where each invocation is, and what it has read
    issued,             \* claims given out
    expired,            \* claims older than the timeout
    accepted,           \* claims whose mail the provider took
    started, faults,    \* requests and faults so far
    overlapped          \* two requests were under way at the same time

outbox == <<record, version, issued>>
world == <<expired, accepted>>
counters == <<started, faults, overlapped>>
vars == <<outbox, world, request, counters>>

NoRecord == [status |-> "none", claim |-> 0]

Idle == [op |-> "queue", pc |-> "idle", version |-> 0, event |-> "none", claim |-> 0]

Init ==
    /\ record = NoRecord
    /\ version = 0
    /\ request = [w \in Workers |-> Idle]
    /\ issued = 0
    /\ expired = {}
    /\ accepted = {}
    /\ started = 0
    /\ faults = 0
    /\ overlapped = FALSE

At(w, pc) == request[w].pc = pc
Goto(w, pc) == request' = [request EXCEPT ![w].pc = pc]
End(w) == request' = [request EXCEPT ![w] = Idle]

-----------------------------------------------------------------------------
\* The events of the stream and what the fold makes of them.  A queued or
\* skipped event replaces whatever was there; a claim is ignored on a message
\* that is done, a completion unless its claim is the active one.
foldEmailOutbox(r, event, claim) ==
    CASE event \in {"queued", "skipped"} -> [status |-> event, claim |-> 0]
      [] event = "claimed" ->
           IF r.status \in {"none", "skipped", "sent"} THEN r
           ELSE [status |-> "claimed", claim |-> claim]
      [] event \in {"sent", "failed"} ->
           IF r.status = "claimed" /\ r.claim = claim THEN [r EXCEPT !.status = event] ELSE r

isStaleEmailClaim(r) == r.claim \in expired

\* Mutant: a message that was sent is delivered again.
DeliverableWhenSent(r) ==
    /\ r.status \notin {"none", "skipped"}
    /\ r.status = "claimed" => isStaleEmailClaim(r)

\* deliverOutboxMessage and claimOutboxMessage go on with this record.
Deliverable(r) ==
    /\ r.status \notin {"none", "sent", "skipped"}
    /\ r.status = "claimed" => isStaleEmailClaim(r)

\* What an append of this request's event would write.
Store(w) ==
    LET claim == IF request[w].event = "claimed" THEN issued + 1 ELSE request[w].claim
    IN  /\ record' = foldEmailOutbox(record, request[w].event, claim)
        /\ version' = version + 1
        /\ issued' = IF request[w].event = "claimed" THEN issued + 1 ELSE issued

-----------------------------------------------------------------------------
\* A hook or an outbox handler queues the messages of an event, or queues and
\* delivers them; a delivery job, or its retry, delivers one.
Start(w, op) ==
    /\ At(w, "idle")
    /\ started < RequestBound
    /\ request' = [request EXCEPT ![w].op = op,
                                  ![w].pc = IF op = "deliver" THEN "load" ELSE "lookup"]
    /\ started' = started + 1
    /\ overlapped' = (overlapped \/ \E v \in Workers \ {w} : ~At(v, "idle"))
    /\ UNCHANGED <<outbox, world, faults>>

\* The state is read; a message that exists is left as it is.
Lookup(w) ==
    /\ At(w, "lookup")
    /\ IF record.status = "none" THEN Goto(w, "resolve")
       ELSE IF request[w].op = "send" THEN Goto(w, "load")
       ELSE End(w)
    /\ UNCHANGED <<outbox, world, counters>>

\* emailForUser finds an address or none.
Resolve(w) ==
    /\ At(w, "resolve")
    /\ \E event \in {"queued", "skipped"} :
         request' = [request EXCEPT ![w].pc = "version", ![w].event = event]
    /\ UNCHANGED <<outbox, world, counters>>

\* The record is read and the message is found deliverable, or the call ends.
Load(w) ==
    /\ At(w, "load")
    /\ IF Deliverable(record)
       THEN request' = [request EXCEPT ![w].pc = "version", ![w].event = "claimed"]
       ELSE End(w)
    /\ UNCHANGED <<outbox, world, counters>>

\* append reads the state once more, and expects the version it finds now.
ReadVersion(w) ==
    /\ At(w, "version")
    /\ request' = [request EXCEPT ![w].pc = "append", ![w].version = version]
    /\ UNCHANGED <<outbox, world, counters>>

\* appendClaimCompletion goes on only while its claim is the active one.
ReadClaim(w) ==
    /\ At(w, "completion")
    /\ IF record = [status |-> "claimed", claim |-> request[w].claim]
       THEN request' = [request EXCEPT ![w].pc = "append", ![w].version = version]
       ELSE End(w)
    /\ UNCHANGED <<outbox, world, counters>>

Append(w) ==
    /\ At(w, "append")
    /\ request[w].version = version
    /\ Store(w)
    /\ \/ /\ request[w].event \in {"queued", "skipped"}
          /\ IF request[w].op = "send" THEN Goto(w, "load") ELSE End(w)
       \/ /\ request[w].event = "claimed"
          /\ request' = [request EXCEPT ![w].pc = "provider", ![w].claim = issued']
       \/ /\ request[w].event \in {"sent", "failed"}
          /\ End(w)
    /\ UNCHANGED <<world, counters>>

\* A conflict ends a claim and a completion without a word, and the queueing
\* with an error.
AppendConflict(w) ==
    /\ At(w, "append")
    /\ request[w].version # version
    /\ End(w)
    /\ UNCHANGED <<outbox, world, counters>>

Answered(w, event) == request' = [request EXCEPT ![w].pc = "completion", ![w].event = event]

SendAccepted(w) ==
    /\ At(w, "provider")
    /\ accepted' = accepted \cup {request[w].claim}
    /\ Answered(w, "sent")
    /\ UNCHANGED <<outbox, expired, counters>>

SendRejected(w) ==
    /\ At(w, "provider")
    /\ Answered(w, "failed")
    /\ UNCHANGED <<outbox, world, counters>>

\* claimTimeoutMs pass since the active claim.
ClaimTimesOut ==
    /\ record.status = "claimed"
    /\ ~isStaleEmailClaim(record)
    /\ Cardinality(expired) < ExpiryBound
    /\ expired' = expired \cup {record.claim}
    /\ UNCHANGED <<outbox, accepted, request, counters>>

-----------------------------------------------------------------------------
Fault == faults < FaultBound /\ faults' = faults + 1 /\ UNCHANGED <<started, overlapped>>

\* The invocation dies, or a call of the store fails.
Dies(w) ==
    /\ ~At(w, "idle")
    /\ Fault
    /\ End(w)
    /\ UNCHANGED <<outbox, world>>

\* The append took place but its answer is lost.
AppendUnanswered(w) ==
    /\ At(w, "append")
    /\ request[w].version = version
    /\ Fault
    /\ Store(w)
    /\ End(w)
    /\ UNCHANGED world

\* The provider took the mail, but the call throws.
SendUnanswered(w) ==
    /\ At(w, "provider")
    /\ Fault
    /\ accepted' = accepted \cup {request[w].claim}
    /\ Answered(w, "failed")
    /\ UNCHANGED <<outbox, expired>>

Next ==
    \/ ClaimTimesOut
    \/ \E w \in Workers :
         \/ \E op \in {"queue", "send", "deliver"} : Start(w, op)
         \/ Lookup(w) \/ Resolve(w) \/ Load(w) \/ ReadVersion(w) \/ ReadClaim(w)
         \/ Append(w) \/ AppendConflict(w)
         \/ SendAccepted(w) \/ SendRejected(w)
         \/ Dies(w) \/ AppendUnanswered(w) \/ SendUnanswered(w)

Spec == Init /\ [][Next]_vars

-----------------------------------------------------------------------------
(***************************************************************************)
(* The outbox tells the truth about mails: a message recorded as sent was  *)
(* taken by the provider under the claim it names, one recorded as failed  *)
(* was not unless the provider's answer was lost, and a mail goes out more *)
(* than once only if deliveries overlapped, a claim timed out or something *)
(* failed; requests in turn send it once.                                  *)
(***************************************************************************)
MailsAccounted ==
    /\ record.status = "sent" => record.claim \in accepted
    /\ record.status = "failed" /\ faults = 0 => record.claim \notin accepted
    /\ Cardinality(accepted) > 1 => overlapped \/ expired # {} \/ faults > 0

(***************************************************************************)
(* What a test says of the claim: concurrent deliveries send a message     *)
(* only once, as long as no claim times out and nothing fails.             *)
(***************************************************************************)
SendsOnce == expired = {} /\ faults = 0 => Cardinality(accepted) <= 1
=============================================================================
