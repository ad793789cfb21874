--------------------------- MODULE DeliveryOutbox ---------------------------
(***************************************************************************)
(* The document delivery outbox of one tenant: the event stream that every *)
(* after-commit delivery intent is appended to, the workers that enqueue   *)
(* into it and drain it, and the compaction checkpoints that let state()   *)
(* resume from the middle of the stream.                                   *)
(*                                                                         *)
(* A worker is one running invocation (a hook, a queue message, a cron     *)
(* tick) of application/document-delivery-outbox-service.ts and            *)
(* -consumer.ts.  Every await on the event store is a step of its own, so  *)
(* two workers interleave between the reads of one state() and between a   *)
(* state() and the append planned from it.                                 *)
(*                                                                         *)
(* Outbox ids (`<sourceEventId>:<target>`) are natural numbers, numbered   *)
(* in the order (enqueuedAt, id) in which they are claimed.                *)
(***************************************************************************)
EXTENDS Naturals, FiniteSets, Sequences

CONSTANTS
  Records,            \* the outbox ids that can be enqueued
  SourceEvents,       \* what one domain event enqueues: a set of sets of ids
  Workers,
  ClaimIds,           \* claim ids; two drains may be given the same one
  NoClaim,
  ClaimLimit,         \* documentDeliveryOutboxClaimLimit
  MaxAppendAttempts,  \* MAX_OUTBOX_APPEND_ATTEMPTS (5 in the code)
  CarryOverLimit,     \* DOCUMENT_DELIVERY_OUTBOX_CHECKPOINT_CARRY_OVER_LIMIT
  StreamBound,        \* bound: no call starts once the stream is this long
  FaultBound,         \* bound: crashes and store errors
  FailureBound        \* bound: failing handler runs of one record

\* The sentinel documentName "__checkpoint", which no outbox id can take.
CheckpointName == 0

ASSUME RecordsAssumption ==
  Records \subseteq Nat \ {CheckpointName} /\ IsFiniteSet(Records)
ASSUME SourceEventsAssumption == SourceEvents \subseteq SUBSET Records
ASSUME NoClaimAssumption == NoClaim \notin ClaimIds
ASSUME LimitsAssumption ==
  /\ ClaimLimit \in Nat \ {0}
  /\ MaxAppendAttempts \in Nat \ {0}
  /\ CarryOverLimit \in Nat
  /\ StreamBound \in Nat
  /\ FaultBound \in Nat
  /\ FailureBound \in Nat

VARIABLES
  stream,     \* the tenant's outbox stream; an event's sequence is its index
  pc,         \* what each worker does next
  call,       \* the service call it is in, with its arguments
  local,      \* what state() and the plan have read in this attempt
  runs,       \* observer: how often a handler was run for each record
  completed,  \* observer: the <<id, claim id>> whose handler returned
  faults      \* faults so far, against FaultBound

vars == <<stream, pc, call, local, runs, completed, faults>>

-----------------------------------------------------------------------------
(* Events and folds.                                                       *)

RecordEvent(kind, id, claimId) ==
  [kind |-> kind, id |-> id, claim |-> claimId, upTo |-> 0, carry |-> {}]

CheckpointEvent(upToSequence, carryOver) ==
  [kind |-> "Checkpointed", id |-> CheckpointName, claim |-> NoClaim,
   upTo |-> upToSequence, carry |-> carryOver]

\* A Map without the id, or a fold that returns null.
Absent == [status |-> "absent", attempts |-> 0, claim |-> NoClaim]

\* The switch that both folds make on an event of the record.  The fold of one
\* record keeps a delivered record; the fold of the working set lets it leave.
Apply(view, record, event) ==
  CASE event.kind = "Enqueued" ->
         [status |-> "pending", attempts |-> 0, claim |-> NoClaim]
    [] event.kind = "Claimed" /\ record # Absent ->
         [status |-> "claimed", attempts |-> record.attempts + 1,
          claim |-> event.claim]
    [] event.kind = "Delivered" ->
         IF view = "record" /\ record # Absent
         THEN [record EXCEPT !.status = "delivered", !.claim = event.claim]
         ELSE Absent
    [] event.kind = "Failed" /\ record # Absent ->
         [record EXCEPT !.status = "failed", !.claim = event.claim]
    [] OTHER -> record

\* The entry of `id` after each sequence of the log, from `initial` at `lo`.
Fold(view, initial, log, id, lo) ==
  LET fold[i \in 0..Len(log)] ==
        IF i <= lo THEN initial
        ELSE IF log[i].id = id THEN Apply(view, fold[i - 1], log[i])
        ELSE fold[i - 1]
  IN  fold

\* foldDocumentDeliveryOutboxRecordFrom and foldDocumentDeliveryOutboxFrom.
RecordFold(initial, log, id, lo) == Fold("record", initial, log, id, lo)
WorkingSetFold(initial, log, id, lo) ==
  Fold("workingSet", initial, log, id, lo)

\* record(): what the record's own events say, delivered included.
Record(id) == RecordFold(Absent, stream, id, 0)[Len(stream)]

\* The working set a fold of the first n events gives.
WorkingSetAt(n) ==
  [id \in Records |-> WorkingSetFold(Absent, stream, id, 0)[n]]

InFlight(set) == {id \in Records : set[id] # Absent}

Enqueued(id) == \E i \in 1..Len(stream) : stream[i].id = id

\* readDocumentEvents(documentName = "__checkpoint", order desc, limit 1).
CheckpointsAt(n) == {i \in 1..n : stream[i].kind = "Checkpointed"}
LastCheckpoint ==
  CHOOSE i \in CheckpointsAt(Len(stream)) :
    \A j \in CheckpointsAt(Len(stream)) : j <= i

\* The record a drain works on: it delivers in claim order.
Current(w) ==
  CHOOSE id \in call[w].todo : \A other \in call[w].todo : id <= other

\* The sequences that append one event per id of S, in claim order.
InOrder(S) ==
  {f \in [1..Cardinality(S) -> S] :
     /\ \A i, j \in 1..Cardinality(S) : i < j => f[i] < f[j]
     /\ \A id \in S : \E i \in 1..Cardinality(S) : f[i] = id}

EventPerId(kind, S, claimId) ==
  {[i \in 1..Cardinality(S) |-> RecordEvent(kind, f[i], claimId)] :
     f \in InOrder(S)}

-----------------------------------------------------------------------------
(* Control flow shared by the operations.                                  *)

\* The variables of one attempt before anything is read:
\*   base     the sequence the fold resumes after (0: from the start)
\*   unread   reads of a Promise.all that have not returned yet
\*   carried  the records rehydrated from the checkpoint
\*   version, records   what state() returned
\*   found    the ids of an enqueue that already have an event
NoLocals ==
  [base |-> 0, unread |-> {}, carried |-> [id \in Records |-> Absent],
   version |-> 0, records |-> [id \in Records |-> Absent], found |-> {}]

\* A call: the operation, appendWithRetry's 1-based attempt, the ids to
\* enqueue, the claim id, and the claimed ids the drain has not finished.
NoCall == [op |-> "none", attempt |-> 0, ids |-> {}, claim |-> NoClaim,
           todo |-> {}]

Op(w) == call[w].op

\* Leave what this attempt has read, and go on at `place` in the call `next`.
Leave(w, place, next) ==
  /\ pc' = [pc EXCEPT ![w] = place]
  /\ call' = [call EXCEPT ![w] = next]
  /\ local' = [local EXCEPT ![w] = NoLocals]

\* Enter an attempt of appendWithRetry: state() starts with the checkpoint.
StartAttempt(w, op, n) ==
  Leave(w, "checkpoint", [call[w] EXCEPT !.op = op, !.attempt = n])

EndCall(w) == Leave(w, "idle", NoCall)

\* drain's loop: the handler of the next claimed record, or the end.
NextRecord(w, left) ==
  IF left = {} THEN EndCall(w)
  ELSE Leave(w, "handler", [NoCall EXCEPT !.claim = call[w].claim,
                                          !.todo = left])

\* An exception leaves the service call.  deliver() catches what markDelivered
\* throws and calls markFailed; nothing catches the others, and what the
\* drain had left to do stays claimed.
Throw(w) ==
  IF Op(w) = "deliver" THEN StartAttempt(w, "fail", 1) ELSE EndCall(w)

\* Mutant: the drain's loop does not move past the record it finished.
ReturnToSameRecord(w) ==
  IF Op(w) \in {"deliver", "fail"} THEN NextRecord(w, call[w].todo)
  ELSE EndCall(w)

\* A service call returned.
Return(w) ==
  IF Op(w) \in {"deliver", "fail"}
  THEN NextRecord(w, call[w].todo \ {Current(w)})
  ELSE EndCall(w)

Init ==
  /\ stream = <<>>
  /\ pc = [w \in Workers |-> "idle"]
  /\ call = [w \in Workers |-> NoCall]
  /\ local = [w \in Workers |-> NoLocals]
  /\ runs = [id \in Records |-> 0]
  /\ completed = {}
  /\ faults = 0

\* A call on an idle worker starts its first attempt.
Call(w, next) ==
  /\ pc[w] = "idle"
  /\ Len(stream) < StreamBound
  /\ Leave(w, "checkpoint", next)
  /\ UNCHANGED <<stream, runs, completed, faults>>

\* enqueueFromDomainEvent, from an after-commit hook that may run twice.
StartEnqueue(w, targets) ==
  /\ targets # {}
  /\ Call(w, [NoCall EXCEPT !.op = "enqueue", !.attempt = 1,
                            !.ids = targets])

\* drain(): claimPending under a claim id, drawn or supplied by the job.
StartDrain(w, claimId) ==
  Call(w, [NoCall EXCEPT !.op = "claim", !.attempt = 1, !.claim = claimId])

\* markDelivered once more, for a delivery whose handler has returned: the
\* consumer was handed the same message twice.
StartRedelivery(w, id, claimId) ==
  /\ <<id, claimId>> \in completed
  /\ Call(w, [NoCall EXCEPT !.op = "redeliver", !.attempt = 1,
                            !.claim = claimId, !.todo = {id}])

-----------------------------------------------------------------------------
(* state(): three kinds of read, each at its own moment.                   *)

Store(w, value) == local' = [local EXCEPT ![w] = value]

Unchanging == UNCHANGED <<stream, runs, completed, faults>>

\* lastCheckpoint, and the carried ids whose histories are to be read.
ReadCheckpoint(w) ==
  LET present == CheckpointsAt(Len(stream)) # {}
      carry == IF present THEN stream[LastCheckpoint].carry ELSE {}
  IN  /\ pc[w] = "checkpoint"
      /\ Store(w, [local[w] EXCEPT
                     !.base = IF present THEN stream[LastCheckpoint].upTo
                              ELSE 0,
                     !.unread = carry])
      /\ pc' = [pc EXCEPT ![w] = IF carry = {} THEN "tail" ELSE "carried"]
      /\ UNCHANGED call
      /\ Unchanging

\* Mutant: carried records enter with their whole history folded, and the
\* tail replays its part once more.
ReadWholeHistory(w, id) ==
  LET current == Record(id)
      left == local[w].unread \ {id}
  IN  /\ pc[w] = "carried"
      /\ id \in local[w].unread
      /\ Store(w, [local[w] EXCEPT
                     !.carried[id] =
                        IF current.status = "delivered" THEN Absent
                        ELSE current,
                     !.unread = left])
      /\ pc' = [pc EXCEPT ![w] = IF left = {} THEN "tail" ELSE "carried"]
      /\ UNCHANGED call
      /\ Unchanging

\* carriedOverRecords, for the history of one carried id.  The record enters
\* as it was at the checkpoint, unless its full history says it is delivered.
\* A carried id without events at or below the checkpoint: fold everything.
ReadHistory(w, id) ==
  LET upTo == local[w].base
      atCheckpoint == RecordFold(Absent, stream, id, 0)[upTo]
      current == RecordFold(atCheckpoint, stream, id, upTo)[Len(stream)]
      left == local[w].unread \ {id}
  IN  /\ pc[w] = "carried"
      /\ id \in local[w].unread
      /\ IF atCheckpoint = Absent
           THEN /\ Store(w, NoLocals)
                /\ pc' = [pc EXCEPT ![w] = "tail"]
           ELSE /\ Store(w, [local[w] EXCEPT
                               !.carried[id] =
                                  IF current.status = "delivered" THEN Absent
                                  ELSE atCheckpoint,
                               !.unread = left])
                /\ pc' = [pc EXCEPT ![w] =
                            IF left = {} THEN "tail" ELSE "carried"]
      /\ UNCHANGED call
      /\ Unchanging

\* The working set the tail read completes.
TailWorkingSet(w) ==
  [id \in Records |->
     WorkingSetFold(local[w].carried[id], stream, id,
                    local[w].base)[Len(stream)]]

\* ensureDocumentDeliveryOutboxClaimed
ClaimedBy(record, claimId) ==
  record.status = "claimed" /\ record.claim = claimId

\* The plan callback, up to its next await: an enqueue reads for duplicates, a
\* completion looks its record up and checks the claim.
PlanAfterRead(w, set) ==
  LET Go(place) == /\ pc' = [pc EXCEPT ![w] = place]
                   /\ Store(w, [local[w] EXCEPT
                                  !.version = Len(stream),
                                  !.records = set,
                                  !.unread = call[w].ids])
                   /\ UNCHANGED call
  IN  \/ Op(w) = "enqueue" /\ Go("dedupe")
      \/ Op(w) = "claim" /\ Go("append")
      \/ /\ Op(w) \in {"deliver", "redeliver", "fail"}
         /\ ClaimedBy(set[Current(w)], call[w].claim)
         /\ Go("append")
      \/ /\ Op(w) \in {"deliver", "redeliver"}
         /\ set[Current(w)] = Absent
         /\ Go("lookup")
      \/ /\ Op(w) \in {"deliver", "redeliver", "fail"}
         /\ ~ ClaimedBy(set[Current(w)], call[w].claim)
         /\ set[Current(w)] = Absent => Op(w) = "fail"
         /\ Throw(w)

\* The tail read of state().  A full read and a read after `base` both end at
\* the head of the stream, which is the version the append will expect.
ReadTail(w) ==
  /\ pc[w] = "tail"
  /\ PlanAfterRead(w, TailWorkingSet(w))
  /\ Unchanging

-----------------------------------------------------------------------------
(* The plans that read once more before they append.                       *)

\* Mutant: duplicates are looked for in the working set, which a delivered
\* record has left.
ReadDuplicateInWorkingSet(w, id) ==
  LET left == local[w].unread \ {id}
  IN  /\ pc[w] = "dedupe"
      /\ id \in local[w].unread
      /\ Store(w, [local[w] EXCEPT
                     !.unread = left,
                     !.found = IF local[w].records[id] # Absent
                               THEN @ \cup {id} ELSE @])
      /\ pc' = [pc EXCEPT ![w] = IF left = {} THEN "append" ELSE "dedupe"]
      /\ UNCHANGED call
      /\ Unchanging

\* enqueueFromDomainEvent's check of one record id against the events.
ReadDuplicate(w, id) ==
  LET left == local[w].unread \ {id}
  IN  /\ pc[w] = "dedupe"
      /\ id \in local[w].unread
      /\ Store(w, [local[w] EXCEPT
                     !.unread = left,
                     !.found = IF Enqueued(id) THEN @ \cup {id} ELSE @])
      /\ pc' = [pc EXCEPT ![w] = IF left = {} THEN "append" ELSE "dedupe"]
      /\ UNCHANGED call
      /\ Unchanging

\* appendTerminalEvent for an id outside the working set: delivered already is
\* success, anything else is notFound.
LookupDelivered(w) ==
  /\ pc[w] = "lookup"
  /\ IF Record(Current(w)).status = "delivered" THEN Return(w) ELSE Throw(w)
  /\ Unchanging

-----------------------------------------------------------------------------
(* The planned events and the append.                                      *)

\* Mutant: a claim without a lease is taken over like an expired one.
ClaimableWhenClaimed(set, due) == {id \in Records : set[id] # Absent}

\* Mutant: a failed record is never due again.
ClaimableOnce(set, due) == {id \in Records : set[id].status = "pending"}

\* claimableDocumentDeliveryOutboxRecords: pending, or failed and due.
Claimable(set, due) ==
  {id \in Records : set[id].status = "pending"
                    \/ (set[id].status = "failed" /\ id \in due)}

Oldest(S, limit) ==
  {id \in S : Cardinality({other \in S : other < id}) < limit}

\* plannedCheckpoint: not on the last attempt, not above the carry-over limit.
PlannedCheckpoint(w) ==
  IF \/ call[w].attempt >= MaxAppendAttempts
     \/ Cardinality(InFlight(local[w].records)) > CarryOverLimit
  THEN <<>>
  ELSE <<CheckpointEvent(local[w].version, InFlight(local[w].records))>>

\* Mutant: the checkpoint is appended after the delivery it belongs to.
TerminalEventsReversed(w) ==
  <<RecordEvent("Delivered", Current(w), call[w].claim)>>
    \o PlannedCheckpoint(w)

\* The checkpoint goes first: a reader resuming after upTo starts on it.
TerminalEvents(w) ==
  PlannedCheckpoint(w) \o <<RecordEvent("Delivered", Current(w), call[w].claim)>>

\* The event sequences worker w may append: retryAt and `now` are left out, so
\* any of the failed records of a claim's working set may be due.
Planned(w) ==
  CASE Op(w) = "enqueue" ->
         EventPerId("Enqueued", call[w].ids \ local[w].found, NoClaim)
    [] Op(w) = "claim" ->
         UNION {EventPerId("Claimed",
                           Oldest(Claimable(local[w].records, due), ClaimLimit),
                           call[w].claim) : due \in SUBSET Records}
    [] Op(w) \in {"deliver", "redeliver"} -> {TerminalEvents(w)}
    [] OTHER -> {<<RecordEvent("Failed", Current(w), call[w].claim)>>}

IdsOf(events) == {events[i].id : i \in 1..Len(events)}

\* append() succeeds: the stream was still at the version the plan read.
AppendCommit(w) ==
  /\ pc[w] = "append"
  /\ local[w].version = Len(stream)
  /\ \E events \in Planned(w) \ {<<>>} :
       /\ stream' = stream \o events
       /\ IF Op(w) = "claim" THEN NextRecord(w, IdsOf(events)) ELSE Return(w)
  /\ UNCHANGED <<runs, completed, faults>>

\* The plan has nothing to append.
AppendNothing(w) ==
  /\ pc[w] = "append"
  /\ <<>> \in Planned(w)
  /\ Return(w)
  /\ Unchanging

\* append() finds another version: retry with a fresh state(), or give up.
AppendConflict(w) ==
  /\ pc[w] = "append"
  /\ local[w].version # Len(stream)
  /\ Planned(w) \ {<<>>} # {}
  /\ IF call[w].attempt < MaxAppendAttempts
       THEN StartAttempt(w, Op(w), call[w].attempt + 1)
       ELSE Throw(w)
  /\ Unchanging

\* append() (or the read-back that follows it in markDelivered) fails for
\* another reason, with or without the events in the stream.
AppendError(w) ==
  /\ pc[w] = "append"
  /\ faults < FaultBound
  /\ \E events \in Planned(w) \ {<<>>} :
       \/ stream' = stream
       \/ local[w].version = Len(stream) /\ stream' = stream \o events
  /\ Throw(w)
  /\ faults' = faults + 1
  /\ UNCHANGED <<runs, completed>>

-----------------------------------------------------------------------------
(* The delivery handlers, and crashes.                                     *)

CountRun(w) == runs' = [runs EXCEPT ![Current(w)] = @ + 1]

HandlerSucceeds(w) ==
  /\ pc[w] = "handler"
  /\ CountRun(w)
  /\ completed' = completed \cup {<<Current(w), call[w].claim>>}
  /\ StartAttempt(w, "deliver", 1)
  /\ UNCHANGED <<stream, faults>>

\* Mutant: a failing handler is taken for a delivery.
HandlerFailureSwallowed(w) ==
  /\ pc[w] = "handler"
  /\ runs[Current(w)] < FailureBound
  /\ CountRun(w)
  /\ StartAttempt(w, "deliver", 1)
  /\ UNCHANGED <<stream, completed, faults>>

\* The handler throws, or none is configured for the target.
HandlerFails(w) ==
  /\ pc[w] = "handler"
  /\ runs[Current(w)] < FailureBound
  /\ CountRun(w)
  /\ StartAttempt(w, "fail", 1)
  /\ UNCHANGED <<stream, completed, faults>>

\* The invocation is gone between two awaits; the stream is all that is left.
Crash(w) ==
  /\ pc[w] # "idle"
  /\ faults < FaultBound
  /\ EndCall(w)
  /\ faults' = faults + 1
  /\ UNCHANGED <<stream, runs, completed>>

Step(w) ==
  \/ ReadCheckpoint(w)
  \/ \E id \in Records : ReadHistory(w, id)
  \/ ReadTail(w)
  \/ \E id \in Records : ReadDuplicate(w, id)
  \/ LookupDelivered(w)
  \/ AppendCommit(w)
  \/ AppendNothing(w)
  \/ AppendConflict(w)
  \/ HandlerSucceeds(w)
  \/ HandlerFails(w)

Start(w) ==
  \/ \E targets \in SourceEvents : StartEnqueue(w, targets)
  \/ \E claimId \in ClaimIds : StartDrain(w, claimId)
  \/ \E id \in Records, claimId \in ClaimIds : StartRedelivery(w, id, claimId)

Fault(w) == AppendError(w) \/ Crash(w)

Next == \E w \in Workers : Start(w) \/ Step(w) \/ Fault(w)

Spec == Init /\ [][Next]_vars

\* The fault-free behaviours.  A worker that has started runs on; the schedule
\* keeps starting drains; and a claim keeps finding failed records due, because
\* time passes.
FairSpec ==
  /\ Init
  /\ [][\E w \in Workers : Start(w) \/ Step(w)]_vars
  /\ \A w \in Workers :
       /\ WF_vars(Step(w))
       /\ SF_vars(\E claimId \in ClaimIds : StartDrain(w, claimId))
       /\ SF_vars(AppendCommit(w))

-----------------------------------------------------------------------------
(* Properties.                                                             *)

RecordStates ==
  [status : {"absent", "pending", "claimed", "failed", "delivered"},
   attempts : Nat, claim : ClaimIds \cup {NoClaim}]

Events ==
  [kind : {"Enqueued", "Claimed", "Delivered", "Failed", "Checkpointed"},
   id : Records \cup {CheckpointName}, claim : ClaimIds \cup {NoClaim},
   upTo : Nat, carry : SUBSET Records]

Calls ==
  [op : {"none", "enqueue", "claim", "deliver", "redeliver", "fail"},
   attempt : Nat, ids : SUBSET Records, claim : ClaimIds \cup {NoClaim},
   todo : SUBSET Records]

Locals ==
  [base : Nat, unread : SUBSET Records, carried : [Records -> RecordStates],
   version : Nat, records : [Records -> RecordStates],
   found : SUBSET Records]

\* The types of the variables.
TypeOK ==
  /\ stream \in Seq(Events)
  /\ pc \in [Workers -> {"idle", "checkpoint", "carried", "tail", "dedupe",
                         "lookup", "append", "handler"}]
  /\ call \in [Workers -> Calls]
  /\ local \in [Workers -> Locals]
  /\ runs \in [Records -> Nat]
  /\ completed \subseteq Records \X ClaimIds
  /\ faults \in 0..FaultBound

\* What state() returns, read in pieces from the newest checkpoint on, is the
\* fold of the whole stream at the version it reports: compaction and torn
\* reads change no record, no attempts count and no claim.
ResumedIsFullFold ==
  \A w \in Workers : pc[w] \in {"dedupe", "lookup", "append"} =>
    local[w].records = WorkingSetAt(local[w].version)

\* Every checkpoint in the stream tells the truth: it sits right after the
\* version it summarises (so no two share one, and they make strict progress)
\* and carries exactly the records in flight there.
CheckpointsTrue ==
  \A i \in CheckpointsAt(Len(stream)) :
    /\ stream[i].upTo = i - 1
    /\ stream[i].carry = InFlight(WorkingSetAt(i - 1))

\* A drain holds the claim of everything it still has to finish, or someone
\* has recorded the delivery for it; and no two drains hold the same record.
Draining(w) == pc[w] = "handler" \/ Op(w) \in {"deliver", "fail"}
SoleClaimant ==
  \A w \in Workers : Draining(w) => \A id \in call[w].todo :
    /\ \/ ClaimedBy(Record(id), call[w].claim)
       \/ Record(id).status = "delivered"
    /\ \A other \in Workers \ {w} : Draining(other) => id \notin call[other].todo

\* A handler never runs without a claim of its own: there are at most as many
\* runs for a record as Claimed events, so attempts bounds the duplicates.
RunsArePaidFor == \A id \in Records : runs[id] <= Record(id).attempts

\* A record is recorded delivered only under a claim whose handler returned.
DeliveredWasHandled ==
  \A id \in Records : Record(id).status = "delivered" =>
    <<id, Record(id).claim>> \in completed

\* Seen record by record, the stream is the life of a delivery: enqueued once,
\* claimed when pending or failed, delivered or failed by its claimant.
Lifecycle == INSTANCE DeliveryLifecycle
  WITH record <- [id \in Records |-> Record(id)]
LifecycleSpec == Lifecycle!Spec

\* Without crashes and store errors, every enqueued record is delivered.
EveryRecordDelivered ==
  \A id \in Records :
    Record(id).status # "absent" ~> Record(id).status = "delivered"

=============================================================================
