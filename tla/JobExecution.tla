---------------------------- MODULE JobExecution ----------------------------
(***************************************************************************)
(* Background jobs: messages on a Cloudflare Queue, the invocations that   *)
(* consume them, and the execution log in D1 whose row for an idempotency  *)
(* key decides whether a delivery runs the job's handler or is skipped.    *)
(*                                                                         *)
(* The queue delivers at least once: a message whose invocation died is    *)
(* delivered again, and one that is being processed may be delivered to a  *)
(* second invocation.  A worker processes one delivery (one entry of a     *)
(* lane in cloudflare/job-consumer.ts); every await of the executor and of *)
(* the log is a step of its own.  A row is kept as its status: payload,    *)
(* metadata and result decide nothing.  Dispatch and consumer share one    *)
(* registry, so that every job is known.                                   *)
(***************************************************************************)
EXTENDS Naturals, Sequences

CONSTANTS
  Keys,             \* idempotency keys
  NoKey,
  Workers,          \* deliveries being processed
  Operators,        \* administrators' requests to retry a failed execution
  MaxAttempts,      \* retry.maxAttempts (3 by default)
  MessageBound,     \* bound: messages sent
  DuplicateBound,   \* bound: deliveries of a message that is being processed
  FaultBound        \* bound: crashes and errors of the execution log

ASSUME KeysAssumption == NoKey \notin Keys
ASSUME NumbersAssumption ==
  /\ MaxAttempts \in Nat \ {0}
  /\ MessageBound \in Nat
  /\ DuplicateBound \in Nat
  /\ FaultBound \in Nat

VARIABLES
  log,         \* the status of each key's row, "none" when there is no row
  queue,       \* the messages sent: key, deliveries so far, place
  pc,          \* what each worker does next
  task,        \* the delivery it processes
  asking,      \* the key each operator found failed and is about to send
  done,        \* observer: how often the handler of a key returned
  unrecorded,  \* observer: how often that could not be recorded
  stranded,    \* observer: keys whose execution a fault left without an end
  duplicates,  \* duplicate deliveries so far
  faults       \* faults so far

vars == <<log, queue, pc, task, asking, done, unrecorded, stranded,
          duplicates, faults>>
observers == <<done, unrecorded, stranded>>

MessageIds == 1..Len(queue)

NoTask == [message |-> 0, attempt |-> 1, error |-> "none"]

KeyOf(w) == queue[task[w].message].key

\* The delivery is the one that has claimed its key.
Runs(w, k) == pc[w] \in {"handler", "complete", "fail"} /\ KeyOf(w) = k

-----------------------------------------------------------------------------
Init ==
  /\ log = [k \in Keys |-> "none"]
  /\ queue = <<>>
  /\ pc = [w \in Workers |-> "idle"]
  /\ task = [w \in Workers |-> NoTask]
  /\ asking = [o \in Operators |-> NoKey]
  /\ done = [k \in Keys |-> 0]
  /\ unrecorded = [k \in Keys |-> 0]
  /\ stranded = {}
  /\ duplicates = 0
  /\ faults = 0

Go(w, place) == pc' = [pc EXCEPT ![w] = place]

Throw(w, place, error) ==
  /\ Go(w, place)
  /\ task' = [task EXCEPT ![w].error = error]

Leave(w) ==
  /\ Go(w, "idle")
  /\ task' = [task EXCEPT ![w] = NoTask]

\* A write of the log that fails may have taken place all the same.
LogError(k, status) ==
  /\ faults < FaultBound
  /\ faults' = faults + 1
  /\ log' \in {log, [log EXCEPT ![k] = status]}

-----------------------------------------------------------------------------
(* Producers.                                                              *)

Send(k) ==
  /\ Len(queue) < MessageBound
  /\ queue' = Append(queue, [key |-> k, attempts |-> 0, place |-> "ready"])

\* JobDispatcher.dispatch: callers may choose the key, and choose it twice.
Dispatch(k) ==
  /\ Send(k)
  /\ UNCHANGED <<log, pc, task, asking, observers, duplicates, faults>>

\* JobRetryService.retry reads the row; only a failed execution goes on.
RetryLookup(o, k) ==
  /\ asking[o] = NoKey
  /\ log[k] = "failed"
  /\ asking' = [asking EXCEPT ![o] = k]
  /\ UNCHANGED <<log, queue, pc, task, observers, duplicates, faults>>

RetrySend(o) ==
  /\ asking[o] # NoKey
  /\ Send(asking[o])
  /\ asking' = [asking EXCEPT ![o] = NoKey]
  /\ UNCHANGED <<log, pc, task, observers, duplicates, faults>>

-----------------------------------------------------------------------------
(* Deliveries.                                                             *)

Take(w, m, attempt) ==
  /\ pc[w] = "idle"
  /\ queue' = [queue EXCEPT ![m] = [key |-> queue[m].key,
                                    attempts |-> queue[m].attempts + 1,
                                    place |-> "inflight"]]
  /\ Go(w, "begin")
  /\ task' = [task EXCEPT ![w] =
                [message |-> m, attempt |-> attempt, error |-> "none"]]
  /\ UNCHANGED <<log, asking, observers, faults>>

Deliver(w, m) ==
  /\ queue[m].place = "ready"
  /\ Take(w, m, queue[m].attempts + 1)
  /\ UNCHANGED duplicates

\* At least once: a message may be delivered while it is being processed.
DeliverAgain(w, m) ==
  /\ queue[m].place = "inflight"
  /\ duplicates < DuplicateBound
  /\ Take(w, m, queue[m].attempts + 1)
  /\ duplicates' = duplicates + 1

-----------------------------------------------------------------------------
(* JobExecutor.execute.                                                    *)

\* Mutant: a row that is not finished may be claimed.
ClaimableUnfinished(status) == status # "succeeded"

\* The upsert of D1JobExecutionLog.claim.
Claimable(status) == status \in {"none", "failed"}

Claim(w) ==
  /\ pc[w] = "begin"
  /\ Claimable(log[KeyOf(w)])
  /\ log' = [log EXCEPT ![KeyOf(w)] = "running"]
  /\ Go(w, "handler")
  /\ UNCHANGED <<queue, task, asking, observers, duplicates, faults>>

\* Mutant: a duplicate waits for the execution it found running.
SkipDuplicateWaiting(w) ==
  /\ pc[w] = "begin"
  /\ log[KeyOf(w)] = "succeeded"
  /\ Go(w, "settle")
  /\ UNCHANGED <<log, queue, task, asking, observers, duplicates, faults>>

\* The row stays, so begin finds it and the delivery is a duplicate.
SkipDuplicate(w) ==
  /\ pc[w] = "begin"
  /\ ~Claimable(log[KeyOf(w)])
  /\ Go(w, "settle")
  /\ UNCHANGED <<log, queue, task, asking, observers, duplicates, faults>>

\* begin is outside of the try, and what D1 throws is not retryable.
ClaimError(w) ==
  /\ pc[w] = "begin"
  /\ Claimable(log[KeyOf(w)])
  /\ LogError(KeyOf(w), "running")
  /\ Throw(w, "settle", "permanent")
  /\ stranded' = stranded \cup {KeyOf(w)}
  /\ UNCHANGED <<queue, asking, done, unrecorded, duplicates>>

HandlerReturns(w) ==
  /\ pc[w] = "handler"
  /\ done' = [done EXCEPT ![KeyOf(w)] = done[KeyOf(w)] + 1]
  /\ UNCHANGED <<log, queue, asking, stranded, duplicates, faults>>

HandlerSucceeds(w) ==
  /\ HandlerReturns(w)
  /\ Go(w, "complete")
  /\ UNCHANGED <<task, unrecorded>>

\* normalizeJobHandlerResult throws: what the job did is recorded as failed.
ResultInvalid(w) ==
  /\ HandlerReturns(w)
  /\ Throw(w, "fail", "permanent")
  /\ unrecorded' = [unrecorded EXCEPT ![KeyOf(w)] = unrecorded[KeyOf(w)] + 1]

HandlerThrows(w, error) ==
  /\ pc[w] = "handler"
  /\ Throw(w, "fail", error)
  /\ UNCHANGED <<log, queue, asking, observers, duplicates, faults>>

\* Mutant: complete records the status that fail records.
CompleteAsFailed(w) ==
  /\ pc[w] = "complete"
  /\ log' = [log EXCEPT ![KeyOf(w)] = "failed"]
  /\ Go(w, "settle")
  /\ UNCHANGED <<queue, task, asking, observers, duplicates, faults>>

Complete(w) ==
  /\ pc[w] = "complete"
  /\ log' = [log EXCEPT ![KeyOf(w)] = "succeeded"]
  /\ Go(w, "settle")
  /\ UNCHANGED <<queue, task, asking, observers, duplicates, faults>>

\* complete is inside the try: its error is recorded as the job's failure.
CompleteError(w) ==
  /\ pc[w] = "complete"
  /\ LogError(KeyOf(w), "succeeded")
  /\ Throw(w, "fail", "permanent")
  /\ unrecorded' = [unrecorded EXCEPT ![KeyOf(w)] = unrecorded[KeyOf(w)] + 1]
  /\ UNCHANGED <<queue, asking, done, stranded, duplicates>>

\* Mutant: a retryable failure is not recorded before the message is retried.
FailPermanentOnly(w) ==
  /\ pc[w] = "fail"
  /\ log' = IF task[w].error = "permanent"
            THEN [log EXCEPT ![KeyOf(w)] = "failed"] ELSE log
  /\ Go(w, "settle")
  /\ UNCHANGED <<queue, task, asking, observers, duplicates, faults>>

\* fail overwrites whatever the row says.
Fail(w) ==
  /\ pc[w] = "fail"
  /\ log' = [log EXCEPT ![KeyOf(w)] = "failed"]
  /\ Go(w, "settle")
  /\ UNCHANGED <<queue, task, asking, observers, duplicates, faults>>

\* The error of fail replaces the job's own, also when that was retryable.
FailError(w) ==
  /\ pc[w] = "fail"
  /\ LogError(KeyOf(w), "failed")
  /\ Throw(w, "settle", "permanent")
  /\ stranded' = stranded \cup {KeyOf(w)}
  /\ UNCHANGED <<queue, asking, done, unrecorded, duplicates>>

-----------------------------------------------------------------------------
(* processJobMessage: acknowledge or retry.                                *)

\* classifyJobError
Retries(error, attempt) == error = "retryable" /\ attempt < MaxAttempts

Settle(w) ==
  /\ pc[w] = "settle"
  /\ queue' = [queue EXCEPT ![task[w].message].place =
                 IF Retries(task[w].error, task[w].attempt)
                 THEN "ready" ELSE "acked"]
  /\ Leave(w)
  /\ UNCHANGED <<log, asking, observers, duplicates, faults>>

\* The invocation dies; what was not settled is delivered again.
Crash(w) ==
  /\ pc[w] # "idle"
  /\ faults < FaultBound
  /\ faults' = faults + 1
  /\ queue' = [queue EXCEPT ![task[w].message].place = "ready"]
  /\ stranded' = IF pc[w] \in {"handler", "complete", "fail"}
                 THEN stranded \cup {KeyOf(w)} ELSE stranded
  /\ Leave(w)
  /\ UNCHANGED <<log, asking, done, unrecorded, duplicates>>

-----------------------------------------------------------------------------
Produce ==
  \/ \E k \in Keys : Dispatch(k) \/ \E o \in Operators : RetryLookup(o, k)
  \/ \E o \in Operators : RetrySend(o)

Handle(w) ==
  \/ HandlerSucceeds(w)
  \/ ResultInvalid(w)
  \/ \E error \in {"retryable", "permanent"} : HandlerThrows(w, error)

Step(w) ==
  \/ Claim(w) \/ SkipDuplicate(w) \/ Handle(w)
  \/ Complete(w) \/ Fail(w) \/ Settle(w)

Fault(w) == ClaimError(w) \/ CompleteError(w) \/ FailError(w) \/ Crash(w)

Next ==
  \/ Produce
  \/ \E w \in Workers :
       \/ \E m \in MessageIds : Deliver(w, m) \/ DeliverAgain(w, m)
       \/ Step(w)
       \/ Fault(w)

Spec == Init /\ [][Next]_vars

\* Awaits are answered, handlers end, and the queue delivers what it has.
FairSpec ==
  /\ Spec
  /\ \A w \in Workers : WF_vars(Step(w))
  /\ WF_vars(\E w \in Workers, m \in MessageIds : Deliver(w, m))

-----------------------------------------------------------------------------
(* Properties.                                                             *)

Messages ==
  [key : Keys, attempts : Nat, place : {"ready", "inflight", "acked"}]

Tasks ==
  [message : Nat, attempt : Nat \ {0},
   error : {"none", "retryable", "permanent"}]

\* Rows, messages and deliveries are well formed; a busy worker processes a
\* message that was sent, and attempts count from one (queueMessage.attempts).
TypeOK ==
  /\ log \in [Keys -> {"none", "running", "succeeded", "failed"}]
  /\ queue \in Seq(Messages)
  /\ pc \in [Workers -> {"idle", "begin", "handler", "complete", "fail",
                         "settle"}]
  /\ task \in [Workers -> Tasks]
  /\ \A w \in Workers : pc[w] # "idle" => task[w].message \in MessageIds
  /\ asking \in [Operators -> Keys \cup {NoKey}]
  /\ done \in [Keys -> Nat]
  /\ unrecorded \in [Keys -> Nat]
  /\ stranded \subseteq Keys
  /\ duplicates \in 0..DuplicateBound
  /\ faults \in 0..FaultBound

\* One delivery at a time executes a key, whatever the queue delivers twice
\* and however often operators retry: the claim of the row keeps the others
\* out until the outcome is recorded.
SoleRunner ==
  \A k \in Keys, v, w \in Workers : Runs(v, k) /\ Runs(w, k) => v = w

\* A job is done again only if its success could not be recorded (complete
\* threw, or the result is no JSON): redeliveries, retries of the queue and of
\* operators, and crashes never repeat a recorded success.
RerunsUnrecordedOnly == \A k \in Keys : done[k] <= 1 + unrecorded[k]

\* Somebody still has to do something about the key.
Attended(k) ==
  \/ \E m \in MessageIds : queue[m].key = k /\ queue[m].place = "ready"
  \/ \E w \in Workers : pc[w] = "begin" /\ KeyOf(w) = k
  \/ \E w \in Workers : Runs(w, k)

\* No job that was sent disappears without an outcome an operator can see,
\* unless the execution log failed or its invocation died in the middle of
\* it: acknowledging duplicates and permanent failures loses nothing else.
NoSilentLoss ==
  \A k \in Keys :
    (\E m \in MessageIds : queue[m].key = k) /\ ~Attended(k) =>
      log[k] \in {"succeeded", "failed"} \/ k \in stranded

\* When no more messages are sent, the queue is empty in the end and nobody is
\* busy: no retry goes on for ever and no delivery waits for another.
QueueDrains ==
  <>[](/\ \A m \in MessageIds : queue[m].place = "acked"
       /\ \A w \in Workers : pc[w] = "idle")

=============================================================================
