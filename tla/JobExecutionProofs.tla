------------------------- MODULE JobExecutionProofs -------------------------
(***************************************************************************)
(* JobExecution for every number of keys, workers, operators and messages. *)
(* The invariant adds to what is to be shown how the row of a key, the     *)
(* workers on it and the messages of it go together.                       *)
(***************************************************************************)
EXTENDS JobExecution, TLAPS

\* One worker at a time executes the key, and its row is not given back.
RunnerAt(k) ==
  /\ \A v, w \in Workers : Runs(v, k) /\ Runs(w, k) => v = w
  /\ \A w \in Workers : Runs(w, k) =>
       /\ log[k] \in {"running", "succeeded"}
       /\ pc[w] # "fail" => log[k] = "running"

\* Every success is recorded, about to be, or counted as unrecorded.
CountedAt(k) ==
  /\ done[k] <= 1 + unrecorded[k]
  /\ log[k] \in {"none", "failed"} => done[k] <= unrecorded[k]
  /\ \A w \in Workers : Runs(w, k) /\ pc[w] # "complete" =>
       done[k] <= unrecorded[k]

\* A row that says running is being executed, or a fault left it so; a
\* delivery that is over has seen a row, or a fault kept it from one.
AttendedAt(k) ==
  /\ log[k] = "running" => k \in stranded \/ \E w \in Workers : Runs(w, k)
  /\ \A w \in Workers : pc[w] = "settle" /\ KeyOf(w) = k =>
       log[k] # "none" \/ k \in stranded

\* A key without a row is not sent yet, or still to be claimed.
UnclaimedAt(k) ==
  log[k] = "none" =>
    \/ k \in stranded
    \/ \A m \in MessageIds : queue[m].key # k
    \/ \E m \in MessageIds : queue[m].key = k /\ queue[m].place = "ready"
    \/ \E w \in Workers : pc[w] = "begin" /\ KeyOf(w) = k

KeyOK(k) == RunnerAt(k) /\ CountedAt(k) /\ AttendedAt(k) /\ UnclaimedAt(k)

IInv == TypeOK /\ \A k \in Keys : KeyOK(k)

-----------------------------------------------------------------------------
(* Types.                                                                  *)

\* The parts of a message.
LEMMA MessageType ==
  ASSUME queue \in Seq(Messages), NEW m \in MessageIds
  PROVE  /\ queue[m] \in Messages
         /\ queue[m].key \in Keys
         /\ queue[m].attempts \in Nat
<1>1. queue[m] \in Messages
  BY DEF MessageIds
<1>2. QED
  BY <1>1 DEF Messages

\* What a delivery, an acknowledgement or a retry does to the queue: one
\* message changes, under its key.
Moved(m, place) ==
  /\ queue' \in Seq(Messages)
  /\ Len(queue') = Len(queue)
  /\ \A i \in MessageIds : queue'[i].key = queue[i].key
  /\ \A i \in MessageIds \ {m} : queue'[i] = queue[i]
  /\ queue'[m].place = place

(* A message put in the place of another of its key moves it. *)
LEMMA MessageMoves ==
  ASSUME queue \in Seq(Messages), NEW m \in MessageIds,
         NEW msg \in Messages, msg.key = queue[m].key,
         queue' = [queue EXCEPT ![m] = msg]
  PROVE  Moved(m, msg.place)
BY DEF MessageIds, Moved

(* The message a worker takes is in flight. *)
LEMMA TakeMoves ==
  ASSUME queue \in Seq(Messages), NEW w, NEW m \in MessageIds, NEW n,
         Take(w, m, n)
  PROVE  Moved(m, "inflight")
<1> DEFINE msg == [key |-> queue[m].key, attempts |-> queue[m].attempts + 1,
                   place |-> "inflight"]
<1>1. queue[m].key \in Keys /\ queue[m].attempts \in Nat
  BY MessageType
<1>2. msg \in Messages /\ msg.key = queue[m].key /\ msg.place = "inflight"
  BY <1>1 DEF Messages
<1>3. queue' = [queue EXCEPT ![m] = msg]
  BY DEF Take
<1> HIDE DEF msg
<1>4. Moved(m, msg.place)
  BY <1>2, <1>3, MessageMoves
<1>5. QED
  BY <1>2, <1>4

(* A message that is given back or acknowledged. *)
LEMMA SettleMoves ==
  ASSUME queue \in Seq(Messages), NEW m \in MessageIds,
         NEW place \in {"ready", "acked"},
         queue' = [queue EXCEPT ![m].place = place]
  PROVE  Moved(m, place)
<1> DEFINE msg == [queue[m] EXCEPT !.place = place]
<1>1. queue[m] \in Messages
  BY MessageType
<1>2. msg \in Messages /\ msg.key = queue[m].key /\ msg.place = place
  BY <1>1 DEF Messages
<1>3. queue' = [queue EXCEPT ![m] = msg]
  OBVIOUS
<1> HIDE DEF msg
<1>4. Moved(m, msg.place)
  BY <1>2, <1>3, MessageMoves
<1>5. QED
  BY <1>2, <1>4

(* The message of an invocation that dies is ready again. *)
LEMMA CrashMoves ==
  ASSUME TypeOK, NEW w \in Workers, Crash(w)
  PROVE  Moved(task[w].message, "ready")
<1>1. task[w].message \in MessageIds
  BY DEF Crash, TypeOK
<1>2. queue' = [queue EXCEPT ![task[w].message].place = "ready"]
  BY DEF Crash
<1>3. queue \in Seq(Messages)
  BY DEF TypeOK
<1>4. QED
  BY <1>1, <1>2, <1>3, SettleMoves

(* The message of a delivery that ends is ready again or acknowledged. *)
LEMMA SettledMoves ==
  ASSUME TypeOK, NEW w \in Workers, Settle(w)
  PROVE  \E place \in {"ready", "acked"} : Moved(task[w].message, place)
<1> DEFINE place == IF Retries(task[w].error, task[w].attempt)
                    THEN "ready" ELSE "acked"
<1>1. task[w].message \in MessageIds
  BY DEF Settle, TypeOK
<1>2. queue' = [queue EXCEPT ![task[w].message].place = place]
  BY DEF Settle
<1>3. place \in {"ready", "acked"}
  OBVIOUS
<1>4. queue \in Seq(Messages)
  BY DEF TypeOK
<1> HIDE DEF place
<1>5. QED
  BY <1>1, <1>2, <1>3, <1>4, SettleMoves

\* A message that is sent comes last.
LEMMA MessageSent ==
  ASSUME queue \in Seq(Messages), NEW k \in Keys, Send(k)
  PROVE  /\ queue' \in Seq(Messages)
         /\ Len(queue') = Len(queue) + 1
         /\ \A i \in 1..Len(queue) : queue'[i] = queue[i]
         /\ queue'[Len(queue) + 1].key = k
         /\ queue'[Len(queue) + 1].place = "ready"
<1>1. [key |-> k, attempts |-> 0, place |-> "ready"] \in Messages
  BY DEF Messages
<1>2. QED
  BY <1>1 DEF Send

\* Every action keeps the types.
LEMMA TypeStep == TypeOK /\ [Next]_vars => TypeOK'
<1> SUFFICES ASSUME TypeOK, [Next]_vars
             PROVE  TypeOK'
  OBVIOUS
<1> USE KeysAssumption, NumbersAssumption
<1>1. ASSUME NEW k \in Keys, Dispatch(k)
      PROVE  TypeOK'
  BY <1>1, MessageSent DEF TypeOK, Dispatch, observers, MessageIds
<1>2. ASSUME NEW k \in Keys, NEW o \in Operators, RetryLookup(o, k)
      PROVE  TypeOK'
  BY <1>2 DEF TypeOK, RetryLookup, observers, MessageIds
<1>3. ASSUME NEW o \in Operators, RetrySend(o)
      PROVE  TypeOK'
  <2>1. asking[o] \in Keys
    BY <1>3 DEF RetrySend, TypeOK
  <2>2. QED
    BY <1>3, <2>1, MessageSent DEF TypeOK, RetrySend, observers, MessageIds
<1>4. ASSUME NEW w \in Workers, NEW m \in MessageIds,
             Deliver(w, m) \/ DeliverAgain(w, m)
      PROVE  TypeOK'
  <2>1. Take(w, m, queue[m].attempts + 1) /\ duplicates' \in 0..DuplicateBound
    BY <1>4 DEF Deliver, DeliverAgain, TypeOK
  <2>2. queue[m].attempts \in Nat
    BY MessageType DEF TypeOK
  <2>3. queue' \in Seq(Messages) /\ Len(queue') = Len(queue)
    BY <2>1, TakeMoves DEF Moved, TypeOK
  <2>4. [message |-> m, attempt |-> queue[m].attempts + 1, error |-> "none"]
          \in Tasks
    BY <2>2 DEF Tasks, MessageIds
  <2>5. QED
    BY <2>1, <2>3, <2>4 DEF TypeOK, Take, Go, observers, MessageIds
<1>5. ASSUME NEW w \in Workers, Step(w) \/ Fault(w)
      PROVE  TypeOK'
  <2>1. NoTask \in Tasks
    BY DEF NoTask, Tasks
  <2>2. task[w] \in Tasks
    BY DEF TypeOK
  <2>3. \A error \in {"retryable", "permanent"} :
          /\ [task[w] EXCEPT !.error = error] \in Tasks
          /\ [task[w] EXCEPT !.error = error].message = task[w].message
    BY <2>2 DEF Tasks
  <2>4. pc[w] # "idle" => task[w].message \in MessageIds
    BY DEF TypeOK
  <2>5. pc[w] # "idle" => KeyOf(w) \in Keys
    BY <2>4, MessageType DEF TypeOK, KeyOf
  <2>6. CASE Claim(w)
    BY <2>5, <2>6 DEF Claim, TypeOK, Go, observers, MessageIds
  <2>7. CASE SkipDuplicate(w)
    BY <2>7 DEF SkipDuplicate, TypeOK, Go, observers, MessageIds
  <2>8. CASE Complete(w)
    BY <2>5, <2>8 DEF Complete, TypeOK, Go, observers, MessageIds
  <2>9. CASE Fail(w)
    BY <2>5, <2>9 DEF Fail, TypeOK, Go, observers, MessageIds
  <2>10. CASE HandlerSucceeds(w)
    BY <2>5, <2>10
    DEF HandlerSucceeds, HandlerReturns, TypeOK, Go, observers, MessageIds
  <2>11. CASE ResultInvalid(w)
    <3>1. done' \in [Keys -> Nat] /\ unrecorded' \in [Keys -> Nat]
      BY <2>5, <2>11 DEF ResultInvalid, HandlerReturns, TypeOK
    <3>2. QED
      BY <2>3, <2>11, <3>1
      DEF ResultInvalid, HandlerReturns, Throw, TypeOK, Go, MessageIds
  <2>12. ASSUME NEW error \in {"retryable", "permanent"},
                HandlerThrows(w, error)
         PROVE  TypeOK'
    BY <2>3, <2>12 DEF HandlerThrows, Throw, TypeOK, Go, observers, MessageIds
  <2>13. CASE Settle(w)
    <3>1. queue' \in Seq(Messages) /\ Len(queue') = Len(queue)
      BY <2>13, SettledMoves DEF Moved
    <3>2. QED
      BY <2>1, <2>13, <3>1
      DEF Settle, Leave, TypeOK, Go, observers, MessageIds
  <2>14. CASE Crash(w)
    <3>1. queue' \in Seq(Messages) /\ Len(queue') = Len(queue)
      BY <2>4, <2>14, CrashMoves DEF Moved, TypeOK
    <3>2. QED
      BY <2>1, <2>5, <2>14, <3>1
      DEF Crash, Leave, TypeOK, Go, observers, MessageIds
  <2>15. ASSUME NEW k \in Keys, NEW status \in {"running", "succeeded", "failed"},
                LogError(k, status)
         PROVE  /\ log' \in [Keys -> {"none", "running", "succeeded", "failed"}]
                /\ faults' \in 0..FaultBound
    <3>1. log' = log \/ log' = [log EXCEPT ![k] = status]
      BY <2>15 DEF LogError
    <3>2. log \in [Keys -> {"none", "running", "succeeded", "failed"}]
      BY DEF TypeOK
    <3>3. faults' \in 0..FaultBound
      BY <2>15 DEF LogError, TypeOK
    <3>4. QED
      BY <3>1, <3>2, <3>3
  <2>16. CASE ClaimError(w)
    BY <2>3, <2>5, <2>15, <2>16 DEF ClaimError, Throw, TypeOK, Go, MessageIds
  <2>17. CASE CompleteError(w)
    BY <2>3, <2>5, <2>15, <2>17 DEF CompleteError, Throw, TypeOK, Go, MessageIds
  <2>18. CASE FailError(w)
    BY <2>3, <2>5, <2>15, <2>18 DEF FailError, Throw, TypeOK, Go, MessageIds
  <2>19. QED
    BY <1>5, <2>6, <2>10, <2>13, <2>14, <2>7, <2>8, <2>9, <2>11, <2>12, <2>16,
       <2>17, <2>18 DEF Step, Handle, Fault
<1>6. CASE UNCHANGED vars
  BY <1>6 DEF vars, TypeOK, MessageIds
<1>7. QED
  BY <1>1, <1>2, <1>3, <1>4, <1>5, <1>6 DEF Next, Produce

-----------------------------------------------------------------------------
(* What a step leaves as it was.                                           *)

Executing == {"handler", "complete", "fail"}

\* Nothing that RunnerAt, CountedAt and AttendedAt speak of changes for key j.
SameAt(j) ==
  /\ log'[j] = log[j] /\ done'[j] = done[j] /\ unrecorded'[j] = unrecorded[j]
  /\ j \in stranded => j \in stranded'
  /\ \A v \in Workers :
       /\ Runs(v, j)' <=> Runs(v, j)
       /\ Runs(v, j) => pc'[v] = pc[v]
       /\ pc'[v] = "settle" /\ KeyOf(v)' = j =>
            pc[v] = "settle" /\ KeyOf(v) = j

(* What is the same is still right. *)
LEMMA SameStays ==
  ASSUME NEW j \in Keys, KeyOK(j), SameAt(j)
  PROVE  (RunnerAt(j) /\ CountedAt(j) /\ AttendedAt(j))'
<1>1. RunnerAt(j)'
  BY DEF KeyOK, SameAt, RunnerAt
<1>2. CountedAt(j)'
  BY DEF KeyOK, SameAt, CountedAt
<1>3. AttendedAt(j)'
  BY DEF KeyOK, SameAt, AttendedAt
<1>4. QED
  BY <1>1, <1>2, <1>3

\* A busy worker goes on with its message; the queue stays.
InPlace(w, place) ==
  /\ pc[w] # "idle"
  /\ queue' = queue
  /\ pc' = [pc EXCEPT ![w] = place]
  /\ task'[w].message = task[w].message
  /\ \A v \in Workers \ {w} : task'[v] = task[v]

(* Then every worker is still at the same key. *)
LEMMA InPlaceKeys ==
  ASSUME TypeOK, NEW w \in Workers, NEW place, InPlace(w, place)
  PROVE  /\ \A v \in Workers : KeyOf(v)' = KeyOf(v)
         /\ \A v \in Workers \ {w} : pc'[v] = pc[v]
         /\ pc'[w] = place
         /\ KeyOf(w) \in Keys
         /\ MessageIds' = MessageIds
<1>1. task[w].message \in MessageIds
  BY DEF TypeOK, InPlace
<1>2. KeyOf(w) \in Keys
  BY <1>1, MessageType DEF TypeOK, KeyOf
<1>3. QED
  BY <1>2 DEF TypeOK, InPlace, KeyOf, MessageIds

\* Worker w is at key k and goes on to another place of the same delivery.
At(w, k, place) ==
  /\ KeyOf(w) = k
  /\ KeyOK(k)
  /\ pc'[w] = place
  /\ KeyOf(w)' = k
  /\ \A v \in Workers \ {w} : pc'[v] = pc[v] /\ KeyOf(v)' = KeyOf(v)
  /\ \A v \in Workers \ {w} : Runs(v, k)' <=> Runs(v, k)
  /\ Runs(w, k) <=> pc[w] \in Executing
  /\ Runs(w, k)' <=> place \in Executing

(* The key of a busy worker. *)
LEMMA InPlaceAt ==
  ASSUME IInv, NEW w \in Workers, NEW place, InPlace(w, place)
  PROVE  \E k \in Keys : At(w, k, place)
<1>1. PICK k \in Keys : k = KeyOf(w)
  BY InPlaceKeys DEF IInv
<1>2. KeyOK(k)
  BY DEF IInv
<1>3. QED
  BY <1>1, <1>2, InPlaceKeys DEF IInv, At, Runs, Executing

(* It suffices to look at the key of that worker, if the rest is as it was. *)
LEMMA InPlaceStep ==
  ASSUME IInv, TypeOK', NEW w \in Workers, NEW place, InPlace(w, place),
         NEW k \in Keys, At(w, k, place),
         \A j \in Keys \ {k} :
           /\ log'[j] = log[j] /\ done'[j] = done[j]
           /\ unrecorded'[j] = unrecorded[j]
           /\ j \in stranded => j \in stranded',
         (RunnerAt(k) /\ CountedAt(k) /\ AttendedAt(k) /\ UnclaimedAt(k))'
  PROVE  IInv'
<1>1. ASSUME NEW j \in Keys, j # k
      PROVE  KeyOK(j)'
  <2>1. KeyOK(j)
    BY DEF IInv
  <2>2. SameAt(j)
    BY <1>1, InPlaceKeys DEF IInv, SameAt, Runs, At
  <2>3. UnclaimedAt(j)'
    <3>1. \A v \in Workers : pc[v] = "begin" /\ KeyOf(v) = j =>
            pc'[v] = "begin" /\ KeyOf(v)' = j
      BY <1>1 DEF At
    <3>2. queue' = queue /\ MessageIds' = MessageIds
      BY InPlaceKeys DEF IInv, InPlace
    <3>3. QED
      BY <1>1, <2>1, <3>1, <3>2 DEF KeyOK, UnclaimedAt
  <2>4. QED
    BY <2>1, <2>2, <2>3, SameStays DEF KeyOK
<1>2. KeyOK(k)'
  BY DEF KeyOK
<1>3. QED
  BY <1>1, <1>2 DEF IInv

-----------------------------------------------------------------------------
(* The steps of an execution.                                              *)

(* The claim of a free row makes its worker the only one. *)
LEMMA ClaimStep ==
  ASSUME IInv, TypeOK', NEW w \in Workers, Claim(w)
  PROVE  IInv'
<1>1. InPlace(w, "handler")
  BY DEF Claim, InPlace, Go
<1>2. PICK k \in Keys : At(w, k, "handler")
  BY <1>1, InPlaceAt
<1>3. log[k] \in {"none", "failed"} /\ log' = [log EXCEPT ![k] = "running"]
  BY <1>2 DEF Claim, Claimable, At
<1>4. log'[k] = "running" /\ \A j \in Keys \ {k} : log'[j] = log[j]
  BY <1>3 DEF IInv, TypeOK
<1>5. done' = done /\ unrecorded' = unrecorded /\ stranded' = stranded
  BY DEF Claim, observers
<1>6. \A v \in Workers : Runs(v, k)' <=> v = w
  BY <1>2, <1>3 DEF At, KeyOK, RunnerAt, Executing
<1>7. RunnerAt(k)'
  BY <1>2, <1>4, <1>6 DEF RunnerAt, At
<1>8. CountedAt(k)'
  BY <1>2, <1>3, <1>4, <1>5 DEF KeyOK, CountedAt, At
<1>9. AttendedAt(k)' /\ UnclaimedAt(k)'
  BY <1>4, <1>6 DEF AttendedAt, UnclaimedAt
<1>10. QED
  BY <1>1, <1>2, <1>4, <1>5, <1>7, <1>8, <1>9, InPlaceStep

(* A duplicate leaves a row behind that is there. *)
LEMMA SkipStep ==
  ASSUME IInv, TypeOK', NEW w \in Workers, SkipDuplicate(w)
  PROVE  IInv'
<1>1. InPlace(w, "settle") /\ pc[w] = "begin"
  BY DEF SkipDuplicate, InPlace, Go
<1>2. PICK k \in Keys : At(w, k, "settle")
  BY <1>1, InPlaceAt
<1>3. log[k] # "none"
  BY <1>2 DEF SkipDuplicate, Claimable, At
<1>4. /\ log' = log /\ done' = done /\ unrecorded' = unrecorded
      /\ stranded' = stranded
  BY DEF SkipDuplicate, observers
<1>5. \A v \in Workers : /\ Runs(v, k)' <=> Runs(v, k)
                         /\ Runs(v, k) => pc'[v] = pc[v]
  BY <1>1, <1>2 DEF At, Executing
<1>6. RunnerAt(k)' /\ CountedAt(k)'
  BY <1>2, <1>4, <1>5 DEF RunnerAt, CountedAt, At, KeyOK
<1>7. AttendedAt(k)' /\ UnclaimedAt(k)'
  BY <1>2, <1>3, <1>4, <1>5 DEF AttendedAt, UnclaimedAt, At, KeyOK
<1>8. QED
  BY <1>1, <1>2, <1>4, <1>6, <1>7, InPlaceStep

(* A claim whose answer is an error strands the key. *)
LEMMA ClaimErrorStep ==
  ASSUME IInv, TypeOK', NEW w \in Workers, ClaimError(w)
  PROVE  IInv'
<1>1. InPlace(w, "settle") /\ pc[w] = "begin"
  <2>1. task[w] \in Tasks /\ task \in [Workers -> Tasks]
    BY DEF IInv, TypeOK
  <2>2. QED
    BY <2>1 DEF ClaimError, InPlace, Throw, Go, Tasks
<1>2. PICK k \in Keys : At(w, k, "settle")
  BY <1>1, InPlaceAt
<1>3. /\ log[k] \in {"none", "failed"}
      /\ log' = log \/ log' = [log EXCEPT ![k] = "running"]
      /\ stranded' = stranded \cup {k}
  BY <1>2 DEF ClaimError, LogError, Claimable, At
<1>4. /\ log'[k] = log[k] \/ log'[k] = "running"
      /\ \A j \in Keys \ {k} : log'[j] = log[j]
  BY <1>3 DEF IInv, TypeOK
<1>5. done' = done /\ unrecorded' = unrecorded
  BY DEF ClaimError
<1>6. \A v \in Workers : ~Runs(v, k)'
  BY <1>2, <1>3 DEF At, KeyOK, RunnerAt, Executing
<1>7. RunnerAt(k)' /\ AttendedAt(k)' /\ UnclaimedAt(k)'
  BY <1>3, <1>6 DEF RunnerAt, AttendedAt, UnclaimedAt
<1>8. CountedAt(k)'
  BY <1>2, <1>4, <1>5, <1>6 DEF KeyOK, CountedAt, At
<1>9. QED
  BY <1>1, <1>2, <1>3, <1>4, <1>5, <1>7, <1>8, InPlaceStep

(* The worker that executes a key goes on doing so. *)
LEMMA RunnerGoesOn ==
  ASSUME NEW w \in Workers, NEW k \in Keys, NEW place \in Executing,
         At(w, k, place), pc[w] \in Executing,
         log'[k] \in {"running", "succeeded"},
         place # "fail" => log'[k] = "running",
         done'[k] <= 1 + unrecorded'[k],
         place # "complete" => done'[k] <= unrecorded'[k]
  PROVE  (RunnerAt(k) /\ CountedAt(k) /\ AttendedAt(k) /\ UnclaimedAt(k))'
<1>1. \A v \in Workers : Runs(v, k)' <=> v = w
  BY DEF At, KeyOK, RunnerAt
<1>2. RunnerAt(k)'
  BY <1>1 DEF RunnerAt, At
<1>3. CountedAt(k)'
  BY <1>1 DEF CountedAt, At
<1>4. AttendedAt(k)' /\ UnclaimedAt(k)'
  BY <1>1 DEF AttendedAt, UnclaimedAt
<1>5. QED
  BY <1>2, <1>3, <1>4

(* The worker that executes a key ends, with an outcome or with a fault. *)
LEMMA RunnerEnds ==
  ASSUME NEW w \in Workers, NEW k \in Keys, At(w, k, "settle"),
         pc[w] \in Executing,
         log'[k] \in {"succeeded", "failed"} \/ k \in stranded',
         log'[k] # "none",
         done'[k] <= 1 + unrecorded'[k],
         log'[k] = "failed" => done'[k] <= unrecorded'[k]
  PROVE  (RunnerAt(k) /\ CountedAt(k) /\ AttendedAt(k) /\ UnclaimedAt(k))'
<1>1. \A v \in Workers : ~Runs(v, k)'
  BY DEF At, KeyOK, RunnerAt, Executing
<1>2. RunnerAt(k)'
  BY <1>1 DEF RunnerAt
<1>3. CountedAt(k)'
  BY <1>1 DEF CountedAt
<1>4. AttendedAt(k)' /\ UnclaimedAt(k)'
  BY <1>1 DEF AttendedAt, UnclaimedAt
<1>5. QED
  BY <1>2, <1>3, <1>4

(* A worker that throws keeps its message. *)
LEMMA ThrowInPlace ==
  ASSUME TypeOK, NEW w \in Workers, NEW place, NEW error,
         pc[w] # "idle", queue' = queue, Throw(w, place, error)
  PROVE  InPlace(w, place)
<1>1. task[w] \in Tasks /\ task \in [Workers -> Tasks]
  BY DEF TypeOK
<1>2. QED
  BY <1>1 DEF InPlace, Throw, Go, Tasks

(* A handler that returns counts one success, to be recorded. *)
LEMMA HandlerSucceedsStep ==
  ASSUME IInv, TypeOK', NEW w \in Workers, HandlerSucceeds(w)
  PROVE  IInv'
<1>1. InPlace(w, "complete") /\ pc[w] = "handler"
  BY DEF HandlerSucceeds, HandlerReturns, InPlace, Go
<1>2. PICK k \in Keys : At(w, k, "complete")
  BY <1>1, InPlaceAt
<1>3. log[k] = "running" /\ done[k] <= unrecorded[k]
  BY <1>1, <1>2 DEF At, KeyOK, RunnerAt, CountedAt, Executing
<1>4. /\ done'[k] = done[k] + 1
      /\ \A j \in Keys \ {k} : done'[j] = done[j]
  BY <1>2 DEF HandlerSucceeds, HandlerReturns, At, IInv, TypeOK
<1>5. log' = log /\ unrecorded' = unrecorded /\ stranded' = stranded
  BY DEF HandlerSucceeds, HandlerReturns
<1>6. done[k] \in Nat /\ unrecorded[k] \in Nat
  BY DEF IInv, TypeOK
<1>7. done'[k] <= 1 + unrecorded'[k]
  BY <1>3, <1>4, <1>5, <1>6
<1>8. (RunnerAt(k) /\ CountedAt(k) /\ AttendedAt(k) /\ UnclaimedAt(k))'
  BY <1>1, <1>2, <1>3, <1>5, <1>7, RunnerGoesOn DEF Executing
<1>9. QED
  BY <1>1, <1>2, <1>4, <1>5, <1>8, InPlaceStep

(* A result that cannot be recorded is counted as such. *)
LEMMA ResultInvalidStep ==
  ASSUME IInv, TypeOK', NEW w \in Workers, ResultInvalid(w)
  PROVE  IInv'
<1>1. InPlace(w, "fail") /\ pc[w] = "handler"
  BY ThrowInPlace DEF ResultInvalid, HandlerReturns, IInv
<1>2. PICK k \in Keys : At(w, k, "fail")
  BY <1>1, InPlaceAt
<1>3. log[k] = "running" /\ done[k] <= unrecorded[k]
  BY <1>1, <1>2 DEF At, KeyOK, RunnerAt, CountedAt, Executing
<1>4. /\ done'[k] = done[k] + 1
      /\ unrecorded'[k] = unrecorded[k] + 1
      /\ \A j \in Keys \ {k} : done'[j] = done[j]
                              /\ unrecorded'[j] = unrecorded[j]
  BY <1>2 DEF ResultInvalid, HandlerReturns, At, IInv, TypeOK
<1>5. log' = log /\ stranded' = stranded
  BY DEF ResultInvalid, HandlerReturns
<1>6. done[k] \in Nat /\ unrecorded[k] \in Nat
  BY DEF IInv, TypeOK
<1>7. done'[k] <= 1 + unrecorded'[k] /\ done'[k] <= unrecorded'[k]
  BY <1>3, <1>4, <1>6
<1>8. (RunnerAt(k) /\ CountedAt(k) /\ AttendedAt(k) /\ UnclaimedAt(k))'
  BY <1>1, <1>2, <1>3, <1>5, <1>7, RunnerGoesOn DEF Executing
<1>9. QED
  BY <1>1, <1>2, <1>4, <1>5, <1>8, InPlaceStep

(* A handler that throws has its failure recorded. *)
LEMMA HandlerThrowsStep ==
  ASSUME IInv, TypeOK', NEW w \in Workers, NEW error, HandlerThrows(w, error)
  PROVE  IInv'
<1>1. InPlace(w, "fail") /\ pc[w] = "handler"
  BY ThrowInPlace DEF HandlerThrows, IInv
<1>2. PICK k \in Keys : At(w, k, "fail")
  BY <1>1, InPlaceAt
<1>3. log[k] = "running" /\ done[k] <= unrecorded[k]
  BY <1>1, <1>2 DEF At, KeyOK, RunnerAt, CountedAt, Executing
<1>4. /\ log' = log /\ done' = done /\ unrecorded' = unrecorded
      /\ stranded' = stranded
  BY DEF HandlerThrows, observers
<1>5. done[k] \in Nat /\ unrecorded[k] \in Nat
  BY DEF IInv, TypeOK
<1>6. done'[k] <= 1 + unrecorded'[k] /\ done'[k] <= unrecorded'[k]
  BY <1>3, <1>4, <1>5
<1>7. (RunnerAt(k) /\ CountedAt(k) /\ AttendedAt(k) /\ UnclaimedAt(k))'
  BY <1>1, <1>2, <1>3, <1>4, <1>6, RunnerGoesOn DEF Executing
<1>8. QED
  BY <1>1, <1>2, <1>4, <1>7, InPlaceStep

(* A recorded success ends the execution. *)
LEMMA CompleteStep ==
  ASSUME IInv, TypeOK', NEW w \in Workers, Complete(w)
  PROVE  IInv'
<1>1. InPlace(w, "settle") /\ pc[w] = "complete"
  BY DEF Complete, InPlace, Go
<1>2. PICK k \in Keys : At(w, k, "settle")
  BY <1>1, InPlaceAt
<1>3. log'[k] = "succeeded" /\ \A j \in Keys \ {k} : log'[j] = log[j]
  BY <1>2 DEF Complete, At, IInv, TypeOK
<1>4. done' = done /\ unrecorded' = unrecorded /\ stranded' = stranded
  BY DEF Complete, observers
<1>5. done'[k] <= 1 + unrecorded'[k]
  BY <1>2, <1>4 DEF At, KeyOK, CountedAt
<1>6. (RunnerAt(k) /\ CountedAt(k) /\ AttendedAt(k) /\ UnclaimedAt(k))'
  BY <1>1, <1>2, <1>3, <1>5, RunnerEnds DEF Executing
<1>7. QED
  BY <1>1, <1>2, <1>3, <1>4, <1>6, InPlaceStep

(* A success that could not be recorded is counted and recorded as failed. *)
LEMMA CompleteErrorStep ==
  ASSUME IInv, TypeOK', NEW w \in Workers, CompleteError(w)
  PROVE  IInv'
<1>1. InPlace(w, "fail") /\ pc[w] = "complete"
  BY ThrowInPlace DEF CompleteError, IInv
<1>2. PICK k \in Keys : At(w, k, "fail")
  BY <1>1, InPlaceAt
<1>3. log[k] = "running" /\ done[k] <= 1 + unrecorded[k]
  BY <1>1, <1>2 DEF At, KeyOK, RunnerAt, CountedAt, Executing
<1>4. log' = log \/ log' = [log EXCEPT ![k] = "succeeded"]
  BY <1>2 DEF CompleteError, LogError, At
<1>5. /\ log'[k] \in {"running", "succeeded"}
      /\ \A j \in Keys \ {k} : log'[j] = log[j]
  BY <1>3, <1>4 DEF IInv, TypeOK
<1>6. /\ unrecorded'[k] = unrecorded[k] + 1
      /\ \A j \in Keys \ {k} : unrecorded'[j] = unrecorded[j]
  BY <1>2 DEF CompleteError, At, IInv, TypeOK
<1>7. done' = done /\ stranded' = stranded
  BY DEF CompleteError
<1>8. done[k] \in Nat /\ unrecorded[k] \in Nat
  BY DEF IInv, TypeOK
<1>9. done'[k] <= 1 + unrecorded'[k] /\ done'[k] <= unrecorded'[k]
  BY <1>3, <1>6, <1>7, <1>8
<1>10. (RunnerAt(k) /\ CountedAt(k) /\ AttendedAt(k) /\ UnclaimedAt(k))'
  BY <1>1, <1>2, <1>5, <1>9, RunnerGoesOn DEF Executing
<1>11. QED
  BY <1>1, <1>2, <1>5, <1>6, <1>7, <1>10, InPlaceStep

(* A recorded failure ends the execution. *)
LEMMA FailStep ==
  ASSUME IInv, TypeOK', NEW w \in Workers, Fail(w)
  PROVE  IInv'
<1>1. InPlace(w, "settle") /\ pc[w] = "fail"
  BY DEF Fail, InPlace, Go
<1>2. PICK k \in Keys : At(w, k, "settle")
  BY <1>1, InPlaceAt
<1>3. log'[k] = "failed" /\ \A j \in Keys \ {k} : log'[j] = log[j]
  BY <1>2 DEF Fail, At, IInv, TypeOK
<1>4. done' = done /\ unrecorded' = unrecorded /\ stranded' = stranded
  BY DEF Fail, observers
<1>5. done'[k] <= 1 + unrecorded'[k] /\ done'[k] <= unrecorded'[k]
  BY <1>1, <1>2, <1>4 DEF At, KeyOK, CountedAt, Executing
<1>6. (RunnerAt(k) /\ CountedAt(k) /\ AttendedAt(k) /\ UnclaimedAt(k))'
  BY <1>1, <1>2, <1>3, <1>5, RunnerEnds DEF Executing
<1>7. QED
  BY <1>1, <1>2, <1>3, <1>4, <1>6, InPlaceStep

(* A failure that could not be recorded strands the key. *)
LEMMA FailErrorStep ==
  ASSUME IInv, TypeOK', NEW w \in Workers, FailError(w)
  PROVE  IInv'
<1>1. InPlace(w, "settle") /\ pc[w] = "fail"
  BY ThrowInPlace DEF FailError, IInv
<1>2. PICK k \in Keys : At(w, k, "settle")
  BY <1>1, InPlaceAt
<1>3. log[k] \in {"running", "succeeded"}
  BY <1>1, <1>2 DEF At, KeyOK, RunnerAt, Executing
<1>4. /\ log' = log \/ log' = [log EXCEPT ![k] = "failed"]
      /\ stranded' = stranded \cup {k}
  BY <1>2 DEF FailError, LogError, At
<1>5. /\ log'[k] # "none"
      /\ \A j \in Keys \ {k} : log'[j] = log[j]
  BY <1>3, <1>4 DEF IInv, TypeOK
<1>6. done' = done /\ unrecorded' = unrecorded
  BY DEF FailError
<1>7. done'[k] <= 1 + unrecorded'[k] /\ done'[k] <= unrecorded'[k]
  BY <1>1, <1>2, <1>6 DEF At, KeyOK, CountedAt, Executing
<1>8. (RunnerAt(k) /\ CountedAt(k) /\ AttendedAt(k) /\ UnclaimedAt(k))'
  BY <1>1, <1>2, <1>4, <1>5, <1>7, RunnerEnds DEF Executing
<1>9. QED
  BY <1>1, <1>2, <1>4, <1>5, <1>6, <1>8, InPlaceStep

-----------------------------------------------------------------------------
(* The steps of the queue.                                                 *)

\* Messages keep their keys; every worker but w goes on as it was.
OthersKept(w) ==
  /\ \A i \in MessageIds : i \in MessageIds' /\ queue'[i].key = queue[i].key
  /\ \A v \in Workers \ {w} : pc'[v] = pc[v] /\ task'[v] = task[v]

(* Then every other busy worker is still at the same key. *)
LEMMA OthersKeys ==
  ASSUME TypeOK, NEW w, OthersKept(w),
         NEW v \in Workers \ {w}, pc[v] # "idle"
  PROVE  KeyOf(v)' = KeyOf(v) /\ pc'[v] = pc[v]
<1>1. task[v].message \in MessageIds
  BY DEF TypeOK
<1>2. QED
  BY <1>1 DEF OthersKept, KeyOf

(* A worker that executes nothing before and after changes nothing but what *)
(* is attended.                                                             *)
LEMMA QuietStep ==
  ASSUME IInv, TypeOK', NEW w, OthersKept(w),
         w \in Workers => /\ pc[w] \notin Executing
                          /\ pc'[w] \notin Executing \cup {"settle"},
         UNCHANGED <<log, done, unrecorded, stranded>>,
         \A j \in Keys : UnclaimedAt(j)'
  PROVE  IInv'
<1>1. ASSUME NEW j \in Keys
      PROVE  KeyOK(j)'
  <2>1. KeyOK(j)
    BY DEF IInv
  <2>2. ASSUME NEW v \in Workers, v # w
        PROVE  /\ Runs(v, j)' <=> Runs(v, j)
               /\ Runs(v, j) => pc'[v] = pc[v]
               /\ pc'[v] = "settle" /\ KeyOf(v)' = j =>
                    pc[v] = "settle" /\ KeyOf(v) = j
    <3>1. pc'[v] = pc[v]
      BY <2>2 DEF OthersKept
    <3>2. pc[v] # "idle" => KeyOf(v)' = KeyOf(v)
      BY <2>2, OthersKeys DEF IInv
    <3>3. QED
      BY <3>1, <3>2 DEF Runs
  <2>3. SameAt(j)
    BY <2>2 DEF SameAt, Runs, Executing
  <2>4. QED
    BY <2>1, <2>3, SameStays DEF KeyOK
<1>2. QED
  BY <1>1 DEF IInv

(* What a moved message leaves to be claimed. *)
LEMMA MovedKept ==
  ASSUME NEW m \in MessageIds, NEW place, Moved(m, place)
  PROVE  /\ MessageIds' = MessageIds
         /\ \A i \in MessageIds : queue'[i].key = queue[i].key
         /\ \A i \in MessageIds \ {m} : queue'[i] = queue[i]
         /\ queue'[m].place = place
BY DEF Moved, MessageIds

(* A key is still to be claimed if it was and neither its worker nor its    *)
(* message is concerned.                                                    *)
LEMMA UnclaimedElsewhere ==
  ASSUME IInv, NEW w \in Workers, OthersKept(w),
         NEW m \in MessageIds, NEW place, Moved(m, place),
         NEW j \in Keys, queue[m].key # j,
         pc[w] = "begin" => KeyOf(w) # j,
         log' = log, j \in stranded => j \in stranded'
  PROVE  UnclaimedAt(j)'
<1>1. UnclaimedAt(j)
  BY DEF IInv, KeyOK
<1>2. \A v \in Workers : pc[v] = "begin" /\ KeyOf(v) = j =>
        pc'[v] = "begin" /\ KeyOf(v)' = j
  BY OthersKeys DEF IInv
<1>3. QED
  BY <1>1, <1>2, MovedKept DEF UnclaimedAt

(* A delivery gives the key somebody who will claim it. *)
LEMMA TakeStep ==
  ASSUME IInv, TypeOK', NEW w \in Workers, NEW m \in MessageIds, NEW n,
         Take(w, m, n)
  PROVE  IInv'
<1>1. Moved(m, "inflight")
  BY TakeMoves DEF IInv, TypeOK
<1>2. OthersKept(w)
  BY <1>1, MovedKept DEF Take, Go, OthersKept, IInv, TypeOK
<1>3. pc[w] = "idle" /\ pc'[w] = "begin" /\ KeyOf(w)' = queue[m].key
  BY <1>1, MovedKept DEF Take, Go, KeyOf, IInv, TypeOK
<1>4. UNCHANGED <<log, done, unrecorded, stranded>>
  BY DEF Take, observers
<1>5. ASSUME NEW j \in Keys
      PROVE  UnclaimedAt(j)'
  <2>1. CASE queue[m].key = j
    BY <1>3, <2>1 DEF UnclaimedAt
  <2>2. CASE queue[m].key # j
    BY <1>1, <1>2, <1>3, <1>4, <2>2, UnclaimedElsewhere
  <2>3. QED
    BY <2>1, <2>2
<1>6. QED
  BY <1>2, <1>3, <1>4, <1>5, QuietStep DEF Executing

(* A delivery that is over has left a row or a fault. *)
LEMMA SettleStep ==
  ASSUME IInv, TypeOK', NEW w \in Workers, Settle(w)
  PROVE  IInv'
<1> DEFINE m == task[w].message
<1>1. m \in MessageIds /\ pc[w] = "settle" /\ pc'[w] = "idle"
  BY DEF Settle, Leave, Go, IInv, TypeOK
<1>2. PICK place \in {"ready", "acked"} : Moved(m, place)
  BY SettledMoves DEF IInv
<1>3. OthersKept(w)
  BY <1>1, <1>2, MovedKept DEF Settle, Leave, Go, OthersKept, IInv, TypeOK
<1>4. UNCHANGED <<log, done, unrecorded, stranded>>
  BY DEF Settle, observers
<1>5. ASSUME NEW j \in Keys
      PROVE  UnclaimedAt(j)'
  <2>1. CASE queue[m].key = j
    <3>1. log[j] # "none" \/ j \in stranded
      BY <1>1, <2>1 DEF IInv, KeyOK, AttendedAt, KeyOf
    <3>2. QED
      BY <1>4, <3>1 DEF UnclaimedAt
  <2>2. CASE queue[m].key # j
    BY <1>1, <1>2, <1>3, <1>4, <2>2, UnclaimedElsewhere
  <2>3. QED
    BY <2>1, <2>2
<1>6. QED
  BY <1>1, <1>3, <1>4, <1>5, QuietStep DEF Executing

(* An invocation that dies gives its message back; if it was executing a   *)
(* key, that key is stranded.                                              *)
LEMMA CrashStep ==
  ASSUME IInv, TypeOK', NEW w \in Workers, Crash(w)
  PROVE  IInv'
<1> DEFINE m == task[w].message
<1>1. m \in MessageIds /\ pc[w] # "idle" /\ pc'[w] = "idle"
  BY DEF Crash, Leave, Go, IInv, TypeOK
<1>2. Moved(m, "ready")
  BY CrashMoves DEF IInv
<1>3. OthersKept(w)
  BY <1>1, <1>2, MovedKept DEF Crash, Leave, Go, OthersKept, IInv, TypeOK
<1>4. UNCHANGED <<log, done, unrecorded>> /\ stranded \subseteq stranded'
  BY DEF Crash
<1>5. PICK k \in Keys : k = queue[m].key
  BY <1>1, MessageType DEF IInv, TypeOK
<1>6. ASSUME NEW j \in Keys
      PROVE  UnclaimedAt(j)'
  <2>1. CASE k = j
    BY <1>1, <1>2, <1>5, <2>1, MovedKept DEF UnclaimedAt
  <2>2. CASE k # j
    BY <1>1, <1>2, <1>3, <1>4, <1>5, <2>2, UnclaimedElsewhere DEF KeyOf
  <2>3. QED
    BY <2>1, <2>2
<1>7. CASE pc[w] \notin Executing
  <2>1. stranded' = stranded
    BY <1>7 DEF Crash, Executing
  <2>2. QED
    BY <1>1, <1>3, <1>4, <1>6, <1>7, <2>1, QuietStep DEF Executing
<1>8. CASE pc[w] \in Executing
  <2>1. KeyOf(w) = k /\ k \in stranded'
    BY <1>5, <1>8 DEF Crash, Executing, KeyOf
  <2>2. ASSUME NEW j \in Keys, NEW v \in Workers, v # w
        PROVE  /\ Runs(v, j)' <=> Runs(v, j)
               /\ Runs(v, j) => pc'[v] = pc[v]
               /\ pc'[v] = "settle" /\ KeyOf(v)' = j =>
                    pc[v] = "settle" /\ KeyOf(v) = j
    <3>1. pc'[v] = pc[v]
      BY <1>3, <2>2 DEF OthersKept
    <3>2. pc[v] # "idle" => KeyOf(v)' = KeyOf(v)
      BY <1>3, <2>2, OthersKeys DEF IInv
    <3>3. QED
      BY <3>1, <3>2 DEF Runs
  <2>3. ASSUME NEW j \in Keys, j # k
        PROVE  KeyOK(j)'
    <3>1. KeyOK(j)
      BY DEF IInv
    <3>2. SameAt(j)
      BY <1>1, <1>4, <2>1, <2>2, <2>3 DEF SameAt, Runs
    <3>3. QED
      BY <1>6, <3>1, <3>2, SameStays DEF KeyOK
  <2>4. KeyOK(k)'
    <3>1. KeyOK(k)
      BY DEF IInv
    <3>2. Runs(w, k) /\ ~Runs(w, k)'
      BY <1>1, <1>8, <2>1 DEF Runs, Executing
    <3>3. \A v \in Workers : ~Runs(v, k)'
      BY <2>2, <3>1, <3>2 DEF KeyOK, RunnerAt
    <3>4. RunnerAt(k)' /\ AttendedAt(k)'
      BY <2>1, <3>3 DEF RunnerAt, AttendedAt
    <3>5. CountedAt(k)'
      BY <1>4, <3>1, <3>3 DEF KeyOK, CountedAt
    <3>6. QED
      BY <1>6, <3>4, <3>5 DEF KeyOK
  <2>5. QED
    BY <2>3, <2>4 DEF IInv
<1>9. QED
  BY <1>7, <1>8

(* A message that is sent gives the key something to be claimed by. *)
LEMMA SendStep ==
  ASSUME IInv, TypeOK', NEW k \in Keys, Send(k),
         UNCHANGED <<log, pc, task, observers>>
  PROVE  IInv'
<1>1. /\ Len(queue') = Len(queue) + 1
      /\ \A i \in 1..Len(queue) : queue'[i] = queue[i]
      /\ queue'[Len(queue) + 1].key = k
      /\ queue'[Len(queue) + 1].place = "ready"
  BY MessageSent DEF IInv, TypeOK
<1>2. Len(queue) \in Nat
  BY DEF IInv, TypeOK
<1>3. /\ \A i \in MessageIds : i \in MessageIds' /\ queue'[i] = queue[i]
      /\ Len(queue) + 1 \in MessageIds'
      /\ \A i \in MessageIds' : i \in MessageIds \/ i = Len(queue) + 1
  BY <1>1, <1>2 DEF MessageIds
<1>4. PICK nobody : nobody \notin Workers
  BY NoSetContainsEverything
<1>5. OthersKept(nobody)
  BY <1>3, <1>4 DEF OthersKept
<1>6. ASSUME NEW j \in Keys
      PROVE  UnclaimedAt(j)'
  <2>1. UnclaimedAt(j)
    BY DEF IInv, KeyOK
  <2>2. CASE j = k
    BY <1>1, <1>3, <2>2 DEF UnclaimedAt
  <2>3. CASE j # k
    <3>1. \A v \in Workers : pc[v] = "begin" /\ KeyOf(v) = j =>
            pc'[v] = "begin" /\ KeyOf(v)' = j
      BY <1>4, <1>5, OthersKeys DEF IInv
    <3>2. QED
      BY <1>1, <1>3, <2>1, <2>3, <3>1 DEF UnclaimedAt, observers
  <2>4. QED
    BY <2>2, <2>3
<1>7. QED
  BY <1>4, <1>5, <1>6, QuietStep DEF observers

(* Nothing the invariant speaks of changes. *)
LEMMA StutterStep ==
  ASSUME IInv, TypeOK', UNCHANGED <<log, queue, pc, task, observers>>
  PROVE  IInv'
BY DEF IInv, KeyOK, RunnerAt, CountedAt, AttendedAt, UnclaimedAt, Runs, KeyOf,
       MessageIds, observers

(* Every action keeps the invariant. *)
LEMMA InvariantStep == IInv /\ [Next]_vars => IInv'
<1> SUFFICES ASSUME IInv, [Next]_vars
             PROVE  IInv'
  OBVIOUS
<1>1. TypeOK'
  BY TypeStep DEF IInv
<1>2. ASSUME NEW k \in Keys, Dispatch(k)
      PROVE  IInv'
  BY <1>1, <1>2, SendStep DEF Dispatch
<1>3. ASSUME NEW k \in Keys, NEW o \in Operators, RetryLookup(o, k)
      PROVE  IInv'
  BY <1>1, <1>3, StutterStep DEF RetryLookup
<1>4. ASSUME NEW o \in Operators, RetrySend(o)
      PROVE  IInv'
  <2>1. PICK k \in Keys : k = asking[o]
    BY <1>4 DEF RetrySend, IInv, TypeOK
  <2>2. Send(k)
    BY <1>4, <2>1 DEF RetrySend
  <2>3. QED
    BY <1>1, <1>4, <2>2, SendStep DEF RetrySend
<1>5. ASSUME NEW w \in Workers, NEW m \in MessageIds,
             Deliver(w, m) \/ DeliverAgain(w, m)
      PROVE  IInv'
  BY <1>1, <1>5, TakeStep DEF Deliver, DeliverAgain
<1>6. ASSUME NEW w \in Workers, Step(w)
      PROVE  IInv'
  BY <1>1, <1>6, ClaimStep, SkipStep, HandlerSucceedsStep, ResultInvalidStep,
     HandlerThrowsStep, CompleteStep, FailStep, SettleStep DEF Step, Handle
<1>7. ASSUME NEW w \in Workers, Fault(w)
      PROVE  IInv'
  BY <1>1, <1>7, ClaimErrorStep, CompleteErrorStep, FailErrorStep, CrashStep
  DEF Fault
<1>8. CASE UNCHANGED vars
  BY <1>1, <1>8, StutterStep DEF vars, observers
<1>9. QED
  BY <1>2, <1>3, <1>4, <1>5, <1>6, <1>7, <1>8 DEF Next, Produce

(* In the beginning there is nothing. *)
LEMMA InvariantInit == Init => IInv
<1> SUFFICES ASSUME Init
             PROVE  IInv
  OBVIOUS
<1>1. TypeOK
  <2>1. NoTask \in Tasks
    BY DEF NoTask, Tasks
  <2>2. QED
    BY <2>1, NumbersAssumption DEF Init, TypeOK
<1>2. ASSUME NEW k \in Keys
      PROVE  KeyOK(k)
  BY DEF Init, KeyOK, RunnerAt, CountedAt, AttendedAt, UnclaimedAt, Runs,
         MessageIds
<1>3. QED
  BY <1>1, <1>2 DEF IInv

-----------------------------------------------------------------------------
(* Theorems.                                                               *)

(* The invariant holds in every behaviour. *)
LEMMA Invariance == Spec => []IInv
BY InvariantInit, InvariantStep, PTL DEF Spec

(* Rows, messages and deliveries keep their types (JobExecutor.execute,    *)
(* processJobMessage).                                                     *)
THEOREM TypeCorrect == Spec => []TypeOK
<1>1. IInv => TypeOK
  BY DEF IInv
<1>2. QED
  BY <1>1, Invariance, PTL

(* However often messages are delivered and retried, one delivery at a     *)
(* time executes a key (D1JobExecutionLog.claim).                          *)
THEOREM OneRunner == Spec => []SoleRunner
<1>1. IInv => SoleRunner
  BY DEF IInv, KeyOK, RunnerAt, SoleRunner
<1>2. QED
  BY <1>1, Invariance, PTL

(* A recorded success is never repeated (begin, complete and fail).        *)
THEOREM RecordedSuccessIsFinal == Spec => []RerunsUnrecordedOnly
<1>1. IInv => RerunsUnrecordedOnly
  BY DEF IInv, KeyOK, CountedAt, RerunsUnrecordedOnly
<1>2. QED
  BY <1>1, Invariance, PTL

(* Only a fault of the log or of an invocation loses a job without an      *)
(* outcome (execute and processJobMessage).                                *)
THEOREM NothingElseIsLost == Spec => []NoSilentLoss
<1>1. IInv => NoSilentLoss
  <2> SUFFICES ASSUME IInv, NEW k \in Keys, NEW m \in MessageIds,
                      queue[m].key = k, ~Attended(k)
               PROVE  log[k] \in {"succeeded", "failed"} \/ k \in stranded
    BY DEF NoSilentLoss
  <2>1. log[k] \in {"none", "running", "succeeded", "failed"}
    BY DEF IInv, TypeOK
  <2>2. QED
    BY <2>1 DEF IInv, KeyOK, AttendedAt, UnclaimedAt, Attended
<1>2. QED
  BY <1>1, Invariance, PTL

=============================================================================
