------------------------- MODULE DataPatchesProofs -------------------------
(***************************************************************************)
(* For any registry, any number of workers and any number of claims: the   *)
(* journal of data patches is true, a patch's code is entered by one       *)
(* worker at a time, patches are first applied in registry order, and a    *)
(* completed effect is only ever undone by its own rollback.               *)
(***************************************************************************)
EXTENDS DataPatches, FiniteSetTheorems, TLAPS

-----------------------------------------------------------------------------
(* The inductive invariant. *)

Claiming == {"claimed", "run", "complete", "fail",
             "undo", "completeRollback", "failRollback"}

Applying == {"pending", "recorded", "claim", "claimed", "run", "complete",
             "fail", "readFailed", "clear"}

(* The patch was applied once. *)
Landed(p) ==
    Status(p) \in {"applied", "rollback_pending", "rolled_back", "rollback_failed"}

(* A claim id belongs to one worker. *)
ClaimsDistinct ==
    \A v, w \in Workers :
        v # w /\ pc[v] \in Claiming /\ pc[w] \in Claiming => claim[v] # claim[w]

(* The row under a running patch is the worker's own. *)
RunOK(w) ==
    pc[w] \in {"run", "complete", "fail"} =>
        \A p \in Patches : IsFirst(p, todo[w]) =>
            /\ Holds(w, p, "pending")
            /\ pc[w] = "complete" => data[p] = "done"
            /\ pc[w] # "complete" => data[p] = "dirty"

UndoOK(w) ==
    pc[w] \in {"undo", "completeRollback", "failRollback"} =>
        \A p \in Patches : IsLast(p, todo[w]) =>
            /\ Holds(w, p, "rollback_pending")
            /\ pc[w] = "completeRollback" => data[p] = "clean"
            /\ pc[w] # "completeRollback" => data[p] = "dirty"

(* A claim just won is on a patch that was not completed. *)
ClaimedOK(w) ==
    pc[w] = "claimed" =>
        \A p \in Patches : Holds(w, p, "pending") => data[p] # "done"

(* Whatever comes before a selected patch and is not selected was applied. *)
ReadyOK(w) ==
    pc[w] \in Applying =>
        \A p \in todo[w], q \in Patches : q \notin todo[w] /\ q < p => Landed(q)

WorkerOK(w) == RunOK(w) /\ UndoOK(w) /\ ClaimedOK(w) /\ ReadyOK(w)

IInv ==
    /\ TypeOK
    /\ JournalTrue
    /\ AppliesInOrder
    /\ ClaimsDistinct
    /\ \A w \in Workers : WorkerOK(w)

-----------------------------------------------------------------------------
(* Types. *)

(* The plans only select patches that were asked for. *)
LEMMA PlansSelect ==
    ASSUME NEW S \in SUBSET Patches, NEW n \in Nat
    PROVE  /\ FirstOf(S, n) \subseteq S
           /\ LastOf(S, n) \subseteq S
           /\ PendingPatches(S) \subseteq S
           /\ ApplyPlan(S) \subseteq S
           /\ AutomaticRollback(n) \subseteq Patches
BY DEF FirstOf, LastOf, PendingPatches, ApplyPlan, AutomaticRollback, Reached

(* A request that ends leaves a well-typed idle worker (End). *)
LEMMA EndTyped ==
    ASSUME TypeOK, NEW w \in Workers, End(w)
    PROVE  /\ pc' \in [Workers -> Steps]
           /\ todo' \in [Workers -> SUBSET Patches]
           /\ limit' \in [Workers -> 0 .. PatchCount]
           /\ claim' \in [Workers -> 0 .. issued]
           /\ pc'[w] = "idle"
           /\ \A v \in Workers \ {w} :
                pc'[v] = pc[v] /\ todo'[v] = todo[v] /\ claim'[v] = claim[v]
<1>1. 0 \in 0 .. PatchCount /\ 0 \in 0 .. issued
  BY PatchCountAssumption DEF TypeOK
<1> QED BY <1>1 DEF TypeOK, End, Goto, Steps

(* So does a loop that goes on with some of the patches (Continue). *)
LEMMA ContinueTyped ==
    ASSUME TypeOK, NEW w \in Workers, NEW S \in SUBSET Patches,
           NEW step \in Steps, Continue(w, S, step)
    PROVE  /\ pc' \in [Workers -> Steps]
           /\ todo' \in [Workers -> SUBSET Patches]
           /\ limit' \in [Workers -> 0 .. PatchCount]
           /\ claim' \in [Workers -> 0 .. issued]
           /\ pc'[w] = "idle" \/ (pc'[w] = step /\ todo'[w] = S)
           /\ \A v \in Workers \ {w} :
                pc'[v] = pc[v] /\ todo'[v] = todo[v] /\ claim'[v] = claim[v]
<1>1. 0 \in 0 .. PatchCount /\ 0 \in 0 .. issued
  BY PatchCountAssumption DEF TypeOK
<1>2. CASE S = {}
  BY <1>2, EndTyped DEF Continue
<1>3. CASE S # {}
  BY <1>1, <1>3 DEF TypeOK, Continue, Goto
<1> QED BY <1>2, <1>3

(* A row written under a claim id that was handed out (Write). *)
LEMMA WriteTyped ==
    ASSUME TypeOK, NEW p \in Patches, NEW status \in Statuses, NEW id \in Nat,
           Write(p, status, id), issued' \in Nat, issued <= issued', id <= issued'
    PROVE  /\ journal' \in [Patches -> Row]
           /\ \A q \in Patches : journal'[q].claim <= issued'
           /\ journal'[p].status = status /\ journal'[p].claim = id
           /\ \A q \in Patches \ {p} : journal'[q] = journal[q]
<1>1. [status |-> status, claim |-> id] \in Row
  BY DEF Row
<1>2. journal' \in [Patches -> Row]
  BY <1>1 DEF TypeOK, Write
<1>3. journal'[p] = [status |-> status, claim |-> id]
  BY DEF TypeOK, Write
<1>4. \A q \in Patches \ {p} : journal'[q] = journal[q]
  BY DEF TypeOK, Write
<1>5. ASSUME NEW q \in Patches PROVE journal'[q].claim <= issued'
  <2>1. CASE q = p
    BY <1>3, <2>1
  <2>2. CASE q # p
    <3>1. journal'[q] = journal[q] /\ journal[q].claim <= issued
      BY <1>4, <2>2 DEF TypeOK
    <3>2. journal[q].claim \in Nat /\ issued \in Nat
      BY DEF TypeOK, Row
    <3> QED BY <3>1, <3>2
  <2> QED BY <2>1, <2>2
<1> QED BY <1>2, <1>3, <1>4, <1>5

-----------------------------------------------------------------------------
(* What a step of one worker has to establish. *)

(* The other workers are where they were. *)
Moves(w) ==
    \A v \in Workers \ {w} :
        pc'[v] = pc[v] /\ todo'[v] = todo[v] /\ claim'[v] = claim[v]

(* The worker keeps its claim id, gives it up, or takes a fresh one. *)
ClaimKept(w) ==
    pc'[w] \in Claiming =>
        \/ pc[w] \in Claiming /\ claim'[w] = claim[w]
        \/ claim'[w] = issued + 1

(* A claim id stays with one worker. *)
LEMMA ClaimsStayDistinct ==
    ASSUME TypeOK, ClaimsDistinct, NEW w \in Workers, Moves(w), ClaimKept(w)
    PROVE  ClaimsDistinct'
<1> SUFFICES ASSUME NEW u \in Workers, NEW v \in Workers, u # v,
                    pc'[u] \in Claiming, pc'[v] \in Claiming
             PROVE  claim'[u] # claim'[v]
  BY DEF ClaimsDistinct
<1>1. \A x \in Workers : claim[x] \in Nat /\ claim[x] <= issued /\ issued \in Nat
  BY DEF TypeOK
<1>2. CASE u # w /\ v # w
  BY <1>2 DEF Moves, ClaimsDistinct
<1>3. CASE u = w
  <2>1. claim'[v] = claim[v] /\ pc[v] \in Claiming
    BY <1>3 DEF Moves
  <2> QED BY <1>1, <1>3, <2>1 DEF ClaimKept, ClaimsDistinct
<1>4. CASE v = w
  <2>1. claim'[u] = claim[u] /\ pc[u] \in Claiming
    BY <1>4 DEF Moves
  <2> QED BY <1>1, <1>4, <2>1 DEF ClaimKept, ClaimsDistinct
<1> QED BY <1>2, <1>3, <1>4

(* A step that writes neither the journal nor the data. *)
LEMMA QuietStep ==
    ASSUME IInv, TypeOK', NEW w \in Workers, Moves(w), ClaimKept(w),
           UNCHANGED <<journal, data>>, WorkerOK(w)'
    PROVE  IInv'
<1>1. ClaimsDistinct'
  BY ClaimsStayDistinct DEF IInv
<1>2. JournalTrue' /\ AppliesInOrder'
  BY DEF IInv, JournalTrue, AppliesInOrder, Status
<1>3. ASSUME NEW v \in Workers \ {w} PROVE WorkerOK(v)'
  <2>1. pc'[v] = pc[v] /\ todo'[v] = todo[v] /\ claim'[v] = claim[v]
    BY DEF Moves
  <2>2. WorkerOK(v)
    BY DEF IInv
  <2> QED
    BY <2>1, <2>2 DEF WorkerOK, RunOK, UndoOK, ClaimedOK, ReadyOK, Holds, Landed,
                      Status, IsFirst, IsLast
<1> QED BY <1>1, <1>2, <1>3 DEF IInv

(* A worker that is neither claiming nor applying has nothing to keep. *)
LEMMA FreeWorker ==
    ASSUME NEW w \in Workers, pc'[w] \notin Claiming, pc'[w] \notin Applying
    PROVE  WorkerOK(w)' /\ ClaimKept(w)
BY DEF WorkerOK, RunOK, UndoOK, ClaimedOK, ReadyOK, Claiming, Applying, ClaimKept

(* A request that throws: nothing is written and the worker is idle. *)
LEMMA ThrowStep ==
    ASSUME IInv, NEW w \in Workers, Throw(w)
    PROVE  IInv'
<1>1. TypeOK
  BY DEF IInv
<1>2. End(w) /\ UNCHANGED <<journal, data, issued>>
  BY DEF Throw
<1>3. TypeOK'
  BY <1>1, <1>2, EndTyped DEF TypeOK
<1>4. pc'[w] = "idle" /\ Moves(w)
  BY <1>1, <1>2, EndTyped DEF Moves
<1>5. WorkerOK(w)' /\ ClaimKept(w)
  BY <1>4, FreeWorker DEF Claiming, Applying
<1> QED BY <1>2, <1>3, <1>4, <1>5, QuietStep

(* What a step must keep of the row and the effect of the one patch it     *)
(* touches: once applied is for good, the row tells the truth, rows appear *)
(* in order and vanish only when the patch never landed, and another       *)
(* worker's claim is not touched.                                          *)
RowKept(w, p) ==
    /\ Landed(p) => Landed(p)'
    /\ Status(p)' = "applied" => data'[p] = "done"
    /\ Status(p)' = "rolled_back" => data'[p] = "clean"
    /\ Status(p)' \in {"failed", "rollback_failed"} => data'[p] = "dirty"
    /\ Status(p)' = "none" => data'[p] # "done"
    /\ Status(p) = "none" /\ Status(p)' # "none" =>
            \A q \in Patches : q < p => Landed(q)
    /\ \A v \in Workers \ {w} : pc[v] \in Claiming =>
            /\ ~ Holds(v, p, "pending") /\ ~ Holds(v, p, "rollback_pending")
            /\ journal'[p].claim # claim[v] \/ Status(p)' # "pending"

(* A step that writes the row or the effect of one patch. *)
LEMMA WriteStep ==
    ASSUME IInv, TypeOK', NEW w \in Workers, NEW p \in Patches,
           Moves(w), ClaimKept(w), RowKept(w, p), WorkerOK(w)',
           \A q \in Patches \ {p} : journal'[q] = journal[q] /\ data'[q] = data[q]
    PROVE  IInv'
<1>1. ClaimsDistinct'
  BY ClaimsStayDistinct DEF IInv
<1>2. \A q \in Patches : Landed(q) => Landed(q)'
  BY DEF RowKept, Landed, Status
<1>3. JournalTrue'
  BY DEF IInv, JournalTrue, RowKept, Status
<1>4. AppliesInOrder'
  <2> SUFFICES ASSUME NEW r \in Patches, NEW q \in Patches, q < r,
                      Status(r)' # "none"
               PROVE  Landed(q)'
    BY DEF AppliesInOrder, Landed
  <2>1. CASE Status(r) # "none"
    <3>1. Landed(q)
      BY <2>1 DEF IInv, AppliesInOrder, Landed
    <3> QED BY <1>2, <3>1
  <2>2. CASE Status(r) = "none"
    <3>1. r = p
      BY <2>2 DEF Status
    <3>2. Landed(q)
      BY <2>2, <3>1 DEF RowKept
    <3> QED BY <1>2, <3>2
  <2> QED BY <2>1, <2>2
<1>5. ASSUME NEW v \in Workers \ {w} PROVE WorkerOK(v)'
  <2>1. pc'[v] = pc[v] /\ todo'[v] = todo[v] /\ claim'[v] = claim[v]
    BY DEF Moves
  <2>2. WorkerOK(v)
    BY DEF IInv
  <2>3. ReadyOK(v)'
    BY <1>2, <2>1, <2>2 DEF WorkerOK, ReadyOK
  <2>4. RunOK(v)'
    <3> SUFFICES ASSUME pc[v] \in {"run", "complete", "fail"},
                        NEW q \in Patches, IsFirst(q, todo[v])
                 PROVE  /\ Holds(v, q, "pending")'
                        /\ pc[v] = "complete" => data'[q] = "done"
                        /\ pc[v] # "complete" => data'[q] = "dirty"
      BY <2>1 DEF RunOK, IsFirst
    <3>1. /\ Holds(v, q, "pending")
          /\ pc[v] = "complete" => data[q] = "done"
          /\ pc[v] # "complete" => data[q] = "dirty"
      BY <2>2 DEF WorkerOK, RunOK
    <3>2. q # p
      BY <3>1 DEF RowKept, Claiming
    <3>3. journal'[q] = journal[q] /\ data'[q] = data[q]
      BY <3>2
    <3> QED BY <2>1, <3>1, <3>3 DEF Holds
  <2>5. UndoOK(v)'
    <3> SUFFICES ASSUME pc[v] \in {"undo", "completeRollback", "failRollback"},
                        NEW q \in Patches, IsLast(q, todo[v])
                 PROVE  /\ Holds(v, q, "rollback_pending")'
                        /\ pc[v] = "completeRollback" => data'[q] = "clean"
                        /\ pc[v] # "completeRollback" => data'[q] = "dirty"
      BY <2>1 DEF UndoOK, IsLast
    <3>1. /\ Holds(v, q, "rollback_pending")
          /\ pc[v] = "completeRollback" => data[q] = "clean"
          /\ pc[v] # "completeRollback" => data[q] = "dirty"
      BY <2>2 DEF WorkerOK, UndoOK
    <3>2. q # p
      BY <3>1 DEF RowKept, Claiming
    <3>3. journal'[q] = journal[q] /\ data'[q] = data[q]
      BY <3>2
    <3> QED BY <2>1, <3>1, <3>3 DEF Holds
  <2>6. ClaimedOK(v)'
    <3> SUFFICES ASSUME pc[v] = "claimed", NEW q \in Patches,
                        Holds(v, q, "pending")'
                 PROVE  data'[q] # "done"
      BY <2>1 DEF ClaimedOK
    <3>1. journal'[q].status = "pending" /\ journal'[q].claim = claim[v]
      BY <2>1 DEF Holds
    <3>2. q # p
      BY <3>1 DEF RowKept, Claiming, Status
    <3>3. journal'[q] = journal[q] /\ data'[q] = data[q]
      BY <3>2
    <3>4. Holds(v, q, "pending")
      BY <2>1, <3>3 DEF Holds
    <3> QED BY <2>2, <3>3, <3>4 DEF WorkerOK, ClaimedOK
  <2> QED BY <2>3, <2>4, <2>5, <2>6 DEF WorkerOK
<1> QED BY <1>1, <1>3, <1>4, <1>5 DEF IInv

-----------------------------------------------------------------------------
(* The steps that only read. *)

(* A worker moves to its next statement without a claim. *)
LEMMA GotoStep ==
    ASSUME IInv, NEW w \in Workers, NEW step \in Steps \ Claiming,
           Goto(w, step), UNCHANGED <<journal, data, todo, limit, claim, issued>>,
           step \in Applying =>
             \A p \in todo[w], q \in Patches : q \notin todo[w] /\ q < p => Landed(q)
    PROVE  IInv'
<1>1. TypeOK
  BY DEF IInv
<1>2. TypeOK'
  BY <1>1 DEF TypeOK, Goto
<1>3. pc'[w] = step /\ Moves(w)
  BY <1>1 DEF TypeOK, Goto, Moves
<1>4. ReadyOK(w)'
  BY <1>3 DEF ReadyOK, Landed, Status
<1>5. WorkerOK(w)' /\ ClaimKept(w)
  BY <1>3, <1>4 DEF WorkerOK, RunOK, UndoOK, ClaimedOK, Claiming, ClaimKept
<1> QED BY <1>2, <1>3, <1>5, QuietStep

(* A worker goes on with some of its patches without a claim. *)
LEMMA ContinueStep ==
    ASSUME IInv, NEW w \in Workers, NEW S \in SUBSET Patches,
           NEW step \in Steps \ Claiming,
           Continue(w, S, step), UNCHANGED <<journal, data, issued>>,
           step \in Applying =>
             \A p \in S, q \in Patches : q \notin S /\ q < p => Landed(q)
    PROVE  IInv'
<1>1. TypeOK
  BY DEF IInv
<1>2. /\ TypeOK' /\ Moves(w)
      /\ pc'[w] = "idle" \/ (pc'[w] = step /\ todo'[w] = S)
  BY <1>1, ContinueTyped DEF TypeOK, Moves
<1>3. ReadyOK(w)'
  BY <1>2 DEF ReadyOK, Landed, Status, Applying
<1>4. WorkerOK(w)' /\ ClaimKept(w)
  BY <1>2, <1>3 DEF WorkerOK, RunOK, UndoOK, ClaimedOK, Claiming, ClaimKept
<1> QED BY <1>2, <1>4, QuietStep

(* A request is accepted. *)
LEMMA StartStep ==
    ASSUME IInv, NEW w \in Workers, Start(w)
    PROVE  IInv'
<1>1. PICK S \in SUBSET Patches, n \in 0 .. PatchCount,
           step \in {"predecessors", "retryPredecessors", "plan",
                     "planAutomatic", "planRetry"} : Accept(w, step, S, n)
  <2>1. 0 \in 0 .. PatchCount
    BY PatchCountAssumption
  <2>2. CASE StartApply(w)
    BY <2>2 DEF StartApply
  <2>3. CASE StartRetry(w)
    BY <2>1, <2>3 DEF StartRetry
  <2>4. CASE StartRollback(w)
    BY <2>4 DEF StartRollback
  <2>5. CASE StartRollbackRetry(w)
    BY <2>1, <2>5 DEF StartRollbackRetry
  <2> QED BY <2>2, <2>3, <2>4, <2>5 DEF Start
<1>2. TypeOK
  BY DEF IInv
<1>3. TypeOK' /\ Moves(w) /\ pc'[w] = step
  BY <1>1, <1>2 DEF TypeOK, Accept, Goto, Moves, Steps
<1>4. WorkerOK(w)' /\ ClaimKept(w)
  BY <1>3, FreeWorker DEF Claiming, Applying
<1> QED BY <1>1, <1>3, <1>4, QuietStep DEF Accept

(* The predecessor checks of apply and of retryFailed. *)
LEMMA PredecessorsStep ==
    ASSUME IInv, NEW w \in Workers,
           ReadPredecessors(w) \/ ReadRetryPredecessors(w)
    PROVE  IInv'
<1>1. CASE Throw(w)
  BY <1>1, ThrowStep
<1>2. CASE ~ Throw(w)
  <2>1. PredecessorsApplied(todo[w])
    BY <1>2 DEF ReadPredecessors, ReadRetryPredecessors
  <2>2. \A p \in todo[w], q \in Patches : q \notin todo[w] /\ q < p => Landed(q)
    BY <2>1 DEF PredecessorsApplied, Landed
  <2>3. PICK step \in {"recorded", "pending", "readFailed"} :
            Goto(w, step) /\ UNCHANGED <<journal, data, todo, limit, claim, issued>>
    BY <1>2 DEF ReadPredecessors, ReadRetryPredecessors
  <2>4. step \in Steps \ Claiming
    BY DEF Steps, Claiming
  <2> QED BY <2>2, <2>3, <2>4, GotoStep
<1> QED BY <1>1, <1>2

(* Cutting a selection at a limit keeps what comes first. *)
LEMMA FirstOfIsPrefix ==
    ASSUME NEW S \in SUBSET Patches, NEW n \in Nat,
           NEW p \in FirstOf(S, n), NEW q \in S, q < p
    PROVE  q \in FirstOf(S, n)
<1>1. CASE n = 0
  BY <1>1 DEF FirstOf
<1>2. CASE n # 0
  <2> DEFINE A == {r \in S : r < q}
             B == {r \in S : r < p}
  <2>1. p \in Int /\ q \in Int /\ \A r \in S : r \in Int
    BY PatchCountAssumption DEF FirstOf, Patches
  <2>2. A \subseteq B
    <3> SUFFICES ASSUME NEW r \in A PROVE r < p
      OBVIOUS
    <3>1. r \in Int /\ r < q
      BY <2>1
    <3> QED BY <2>1, <3>1
  <2>3. IsFiniteSet(B)
    <3>1. IsFiniteSet(1 .. PatchCount)
      BY FS_Interval, PatchCountAssumption
    <3> QED BY <3>1, FS_Subset DEF Patches
  <2>4. Cardinality(A) <= Cardinality(B) /\ Cardinality(A) \in Nat /\ Cardinality(B) \in Nat
    BY <2>2, <2>3, FS_Subset, FS_CardinalityType
  <2>5. Cardinality(B) < n
    BY <1>2 DEF FirstOf
  <2>6. Cardinality(A) < n
    BY <2>4, <2>5
  <2> QED BY <2>6 DEF FirstOf
<1> QED BY <1>1, <1>2

(* pendingPatches under a limit. *)
LEMMA PendingStep ==
    ASSUME IInv, NEW w \in Workers, ReadPending(w)
    PROVE  IInv'
<1>1. CASE Throw(w)
  BY <1>1, ThrowStep
<1>2. CASE ~ Throw(w)
  <2> DEFINE All == PendingPatches(todo[w])
             S == FirstOf(All, limit[w])
  <2>1. /\ PendingReadable(todo[w]) /\ pc[w] = "pending"
        /\ Continue(w, S, "recorded") /\ UNCHANGED <<journal, data, issued>>
    BY <1>2 DEF ReadPending
  <2>2. todo[w] \in SUBSET Patches /\ limit[w] \in Nat
    BY PatchCountAssumption DEF IInv, TypeOK
  <2>3. All \in SUBSET Patches /\ S \subseteq All /\ All \subseteq todo[w]
    BY <2>2 DEF PendingPatches, FirstOf
  <2>4. ReadyOK(w)
    BY DEF IInv, WorkerOK
  <2>5. ASSUME NEW p \in S, NEW q \in Patches, q \notin S, q < p
        PROVE  Landed(q)
    <3>1. CASE q \notin todo[w]
      BY <2>1, <2>3, <2>4, <2>5, <3>1 DEF ReadyOK, Applying
    <3>2. CASE q \in todo[w]
      <4>1. q \notin All
        BY <2>2, <2>3, <2>5, FirstOfIsPrefix
      <4> QED BY <2>1, <3>2, <4>1 DEF PendingPatches, PendingReadable, Landed
    <3> QED BY <3>1, <3>2
  <2>6. S \in SUBSET Patches /\ "recorded" \in Steps \ Claiming
    BY <2>3 DEF Steps, Claiming
  <2> HIDE DEF S
  <2> QED BY <2>1, <2>5, <2>6, ContinueStep
<1> QED BY <1>1, <1>2

(* The journal read that starts apply's loop. *)
LEMMA RecordedStep ==
    ASSUME IInv, NEW w \in Workers, ReadRecorded(w)
    PROVE  IInv'
<1> DEFINE S == ApplyPlan(todo[w])
<1>1. /\ pc[w] = "recorded" /\ Continue(w, S, "claim")
      /\ UNCHANGED <<journal, data, issued>>
  BY DEF ReadRecorded
<1>2. todo[w] \in SUBSET Patches /\ ReadyOK(w)
  BY DEF IInv, TypeOK, WorkerOK
<1>3. ASSUME NEW p \in S, NEW q \in Patches, q \notin S, q < p
      PROVE  Landed(q)
  <2>1. CASE q \notin todo[w]
    BY <1>1, <1>2, <1>3, <2>1 DEF ReadyOK, Applying, ApplyPlan
  <2>2. CASE q \in todo[w]
    <3>1. Status(q) \in {"none", "applied"}
      BY <1>3, <2>2 DEF ApplyPlan
    <3>2. p \in Int /\ q \in Int /\ \A r \in todo[w] : r \in Int
      BY <1>2, PatchCountAssumption DEF ApplyPlan, Patches
    <3>3. \A r \in todo[w] : r < q => Status(r) \in {"none", "applied"}
      BY <1>3, <3>2 DEF ApplyPlan
    <3>4. Status(q) # "none"
      BY <1>3, <2>2, <3>3 DEF ApplyPlan
    <3> QED BY <3>1, <3>4 DEF Landed
  <2> QED BY <2>1, <2>2
<1>4. S \in SUBSET Patches /\ "claim" \in Steps \ Claiming
  BY <1>2 DEF Steps, Claiming, ApplyPlan
<1> HIDE DEF S
<1> QED BY <1>1, <1>3, <1>4, ContinueStep

(* retryFailed reads the row it is about to delete. *)
LEMMA ReadFailedStep ==
    ASSUME IInv, NEW w \in Workers, NEW p \in Patches, ReadFailed(w, p)
    PROVE  IInv'
<1>1. CASE Throw(w)
  BY <1>1, ThrowStep
<1>2. CASE ~ Throw(w)
  <2>1. /\ pc[w] = "readFailed" /\ Goto(w, "clear")
        /\ claim' = [claim EXCEPT ![w] = journal[p].claim]
        /\ UNCHANGED <<journal, data, todo, limit, issued>>
    BY <1>2 DEF ReadFailed
  <2>2. TypeOK /\ ReadyOK(w)
    BY DEF IInv, WorkerOK
  <2>3. journal[p].claim \in 0 .. issued
    BY <2>2 DEF TypeOK, Row
  <2>4. TypeOK' /\ Moves(w) /\ pc'[w] = "clear"
    BY <2>1, <2>2, <2>3 DEF TypeOK, Goto, Moves, Steps
  <2>5. WorkerOK(w)' /\ ClaimKept(w)
    BY <2>1, <2>2, <2>4 DEF WorkerOK, RunOK, UndoOK, ClaimedOK, ReadyOK, Claiming,
                            Applying, ClaimKept, Landed, Status
  <2> QED BY <2>1, <2>4, <2>5, QuietStep
<1> QED BY <1>1, <1>2

(* retryRollbackFailed reads the row it is about to claim. *)
LEMMA ReadRollbackFailedStep ==
    ASSUME IInv, NEW w \in Workers, NEW p \in Patches, ReadRollbackFailed(w, p)
    PROVE  IInv'
<1>1. CASE Throw(w)
  BY <1>1, ThrowStep
<1>2. CASE ~ Throw(w)
  <2>1. /\ Goto(w, "claimRetry")
        /\ claim' = [claim EXCEPT ![w] = journal[p].claim]
        /\ UNCHANGED <<journal, data, todo, limit, issued>>
    BY <1>2 DEF ReadRollbackFailed
  <2>2. TypeOK
    BY DEF IInv
  <2>3. journal[p].claim \in 0 .. issued
    BY <2>2 DEF TypeOK, Row
  <2>4. TypeOK' /\ Moves(w) /\ pc'[w] = "claimRetry"
    BY <2>1, <2>2, <2>3 DEF TypeOK, Goto, Moves, Steps
  <2>5. WorkerOK(w)' /\ ClaimKept(w)
    BY <2>4, FreeWorker DEF Claiming, Applying
  <2> QED BY <2>1, <2>4, <2>5, QuietStep
<1> QED BY <1>1, <1>2

(* The plans of rollback and of retryRollbackFailed. *)
LEMMA PlanStep ==
    ASSUME IInv, NEW w \in Workers,
           PlanRollback(w) \/ \E p \in Patches : PlanRollbackRetry(w, p)
    PROVE  IInv'
<1>1. CASE Throw(w)
  BY <1>1, ThrowStep
<1>2. todo[w] \in SUBSET Patches /\ limit[w] \in Nat
  BY PatchCountAssumption DEF IInv, TypeOK
<1>3. /\ "readRollback" \in Steps \ Claiming /\ "readRollback" \notin Applying
      /\ "readRollbackFailed" \in Steps \ Claiming
      /\ "readRollbackFailed" \notin Applying
  BY DEF Steps, Claiming, Applying
<1>4. ASSUME ~ Throw(w), PlanRollback(w) PROVE IInv'
  <2>1. PICK S \in SUBSET Patches :
            Continue(w, S, "readRollback") /\ UNCHANGED <<journal, data, issued>>
    <3>1. LastOf(todo[w], limit[w]) \in SUBSET Patches
      BY <1>2 DEF LastOf
    <3>2. AutomaticRollback(limit[w]) \in SUBSET Patches
      BY <1>2, PlansSelect
    <3> QED BY <1>4, <3>1, <3>2 DEF PlanRollback
  <2> QED BY <1>3, <2>1, ContinueStep
<1>5. ASSUME ~ Throw(w), NEW p \in Patches, PlanRollbackRetry(w, p) PROVE IInv'
  <2>1. /\ Goto(w, "readRollbackFailed")
        /\ UNCHANGED <<journal, data, todo, limit, claim, issued>>
    BY <1>5 DEF PlanRollbackRetry
  <2> QED BY <1>3, <2>1, GotoStep
<1> QED BY <1>1, <1>4, <1>5

(* The row read before, and again after, a rollback claim. *)
LEMMA ReadRollbackStep ==
    ASSUME IInv, NEW w \in Workers, NEW p \in Patches, ReadRollback(w, p)
    PROVE  IInv'
<1> DEFINE S == todo[w] \ {p}
<1>1. S \in SUBSET Patches
  BY DEF IInv, TypeOK
<1>2. /\ "readRollback" \in Steps \ Claiming /\ "readRollback" \notin Applying
      /\ "claimRollback" \in Steps \ Claiming /\ "claimRollback" \notin Applying
  BY DEF Steps, Claiming, Applying
<1>3. \/ Continue(w, S, "readRollback") /\ UNCHANGED <<journal, data, issued>>
      \/ Goto(w, "claimRollback") /\ UNCHANGED <<journal, data, todo, limit, claim, issued>>
      \/ Throw(w)
  BY DEF ReadRollback
<1> HIDE DEF S
<1> QED BY <1>1, <1>2, <1>3, ContinueStep, GotoStep, ThrowStep

-----------------------------------------------------------------------------
(* The steps that write. *)

(* First and last are unique. *)
LEMMA EndsUnique ==
    ASSUME NEW S \in SUBSET Patches, NEW p, NEW q
    PROVE  /\ IsFirst(p, S) /\ IsFirst(q, S) => p = q
           /\ IsLast(p, S) /\ IsLast(q, S) => p = q
<1>1. \A r \in S : r \in Int
  BY PatchCountAssumption DEF Patches
<1>2. \A a, b \in Int : a <= b /\ b <= a => a = b
  OBVIOUS
<1> QED BY <1>1, <1>2 DEF IsFirst, IsLast

(* A row held by a worker is held by no other. *)
LEMMA SoleHolder ==
    ASSUME IInv, NEW w \in Workers, NEW p \in Patches, pc[w] \in Claiming,
           Holds(w, p, "pending") \/ Holds(w, p, "rollback_pending"),
           NEW v \in Workers \ {w}, pc[v] \in Claiming
    PROVE  /\ journal[p].claim = claim[w] /\ claim[w] # claim[v]
           /\ ~ Holds(v, p, "pending") /\ ~ Holds(v, p, "rollback_pending")
<1>1. claim[w] # claim[v]
  BY DEF IInv, ClaimsDistinct
<1>2. journal[p].claim = claim[w]
  BY DEF Holds
<1> QED BY <1>1, <1>2 DEF Holds

(* The insert that claims a patch. *)
LEMMA ClaimStep ==
    ASSUME IInv, NEW w \in Workers, NEW p \in Patches, Claim(w, p)
    PROVE  IInv'
<1>1. TypeOK /\ JournalTrue /\ ReadyOK(w)
  BY DEF IInv, WorkerOK
<1>2. /\ pc[w] = "claim" /\ IsFirst(p, todo[w])
      /\ issued < MaxClaims /\ issued' = issued + 1
      /\ claim' = [claim EXCEPT ![w] = issued + 1]
      /\ Goto(w, "claimed")
      /\ UNCHANGED <<data, todo, limit>>
  BY DEF Claim
<1>3. issued \in Nat /\ issued' \in 0 .. MaxClaims /\ issued <= issued'
  BY <1>1, <1>2, MaxClaimsAssumption DEF TypeOK
<1>4. /\ pc' \in [Workers -> Steps] /\ claim' \in [Workers -> 0 .. issued']
      /\ pc'[w] = "claimed" /\ claim'[w] = issued + 1 /\ todo'[w] = todo[w]
      /\ Moves(w) /\ ClaimKept(w)
  BY <1>1, <1>2, <1>3 DEF TypeOK, Goto, Moves, ClaimKept, Steps
<1>5. \A q \in Patches : journal[q].claim \in Nat /\ journal[q].claim # issued + 1
  BY <1>1, <1>3 DEF TypeOK, Row
<1>6. CASE Status(p) # "none"
  <2>1. journal' = journal
    BY <1>6 DEF Claim
  <2>2. TypeOK'
    BY <1>1, <1>2, <1>3, <1>4, <2>1 DEF TypeOK, Row
  <2>3. WorkerOK(w)'
    BY <1>1, <1>2, <1>4, <1>5, <2>1
       DEF WorkerOK, RunOK, UndoOK, ClaimedOK, ReadyOK, Holds, Landed, Status, Applying
  <2> QED BY <1>2, <1>4, <2>1, <2>2, <2>3, QuietStep
<1>7. CASE Status(p) = "none"
  <2>1. Write(p, "pending", issued + 1)
    BY <1>7 DEF Claim
  <2>2. /\ journal' \in [Patches -> Row]
        /\ \A q \in Patches : journal'[q].claim <= issued'
        /\ journal'[p].status = "pending" /\ journal'[p].claim = issued + 1
        /\ \A q \in Patches \ {p} : journal'[q] = journal[q]
    BY <1>1, <1>2, <1>3, <2>1, WriteTyped DEF Statuses
  <2>3. TypeOK'
    BY <1>1, <1>2, <1>3, <1>4, <2>2 DEF TypeOK
  <2>4. data[p] # "done"
    BY <1>1, <1>7 DEF JournalTrue
  <2>5. ASSUME NEW q \in Patches, q < p PROVE Landed(q)
    <3>1. q \notin todo[w] /\ p \in todo[w]
      BY <1>2, <2>5, PatchCountAssumption DEF IsFirst, Patches
    <3> QED BY <1>1, <1>2, <2>5, <3>1 DEF ReadyOK, Applying
  <2>6. ASSUME NEW v \in Workers \ {w}
        PROVE  /\ ~ Holds(v, p, "pending") /\ ~ Holds(v, p, "rollback_pending")
               /\ journal'[p].claim # claim[v]
    <3>1. claim[v] \in Nat /\ claim[v] # issued + 1
      BY <1>1, <1>3 DEF TypeOK
    <3> QED BY <1>7, <2>2, <3>1 DEF Holds, Status
  <2>7. RowKept(w, p)
    BY <1>2, <1>7, <2>2, <2>5, <2>6 DEF RowKept, Landed, Status
  <2>8. ClaimedOK(w)'
    <3> SUFFICES ASSUME NEW q \in Patches, journal'[q].claim = issued + 1
                 PROVE  data[q] # "done"
      BY <1>2, <1>4 DEF ClaimedOK, Holds
    <3>1. q = p
      BY <1>5, <2>2
    <3> QED BY <2>4, <3>1
  <2>9. ReadyOK(w)'
    BY <1>1, <1>2, <1>4, <1>7, <2>2 DEF ReadyOK, Landed, Status, Applying
  <2>10. WorkerOK(w)'
    BY <1>4, <2>8, <2>9 DEF WorkerOK, RunOK, UndoOK
  <2>11. \A q \in Patches \ {p} : journal'[q] = journal[q] /\ data'[q] = data[q]
    BY <1>2, <2>2
  <2> QED BY <1>4, <2>3, <2>7, <2>10, <2>11, WriteStep
<1> QED BY <1>6, <1>7

(* A held row's code is entered, or succeeds: only the effect changes. *)
LEMMA EffectStep ==
    ASSUME IInv, NEW w \in Workers, NEW p \in Patches, pc[w] \in Claiming,
           Holds(w, p, "pending") \/ Holds(w, p, "rollback_pending"),
           NEW effect \in Effects, NEW step \in Steps,
           data' = [data EXCEPT ![p] = effect], Goto(w, step),
           UNCHANGED <<journal, todo, limit, claim, issued>>,
           WorkerOK(w)'
    PROVE  IInv'
<1>1. TypeOK
  BY DEF IInv
<1>2. TypeOK' /\ Moves(w) /\ ClaimKept(w)
  BY <1>1 DEF TypeOK, Goto, Moves, ClaimKept
<1>3. Status(p) \in {"pending", "rollback_pending"}
  BY DEF Holds, Status
<1>4. \A v \in Workers \ {w} : pc[v] \in Claiming =>
            /\ ~ Holds(v, p, "pending") /\ ~ Holds(v, p, "rollback_pending")
            /\ journal'[p].claim # claim[v]
  BY SoleHolder
<1>5. RowKept(w, p)
  BY <1>3, <1>4 DEF RowKept, Landed, Status
<1>6. \A q \in Patches \ {p} : journal'[q] = journal[q] /\ data'[q] = data[q]
  BY <1>1 DEF TypeOK
<1> QED BY <1>2, <1>5, <1>6, WriteStep

(* The row read back after a claim. *)
LEMMA ReadClaimStep ==
    ASSUME IInv, NEW w \in Workers, NEW p \in Patches, ReadClaim(w, p)
    PROVE  IInv'
<1>1. TypeOK /\ ReadyOK(w) /\ pc[w] = "claimed" /\ IsFirst(p, todo[w])
  BY DEF IInv, WorkerOK, ReadClaim
<1>2. CASE Holds(w, p, "pending")
  <2>1. /\ data' = [data EXCEPT ![p] = "dirty"]
        /\ Goto(w, "run")
        /\ UNCHANGED <<journal, todo, limit, claim, issued>>
    <3>1. Status(p) # "applied"
      BY <1>2 DEF Holds, Status
    <3> QED BY <1>2, <3>1 DEF ReadClaim
  <2>2. pc'[w] = "run" /\ data'[p] = "dirty"
    BY <1>1, <2>1 DEF TypeOK, Goto
  <2>3. RunOK(w)'
    <3> SUFFICES ASSUME NEW q \in Patches, IsFirst(q, todo[w])
                 PROVE  Holds(w, q, "pending") /\ data'[q] = "dirty"
      BY <2>1, <2>2 DEF RunOK, IsFirst, Holds
    <3>1. q = p
      BY <1>1, EndsUnique DEF TypeOK
    <3> QED BY <1>2, <2>2, <3>1
  <2>4. WorkerOK(w)'
    BY <1>1, <2>1, <2>2, <2>3 DEF WorkerOK, UndoOK, ClaimedOK, ReadyOK, Landed,
                                  Status, Applying
  <2>5. "run" \in Steps /\ "dirty" \in Effects /\ pc[w] \in Claiming
    BY <1>1 DEF Steps, Effects, Claiming
  <2> QED BY <1>2, <2>1, <2>4, <2>5, EffectStep
<1>3. CASE ~ Holds(w, p, "pending") /\ Status(p) = "applied"
  <2> DEFINE S == todo[w] \ {p}
  <2>1. Continue(w, S, "claim") /\ UNCHANGED <<journal, data, issued>>
    BY <1>3 DEF ReadClaim
  <2>2. \A r \in S, q \in Patches : q \notin S /\ q < r => Landed(q)
    BY <1>1, <1>3 DEF ReadyOK, Applying, Landed
  <2>3. S \in SUBSET Patches /\ "claim" \in Steps \ Claiming
    BY <1>1 DEF TypeOK, Steps, Claiming
  <2> HIDE DEF S
  <2> QED BY <2>1, <2>2, <2>3, ContinueStep
<1>4. CASE ~ Holds(w, p, "pending") /\ Status(p) # "applied"
  <2>1. Throw(w)
    BY <1>4 DEF ReadClaim
  <2> QED BY <2>1, ThrowStep
<1> QED BY <1>2, <1>3, <1>4

(* The patch's code returns. *)
LEMMA RunSucceedsStep ==
    ASSUME IInv, NEW w \in Workers, NEW p \in Patches, RunSucceeds(w, p)
    PROVE  IInv'
<1>1. TypeOK /\ ReadyOK(w) /\ RunOK(w) /\ pc[w] = "run" /\ IsFirst(p, todo[w])
  BY DEF IInv, WorkerOK, RunSucceeds
<1>2. Holds(w, p, "pending")
  BY <1>1 DEF RunOK
<1>3. /\ data' = [data EXCEPT ![p] = "done"]
      /\ Goto(w, "complete")
      /\ UNCHANGED <<journal, todo, limit, claim, issued>>
  BY DEF RunSucceeds
<1>4. pc'[w] = "complete" /\ data'[p] = "done"
  BY <1>1, <1>3 DEF TypeOK, Goto
<1>5. RunOK(w)'
  <2> SUFFICES ASSUME NEW q \in Patches, IsFirst(q, todo[w])
               PROVE  Holds(w, q, "pending") /\ data'[q] = "done"
    BY <1>3, <1>4 DEF RunOK, IsFirst, Holds
  <2>1. q = p
    BY <1>1, EndsUnique DEF TypeOK
  <2> QED BY <1>2, <1>4, <2>1
<1>6. WorkerOK(w)'
  BY <1>1, <1>3, <1>4, <1>5 DEF WorkerOK, UndoOK, ClaimedOK, ReadyOK, Landed,
                                Status, Applying
<1>7. "complete" \in Steps /\ "done" \in Effects /\ pc[w] \in Claiming
  BY <1>1 DEF Steps, Effects, Claiming
<1> QED BY <1>2, <1>3, <1>6, <1>7, EffectStep

(* The rollback's code returns. *)
LEMMA UndoSucceedsStep ==
    ASSUME IInv, NEW w \in Workers, NEW p \in Patches, UndoSucceeds(w, p)
    PROVE  IInv'
<1>1. TypeOK /\ UndoOK(w) /\ pc[w] = "undo" /\ IsLast(p, todo[w])
  BY DEF IInv, WorkerOK, UndoSucceeds
<1>2. Holds(w, p, "rollback_pending")
  BY <1>1 DEF UndoOK
<1>3. /\ data' = [data EXCEPT ![p] = "clean"]
      /\ Goto(w, "completeRollback")
      /\ UNCHANGED <<journal, todo, limit, claim, issued>>
  BY DEF UndoSucceeds
<1>4. pc'[w] = "completeRollback" /\ data'[p] = "clean"
  BY <1>1, <1>3 DEF TypeOK, Goto
<1>5. UndoOK(w)'
  <2> SUFFICES ASSUME NEW q \in Patches, IsLast(q, todo[w])
               PROVE  Holds(w, q, "rollback_pending") /\ data'[q] = "clean"
    BY <1>3, <1>4 DEF UndoOK, IsLast, Holds
  <2>1. q = p
    BY <1>1, EndsUnique DEF TypeOK
  <2> QED BY <1>2, <1>4, <2>1
<1>6. WorkerOK(w)'
  BY <1>4, <1>5 DEF WorkerOK, RunOK, ClaimedOK, ReadyOK, Applying
<1>7. "completeRollback" \in Steps /\ "clean" \in Effects /\ pc[w] \in Claiming
  BY <1>1 DEF Steps, Effects, Claiming
<1> QED BY <1>2, <1>3, <1>6, <1>7, EffectStep

(* The code of a patch or of a rollback throws. *)
LEMMA CodeThrowsStep ==
    ASSUME IInv, NEW w \in Workers, RunFails(w) \/ UndoFails(w)
    PROVE  IInv'
<1>1. TypeOK /\ WorkerOK(w) /\ UNCHANGED <<journal, data, todo, limit, claim, issued>>
  BY DEF IInv, RunFails, UndoFails
<1>2. \/ pc[w] = "run" /\ Goto(w, "fail")
      \/ pc[w] = "undo" /\ Goto(w, "failRollback")
  BY DEF RunFails, UndoFails
<1>3. \/ pc[w] = "run" /\ pc'[w] = "fail"
      \/ pc[w] = "undo" /\ pc'[w] = "failRollback"
  BY <1>1, <1>2 DEF TypeOK, Goto
<1>4. TypeOK' /\ Moves(w) /\ ClaimKept(w)
  BY <1>1, <1>2, <1>3 DEF TypeOK, Goto, Moves, ClaimKept, Claiming, Steps
<1>5. RunOK(w)' /\ UndoOK(w)' /\ ClaimedOK(w)' /\ ReadyOK(w)'
  BY <1>1, <1>3 DEF WorkerOK, RunOK, UndoOK, ClaimedOK, ReadyOK, Holds, Landed,
                    Status, Applying, IsFirst, IsLast
<1> QED BY <1>1, <1>4, <1>5, QuietStep DEF WorkerOK

(* A held row is written for the last time by its holder, whose effect     *)
(* already is what the new status says; the worker then goes on or ends.   *)
LEMMA FinishStep ==
    ASSUME IInv, NEW w \in Workers, NEW p \in Patches, pc[w] \in Claiming,
           NEW status \in {"applied", "failed", "rolled_back", "rollback_failed"},
           NEW held \in {"pending", "rollback_pending"}, Holds(w, p, held),
           held = "rollback_pending" => status \in {"rolled_back", "rollback_failed"},
           status = "applied" => data[p] = "done",
           status = "rolled_back" => data[p] = "clean",
           status \in {"failed", "rollback_failed"} => data[p] = "dirty",
           Write(p, status, claim[w]), UNCHANGED <<data, issued>>,
           NEW S \in SUBSET Patches, NEW step \in {"claim", "readRollback"},
           Continue(w, S, step),
           step = "claim" =>
             \A r \in S, q \in Patches :
                q \notin S /\ q < r => Landed(q) \/ (q = p /\ status = "applied")
    PROVE  IInv'
<1>1. TypeOK
  BY DEF IInv
<1>2. /\ issued \in Nat /\ claim[w] \in Nat /\ claim[w] <= issued
      /\ status \in Statuses /\ step \in Steps
  BY <1>1 DEF TypeOK, Statuses, Steps
<1>3. /\ journal' \in [Patches -> Row]
      /\ \A q \in Patches : journal'[q].claim <= issued'
      /\ journal'[p].status = status /\ journal'[p].claim = claim[w]
      /\ \A q \in Patches \ {p} : journal'[q] = journal[q]
  BY <1>1, <1>2, WriteTyped
<1>4. /\ pc' \in [Workers -> Steps]
      /\ todo' \in [Workers -> SUBSET Patches]
      /\ limit' \in [Workers -> 0 .. PatchCount]
      /\ claim' \in [Workers -> 0 .. issued]
      /\ pc'[w] = "idle" \/ (pc'[w] = step /\ todo'[w] = S)
      /\ Moves(w)
  BY <1>1, <1>2, ContinueTyped DEF Moves
<1>5. TypeOK'
  BY <1>1, <1>3, <1>4 DEF TypeOK
<1>6. Status(p) = held
  BY DEF Holds, Status
<1>7. \A q \in Patches : Landed(q) => Landed(q)'
  BY <1>3, <1>6 DEF Landed, Status
<1>8. \A v \in Workers \ {w} : pc[v] \in Claiming =>
            ~ Holds(v, p, "pending") /\ ~ Holds(v, p, "rollback_pending")
  BY SoleHolder
<1>9. RowKept(w, p)
  BY <1>3, <1>6, <1>7, <1>8 DEF RowKept, Status
<1>10. ReadyOK(w)'
  <2> SUFFICES ASSUME step = "claim", NEW r \in S, NEW q \in Patches,
                      q \notin S, q < r
               PROVE  Landed(q)'
    BY <1>4 DEF ReadyOK, Applying
  <2>1. CASE Landed(q)
    BY <1>7, <2>1
  <2>2. CASE q = p /\ status = "applied"
    BY <1>3, <2>2 DEF Landed, Status
  <2> QED BY <2>1, <2>2
<1>11. WorkerOK(w)' /\ ClaimKept(w)
  BY <1>4, <1>10 DEF WorkerOK, RunOK, UndoOK, ClaimedOK, ClaimKept, Claiming
<1>12. \A q \in Patches \ {p} : journal'[q] = journal[q] /\ data'[q] = data[q]
  BY <1>3
<1> QED BY <1>4, <1>5, <1>9, <1>11, <1>12, WriteStep

(* Ending is going on with nothing. *)
LEMMA EndContinues ==
    ASSUME NEW w \in Workers, NEW step, End(w)
    PROVE  Continue(w, {}, step)
BY DEF Continue

(* The writes that end a run. *)
LEMMA CompleteStep ==
    ASSUME IInv, NEW w \in Workers, NEW p \in Patches, Complete(w, p)
    PROVE  IInv'
<1>1. TypeOK /\ ReadyOK(w) /\ RunOK(w) /\ pc[w] = "complete" /\ IsFirst(p, todo[w])
  BY DEF IInv, WorkerOK, Complete
<1>2. Holds(w, p, "pending") /\ data[p] = "done"
  BY <1>1 DEF RunOK
<1> DEFINE S == todo[w] \ {p}
<1>3. Write(p, "applied", claim[w]) /\ Continue(w, S, "claim") /\ UNCHANGED <<data, issued>>
  BY <1>2 DEF Complete
<1>4. S \in SUBSET Patches /\ pc[w] \in Claiming
  BY <1>1 DEF TypeOK, Claiming
<1>5. \A r \in S, q \in Patches : q \notin S /\ q < r => Landed(q) \/ q = p
  BY <1>1 DEF ReadyOK, Applying
<1> HIDE DEF S
<1> QED BY <1>2, <1>3, <1>4, <1>5, FinishStep

(* The write that records a failed run. *)
LEMMA FailStep ==
    ASSUME IInv, NEW w \in Workers, NEW p \in Patches, Fail(w, p)
    PROVE  IInv'
<1>1. TypeOK /\ RunOK(w) /\ pc[w] = "fail" /\ IsFirst(p, todo[w])
  BY DEF IInv, WorkerOK, Fail
<1>2. Holds(w, p, "pending") /\ data[p] = "dirty"
  BY <1>1 DEF RunOK
<1>3. Write(p, "failed", claim[w]) /\ End(w) /\ UNCHANGED <<data, issued>>
  BY <1>2 DEF Fail
<1>4. {} \in SUBSET Patches /\ pc[w] \in Claiming
  BY <1>1 DEF Claiming
<1>5. Continue(w, {}, "readRollback")
  BY <1>3, EndContinues
<1> QED BY <1>2, <1>3, <1>4, <1>5, FinishStep

(* The write that ends a rollback. *)
LEMMA CompleteRollbackStep ==
    ASSUME IInv, NEW w \in Workers, NEW p \in Patches, CompleteRollback(w, p)
    PROVE  IInv'
<1>1. TypeOK /\ UndoOK(w) /\ pc[w] = "completeRollback" /\ IsLast(p, todo[w])
  BY DEF IInv, WorkerOK, CompleteRollback
<1>2. Holds(w, p, "rollback_pending") /\ data[p] = "clean"
  BY <1>1 DEF UndoOK
<1> DEFINE S == todo[w] \ {p}
<1>3. /\ Write(p, "rolled_back", claim[w]) /\ Continue(w, S, "readRollback")
      /\ UNCHANGED <<data, issued>>
  BY <1>2 DEF CompleteRollback
<1>4. S \in SUBSET Patches /\ pc[w] \in Claiming
  BY <1>1 DEF TypeOK, Claiming
<1> HIDE DEF S
<1> QED BY <1>2, <1>3, <1>4, FinishStep

(* The write that records a failed rollback. *)
LEMMA FailRollbackStep ==
    ASSUME IInv, NEW w \in Workers, NEW p \in Patches, FailRollback(w, p)
    PROVE  IInv'
<1>1. TypeOK /\ UndoOK(w) /\ pc[w] = "failRollback" /\ IsLast(p, todo[w])
  BY DEF IInv, WorkerOK, FailRollback
<1>2. Holds(w, p, "rollback_pending") /\ data[p] = "dirty"
  BY <1>1 DEF UndoOK
<1>3. Write(p, "rollback_failed", claim[w]) /\ End(w) /\ UNCHANGED <<data, issued>>
  BY <1>2 DEF FailRollback
<1>4. {} \in SUBSET Patches /\ pc[w] \in Claiming
  BY <1>1 DEF Claiming
<1>5. Continue(w, {}, "readRollback")
  BY <1>3, EndContinues
<1> QED BY <1>2, <1>3, <1>4, <1>5, FinishStep

(* retryFailed deletes the failed row it read. *)
LEMMA ClearStep ==
    ASSUME IInv, NEW w \in Workers, NEW p \in Patches, ClearFailed(w, p)
    PROVE  IInv'
<1>1. CASE Throw(w)
  BY <1>1, ThrowStep
<1>2. CASE ~ Throw(w)
  <2>1. /\ pc[w] = "clear" /\ Holds(w, p, "failed")
        /\ Write(p, "none", 0) /\ Continue(w, todo[w], "recorded")
        /\ UNCHANGED <<data, issued>>
    BY <1>2 DEF ClearFailed
  <2>2. TypeOK /\ ReadyOK(w) /\ JournalTrue /\ todo[w] \in SUBSET Patches
    BY DEF IInv, WorkerOK, TypeOK
  <2>3. issued \in Nat /\ 0 <= issued /\ "none" \in Statuses /\ "recorded" \in Steps
    BY <2>2 DEF TypeOK, Statuses, Steps
  <2>4. /\ journal' \in [Patches -> Row]
        /\ \A q \in Patches : journal'[q].claim <= issued'
        /\ journal'[p].status = "none"
        /\ \A q \in Patches \ {p} : journal'[q] = journal[q]
    BY <2>1, <2>2, <2>3, WriteTyped
  <2>5. /\ pc' \in [Workers -> Steps]
        /\ todo' \in [Workers -> SUBSET Patches]
        /\ limit' \in [Workers -> 0 .. PatchCount]
        /\ claim' \in [Workers -> 0 .. issued]
        /\ pc'[w] = "idle" \/ (pc'[w] = "recorded" /\ todo'[w] = todo[w])
        /\ Moves(w)
    BY <2>1, <2>2, <2>3, ContinueTyped DEF Moves
  <2>6. TypeOK'
    BY <2>1, <2>2, <2>4, <2>5 DEF TypeOK
  <2>7. Status(p) = "failed" /\ data[p] = "dirty"
    BY <2>1, <2>2 DEF Holds, Status, JournalTrue
  <2>8. \A q \in Patches : Landed(q) => Landed(q)'
    BY <2>4, <2>7 DEF Landed, Status
  <2>9. RowKept(w, p)
    BY <2>1, <2>4, <2>7, <2>8 DEF RowKept, Status, Holds
  <2>10. WorkerOK(w)' /\ ClaimKept(w)
    BY <2>1, <2>2, <2>5, <2>8 DEF WorkerOK, RunOK, UndoOK, ClaimedOK, ReadyOK,
                                  ClaimKept, Claiming, Applying
  <2>11. \A q \in Patches \ {p} : journal'[q] = journal[q] /\ data'[q] = data[q]
    BY <2>1, <2>4
  <2> QED BY <2>5, <2>6, <2>9, <2>10, <2>11, WriteStep
<1> QED BY <1>1, <1>2

(* A rollback claim is won. *)
LEMMA BeginUndoStep ==
    ASSUME IInv, NEW w \in Workers, NEW p \in Patches, BeginUndo(w, p),
           IsLast(p, todo[w]), Status(p) \in {"applied", "rollback_failed"}
    PROVE  IInv'
<1>1. TypeOK
  BY DEF IInv
<1>2. /\ issued < MaxClaims /\ issued' = issued + 1
      /\ claim' = [claim EXCEPT ![w] = issued + 1]
      /\ Write(p, "rollback_pending", issued + 1)
      /\ data' = [data EXCEPT ![p] = "dirty"]
      /\ Goto(w, "undo")
      /\ UNCHANGED <<todo, limit>>
  BY DEF BeginUndo
<1>3. issued \in Nat /\ issued' \in 0 .. MaxClaims /\ issued <= issued'
  BY <1>1, <1>2, MaxClaimsAssumption DEF TypeOK
<1>4. /\ pc' \in [Workers -> Steps] /\ claim' \in [Workers -> 0 .. issued']
      /\ data' \in [Patches -> Effects] /\ data'[p] = "dirty"
      /\ pc'[w] = "undo" /\ claim'[w] = issued + 1
      /\ Moves(w) /\ ClaimKept(w)
  BY <1>1, <1>2, <1>3 DEF TypeOK, Goto, Moves, ClaimKept, Steps, Effects
<1>5. /\ journal' \in [Patches -> Row]
      /\ \A q \in Patches : journal'[q].claim <= issued'
      /\ journal'[p].status = "rollback_pending" /\ journal'[p].claim = issued + 1
      /\ \A q \in Patches \ {p} : journal'[q] = journal[q]
  BY <1>1, <1>2, <1>3, WriteTyped DEF Statuses
<1>6. TypeOK'
  BY <1>1, <1>2, <1>3, <1>4, <1>5 DEF TypeOK
<1>7. RowKept(w, p)
  BY <1>5 DEF RowKept, Landed, Status, Holds
<1>8. UndoOK(w)'
  <2> SUFFICES ASSUME NEW q \in Patches, IsLast(q, todo[w])
               PROVE  Holds(w, q, "rollback_pending")' /\ data'[q] = "dirty"
    BY <1>2, <1>4 DEF UndoOK, IsLast
  <2>1. q = p
    BY <1>1, EndsUnique DEF TypeOK
  <2>2. journal'[p] = [status |-> "rollback_pending", claim |-> issued + 1]
    BY <1>1, <1>2 DEF TypeOK, Write
  <2> QED BY <1>4, <2>1, <2>2 DEF Holds
<1>9. WorkerOK(w)'
  BY <1>4, <1>8 DEF WorkerOK, RunOK, ClaimedOK, ReadyOK, Applying
<1>10. \A q \in Patches \ {p} : journal'[q] = journal[q] /\ data'[q] = data[q]
  BY <1>1, <1>2, <1>5 DEF TypeOK
<1> QED BY <1>4, <1>6, <1>7, <1>9, <1>10, WriteStep

(* The conditional updates that claim a rollback, or a failed one again. *)
LEMMA ClaimRollbackStep ==
    ASSUME IInv, NEW w \in Workers, NEW p \in Patches,
           ClaimRollback(w, p) \/ ClaimRollbackRetry(w, p)
    PROVE  IInv'
<1>1. CASE BeginUndo(w, p) /\ Status(p) \in {"applied", "rollback_failed"}
  <2>1. IsLast(p, todo[w])
    BY DEF ClaimRollback, ClaimRollbackRetry
  <2> QED BY <1>1, <2>1, BeginUndoStep
<1>2. CASE Throw(w)
  BY <1>2, ThrowStep
<1>3. CASE Goto(w, "reread") /\ UNCHANGED <<journal, data, todo, limit, claim, issued>>
  <2>1. "reread" \in Steps \ Claiming /\ "reread" \notin Applying
    BY DEF Steps, Claiming, Applying
  <2> QED BY <1>3, <2>1, GotoStep
<1>4. Holds(w, p, "rollback_failed") => Status(p) = "rollback_failed"
  BY DEF Holds, Status
<1> QED BY <1>1, <1>2, <1>3, <1>4 DEF ClaimRollback, ClaimRollbackRetry

-----------------------------------------------------------------------------
(* The invariant is inductive. *)

(* The empty journal, all workers idle. *)
LEMMA InitIInv == Init => IInv
<1> SUFFICES ASSUME Init PROVE IInv
  OBVIOUS
<1>1. TypeOK
  BY PatchCountAssumption, MaxClaimsAssumption
     DEF Init, TypeOK, NoRow, Row, Statuses, Effects, Steps
<1>2. JournalTrue /\ AppliesInOrder
  BY DEF Init, JournalTrue, AppliesInOrder, NoRow, Status
<1>3. ClaimsDistinct /\ \A w \in Workers : WorkerOK(w)
  BY DEF Init, ClaimsDistinct, WorkerOK, RunOK, UndoOK, ClaimedOK, ReadyOK,
         Claiming, Applying
<1> QED BY <1>1, <1>2, <1>3 DEF IInv

(* A worker's step on one patch. *)
LEMMA PatchStep ==
    ASSUME IInv, NEW w \in Workers, NEW p \in Patches,
           \/ Claim(w, p) \/ ReadClaim(w, p)
           \/ RunSucceeds(w, p) \/ Complete(w, p) \/ Fail(w, p)
           \/ ReadFailed(w, p) \/ ClearFailed(w, p)
           \/ ReadRollback(w, p) \/ ClaimRollback(w, p)
           \/ UndoSucceeds(w, p) \/ CompleteRollback(w, p) \/ FailRollback(w, p)
           \/ PlanRollbackRetry(w, p) \/ ReadRollbackFailed(w, p)
           \/ ClaimRollbackRetry(w, p)
    PROVE  IInv'
BY ClaimStep, ReadClaimStep, RunSucceedsStep, CompleteStep, FailStep,
   ReadFailedStep, ClearStep, ReadRollbackStep, ClaimRollbackStep,
   UndoSucceedsStep, CompleteRollbackStep, FailRollbackStep, PlanStep,
   ReadRollbackFailedStep

(* Every step of the system. *)
LEMMA NextIInv == IInv /\ [Next]_vars => IInv'
<1> SUFFICES ASSUME IInv, [Next]_vars PROVE IInv'
  OBVIOUS
<1>1. CASE UNCHANGED vars
  BY <1>1 DEF IInv, vars, TypeOK, JournalTrue, AppliesInOrder, ClaimsDistinct,
              WorkerOK, RunOK, UndoOK, ClaimedOK, ReadyOK, Holds, Landed, Status,
              IsFirst, IsLast
<1>2. ASSUME NEW w \in Workers, Start(w) PROVE IInv'
  BY <1>2, StartStep
<1>3. ASSUME NEW w \in Workers, Abort(w) PROVE IInv'
  BY <1>3, ThrowStep DEF Abort
<1>4. ASSUME NEW w \in Workers, Step(w) PROVE IInv'
  BY <1>4, PredecessorsStep, PendingStep, RecordedStep, CodeThrowsStep, PlanStep,
     PatchStep DEF Step
<1> QED BY <1>1, <1>2, <1>3, <1>4 DEF Next

(* The invariant holds throughout. *)
LEMMA IInvHolds == Spec => []IInv
BY InitIInv, NextIInv, PTL DEF Spec

-----------------------------------------------------------------------------
(* The theorems. *)

(* Rows, effects and workers keep their types, and claim ids are fresh.    *)
THEOREM TypeCorrect == Spec => []TypeOK
<1>1. IInv => TypeOK
  BY DEF IInv
<1> QED BY <1>1, IInvHolds, PTL

(* What the journal says of a patch is what its code did to the data,      *)
(* whatever requests, jobs, crashes and retries meet on it.                *)
THEOREM JournalIsTrue == Spec => []JournalTrue
<1>1. IInv => JournalTrue
  BY DEF IInv
<1> QED BY <1>1, IInvHolds, PTL

(* Patches are first applied in the order of the registry.                 *)
THEOREM AppliedInOrder == Spec => []AppliesInOrder
<1>1. IInv => AppliesInOrder
  BY DEF IInv
<1> QED BY <1>1, IInvHolds, PTL

(* One worker at a time is inside the code of a patch.                     *)
THEOREM RunsExclusively == Spec => []Exclusive
<1>1. IInv => Exclusive
  <2> SUFFICES ASSUME IInv, NEW v \in Workers, NEW w \in Workers,
                      NEW p \in Patches, Running(v, p), Running(w, p), v # w
               PROVE  FALSE
    BY DEF Exclusive
  <2>1. ASSUME NEW u \in Workers, Running(u, p)
        PROVE  /\ pc[u] \in Claiming
               /\ Holds(u, p, "pending") \/ Holds(u, p, "rollback_pending")
    BY <2>1 DEF Running, IInv, WorkerOK, RunOK, UndoOK, Claiming
  <2> QED BY <2>1, SoleHolder
<1> QED BY <1>1, IInvHolds, PTL

(* What a step may do to a completed or to a rolled-back patch. *)
Protects(p) ==
    /\ data[p] = "done" /\ data'[p] # "done" =>
            Status(p) = "applied" /\ journal'[p].status = "rollback_pending"
    /\ Status(p) = "rolled_back" => journal'[p] = journal[p] /\ data'[p] = data[p]

(* The steps of an apply. *)
LEMMA ApplyProtects ==
    ASSUME IInv, NEW w \in Workers, NEW r \in Patches, NEW p \in Patches,
           \/ Claim(w, r) \/ ReadClaim(w, r) \/ RunSucceeds(w, r)
           \/ Complete(w, r) \/ Fail(w, r) \/ ClearFailed(w, r)
    PROVE  Protects(p)
<1>1. TypeOK /\ WorkerOK(w)
  BY DEF IInv
<1>2. CASE Claim(w, r)
  BY <1>1, <1>2 DEF Claim, Write, TypeOK, Protects, Status
<1>3. CASE ReadClaim(w, r)
  <2>1. CASE Holds(w, r, "pending")
    <3>1. data[r] # "done" /\ Status(r) = "pending"
      BY <1>1, <1>3, <2>1 DEF ReadClaim, WorkerOK, ClaimedOK, Holds, Status
    <3>2. data' = [data EXCEPT ![r] = "dirty"] /\ journal' = journal
      BY <1>3, <2>1, <3>1 DEF ReadClaim
    <3> QED BY <1>1, <3>1, <3>2 DEF TypeOK, Protects, Status
  <2>2. CASE ~ Holds(w, r, "pending")
    <3>1. UNCHANGED <<journal, data>>
      BY <1>3, <2>2 DEF ReadClaim, Throw
    <3> QED BY <3>1 DEF Protects
  <2> QED BY <2>1, <2>2
<1>4. CASE RunSucceeds(w, r)
  <2>1. Status(r) = "pending"
    BY <1>1, <1>4 DEF RunSucceeds, WorkerOK, RunOK, Holds, Status
  <2>2. data' = [data EXCEPT ![r] = "done"] /\ journal' = journal
    BY <1>4 DEF RunSucceeds
  <2> QED BY <1>1, <2>1, <2>2 DEF TypeOK, Protects, Status
<1>5. CASE Complete(w, r) \/ Fail(w, r) \/ ClearFailed(w, r)
  <2>1. /\ data' = data
        /\ \/ journal' = journal
           \/ /\ Status(r) \in {"pending", "failed"}
              /\ \E status \in Statuses, id \in Nat : Write(r, status, id)
    BY <1>1, <1>5 DEF Complete, Fail, ClearFailed, Throw, Holds, Status, TypeOK, Statuses
  <2> QED BY <1>1, <2>1 DEF TypeOK, Protects, Status, Write
<1> QED BY <1>2, <1>3, <1>4, <1>5

(* The steps of a rollback. *)
LEMMA RollbackProtects ==
    ASSUME IInv, NEW w \in Workers, NEW r \in Patches, NEW p \in Patches,
           \/ ClaimRollback(w, r) \/ ClaimRollbackRetry(w, r)
           \/ UndoSucceeds(w, r) \/ CompleteRollback(w, r) \/ FailRollback(w, r)
    PROVE  Protects(p)
<1>1. TypeOK /\ WorkerOK(w) /\ JournalTrue
  BY DEF IInv
<1>2. CASE ClaimRollback(w, r) \/ ClaimRollbackRetry(w, r)
  <2>1. CASE UNCHANGED <<journal, data>>
    BY <2>1 DEF Protects
  <2>2. CASE ~ UNCHANGED <<journal, data>>
    <3>1. /\ Status(r) \in {"applied", "rollback_failed"}
          /\ Write(r, "rollback_pending", issued + 1)
          /\ data' = [data EXCEPT ![r] = "dirty"]
      BY <1>2, <2>2 DEF ClaimRollback, ClaimRollbackRetry, BeginUndo, Holds, Status, Throw
    <3>2. data[r] = "done" => Status(r) = "applied"
      BY <1>1, <3>1 DEF JournalTrue
    <3> QED BY <1>1, <3>1, <3>2 DEF TypeOK, Protects, Status, Write
  <2> QED BY <2>1, <2>2
<1>3. CASE UndoSucceeds(w, r)
  <2>1. Status(r) = "rollback_pending" /\ data[r] = "dirty"
    BY <1>1, <1>3 DEF UndoSucceeds, WorkerOK, UndoOK, Holds, Status
  <2>2. data' = [data EXCEPT ![r] = "clean"] /\ journal' = journal
    BY <1>3 DEF UndoSucceeds
  <2> QED BY <1>1, <2>1, <2>2 DEF TypeOK, Protects, Status
<1>4. CASE CompleteRollback(w, r) \/ FailRollback(w, r)
  <2>1. /\ data' = data
        /\ \/ journal' = journal
           \/ /\ Status(r) = "rollback_pending"
              /\ \E status \in Statuses, id \in Nat : Write(r, status, id)
    BY <1>1, <1>4 DEF CompleteRollback, FailRollback, Throw, Holds, Status, TypeOK, Statuses
  <2> QED BY <1>1, <2>1 DEF TypeOK, Protects, Status, Write
<1> QED BY <1>2, <1>3, <1>4

(* Every step of the system. *)
LEMMA NextProtects ==
    ASSUME IInv, [Next]_vars, NEW p \in Patches
    PROVE  Protects(p)
<1>1. CASE UNCHANGED <<journal, data>>
  BY <1>1 DEF Protects
<1>2. CASE ~ UNCHANGED <<journal, data>>
  <2>1. PICK w \in Workers : Step(w)
    BY <1>2 DEF Next, vars, Start, StartApply, StartRetry, StartRollback,
                StartRollbackRetry, Accept, Abort, Throw
  <2>2. PICK r \in Patches :
            \/ Claim(w, r) \/ ReadClaim(w, r) \/ RunSucceeds(w, r)
            \/ Complete(w, r) \/ Fail(w, r) \/ ClearFailed(w, r)
            \/ ClaimRollback(w, r) \/ ClaimRollbackRetry(w, r)
            \/ UndoSucceeds(w, r) \/ CompleteRollback(w, r) \/ FailRollback(w, r)
    BY <1>2, <2>1 DEF Step, Throw, ReadPredecessors, ReadPending, ReadRecorded,
                      RunFails, UndoFails, ReadRetryPredecessors, PlanRollback,
                      ReadFailed, ReadRollback, PlanRollbackRetry, ReadRollbackFailed
  <2> QED BY <2>2, ApplyProtects, RollbackProtects
<1> QED BY <1>1, <1>2

(* A completed effect is undone by the patch's own claimed rollback and by *)
(* nothing else, and what was rolled back is never touched again.          *)
THEOREM EffectsAreProtected == Spec => EffectsProtected
<1>1. IInv /\ [Next]_vars => [\A p \in Patches : Protects(p)]_vars
  BY NextProtects
<1>2. [\A p \in Patches : Protects(p)]_vars =>
        [\A p \in Patches :
            /\ data[p] = "done" /\ data'[p] # "done" =>
                    Status(p) = "applied" /\ journal'[p].status = "rollback_pending"
            /\ Status(p) = "rolled_back" =>
                    journal'[p] = journal[p] /\ data'[p] = data[p]]_vars
  BY DEF Protects
<1> QED BY <1>1, <1>2, IInvHolds, PTL DEF Spec, EffectsProtected
=============================================================================
