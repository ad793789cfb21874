------------------------ MODULE DeliveryOutboxProofs ------------------------
(***************************************************************************)
(* Proofs about DeliveryOutbox for every set of records, workers and claim *)
(* ids and every value of the limits: type correctness, the truth of the   *)
(* checkpoints, that a working set resumed from a checkpoint by torn reads *)
(* is the fold of the whole stream, that claims exclude each other and pay *)
(* for every run of a handler, and that the stream implements the life     *)
(* cycle of each record.                                                   *)
(***************************************************************************)
EXTENDS DeliveryOutbox, InductionLemmas, FiniteSetTheorems, TLAPS

-----------------------------------------------------------------------------
(* The folds.                                                              *)

\* The entry of an id stays a record state under every event.
LEMMA ApplyType ==
  ASSUME NEW view \in {"record", "workingSet"}, NEW r \in RecordStates, NEW e \in Events
  PROVE  Apply(view, r, e) \in RecordStates
<1>1. Absent \in RecordStates
  BY DEF Absent, RecordStates
<1>2. CASE e.kind = "Enqueued"
  BY <1>2 DEF Apply, RecordStates
<1>3. CASE e.kind = "Claimed"
  BY <1>3 DEF Apply, RecordStates, Events
<1>4. CASE e.kind = "Delivered"
  BY <1>1, <1>4 DEF Apply, RecordStates, Events
<1>5. CASE e.kind = "Failed"
  BY <1>5 DEF Apply, RecordStates, Events
<1>6. CASE e.kind = "Checkpointed"
  BY <1>6 DEF Apply, RecordStates, Events
<1>7. QED
  BY <1>2, <1>3, <1>4, <1>5, <1>6 DEF Events

\* The recursive definition of a fold has a solution, so each value of the fold
\* is the one the recursion gives.
LEMMA FoldDef ==
  ASSUME NEW view \in {"record", "workingSet"}, NEW init \in RecordStates,
         NEW log \in Seq(Events), NEW id, NEW lo \in Nat
  PROVE  LET F == Fold(view, init, log, id, lo) IN
         /\ F \in [0..Len(log) -> RecordStates]
         /\ \A i \in 0..Len(log) :
              F[i] = IF i <= lo THEN init
                     ELSE IF log[i].id = id
                          THEN Apply(view, F[i - 1], log[i])
                          ELSE F[i - 1]
<1> DEFINE n == Len(log)
           step == [p \in (1..n) \X RecordStates |->
                      IF log[p[1]].id = id
                      THEN Apply(view, p[2], log[p[1]]) ELSE p[2]]
           Solves(g) == g = [i \in 0..n |->
                               IF i <= lo THEN init
                               ELSE IF log[i].id = id
                                    THEN Apply(view, g[i - 1], log[i])
                                    ELSE g[i - 1]]
<1>1. n \in Nat /\ \A i \in 1..n : log[i] \in Events
  OBVIOUS
<1>2. step \in [(1..n) \X RecordStates -> RecordStates]
  <2> SUFFICES ASSUME NEW p \in (1..n) \X RecordStates
               PROVE  (IF log[p[1]].id = id
                       THEN Apply(view, p[2], log[p[1]]) ELSE p[2])
                      \in RecordStates
    OBVIOUS
  <2>1. p[1] \in 1..n /\ p[2] \in RecordStates
    OBVIOUS
  <2>2. Apply(view, p[2], log[p[1]]) \in RecordStates
    BY <1>1, <2>1, ApplyType
  <2>3. QED
    BY <2>1, <2>2
<1>3. \A i \in 1..n, r \in RecordStates :
        step[<<i, r>>] = IF log[i].id = id
                         THEN Apply(view, r, log[i]) ELSE r
  OBVIOUS
<1> HIDE DEF step, n
<1>4. PICK g \in [0..n -> RecordStates] : IsFold(g, init, n, lo, step)
  BY <1>1, <1>2, FoldExists
<1>5. \A i \in 0..n : g[i] = IF i <= lo THEN init
                             ELSE IF log[i].id = id
                                  THEN Apply(view, g[i - 1], log[i])
                                  ELSE g[i - 1]
  <2> SUFFICES ASSUME NEW i \in 0..n
               PROVE  g[i] = IF i <= lo THEN init
                             ELSE IF log[i].id = id
                                  THEN Apply(view, g[i - 1], log[i])
                                  ELSE g[i - 1]
    OBVIOUS
  <2>1. g[i] = IF i <= lo THEN init ELSE step[<<i, g[i - 1]>>]
    BY <1>4 DEF IsFold
  <2>2. CASE i <= lo
    BY <2>1, <2>2
  <2>3. CASE ~ (i <= lo)
    <3>1. i \in 1..n /\ g[i - 1] \in RecordStates
      BY <1>1, <2>3
    <3>2. QED
      BY <1>3, <2>1, <2>3, <3>1
  <2>4. QED
    BY <2>2, <2>3
<1>6. Solves(g)
  BY <1>5
<1> DEFINE F == Fold(view, init, log, id, lo)
<1>7. F = CHOOSE f : Solves(f)
  BY DEF Fold, n
<1> HIDE DEF Solves
<1>8. Solves(F)
  BY <1>6, <1>7
<1> USE DEF Solves
<1>9. \A i \in 0..n : F[i] = IF i <= lo THEN init
                             ELSE IF log[i].id = id
                                  THEN Apply(view, F[i - 1], log[i])
                                  ELSE F[i - 1]
  BY <1>8
<1>10. F \in [0..n -> RecordStates]
  <2> DEFINE T == {i \in Nat : i \in 0..n => F[i] \in RecordStates}
  <2>1. 0 \in T
    BY <1>1, <1>9
  <2>2. ASSUME NEW i \in Nat, i \in T PROVE i + 1 \in T
    <3> SUFFICES ASSUME i + 1 \in 0..n PROVE F[i + 1] \in RecordStates
      OBVIOUS
    <3>1. i \in 0..n /\ i + 1 \in 1..n /\ (i + 1) - 1 = i
      BY <1>1
    <3>2. F[i] \in RecordStates
      BY <2>2, <3>1
    <3>3. Apply(view, F[i], log[i + 1]) \in RecordStates
      BY <1>1, <3>1, <3>2, ApplyType
    <3>4. QED
      BY <1>9, <3>1, <3>2, <3>3
  <2> HIDE DEF T
  <2>3. \A i \in Nat : i \in T
    BY <2>1, <2>2, SetInduction
  <2>4. \A i \in 0..n : F[i] \in RecordStates
    BY <1>1, <2>3 DEF T
  <2>5. F = [i \in 0..n |-> F[i]]
    BY <1>8
  <2>6. QED
    BY <2>4, <2>5
<1>11. QED
  BY <1>9, <1>10 DEF n

\* Two folds of one log that agree somewhere agree from there on.
LEMMA FoldAgree ==
  ASSUME NEW view \in {"record", "workingSet"}, NEW r1 \in RecordStates,
         NEW r2 \in RecordStates, NEW log \in Seq(Events), NEW id,
         NEW lo1 \in Nat, NEW lo2 \in Nat, NEW k \in 0..Len(log),
         k >= lo1, k >= lo2,
         Fold(view, r1, log, id, lo1)[k] = Fold(view, r2, log, id, lo2)[k]
  PROVE  \A n \in k..Len(log) :
           Fold(view, r1, log, id, lo1)[n] = Fold(view, r2, log, id, lo2)[n]
<1> DEFINE F == Fold(view, r1, log, id, lo1)
           G == Fold(view, r2, log, id, lo2)
           T == {n \in Nat : n \in k..Len(log) => F[n] = G[n]}
<1>1. \A i \in 0..Len(log) :
        F[i] = IF i <= lo1 THEN r1
               ELSE IF log[i].id = id THEN Apply(view, F[i - 1], log[i])
               ELSE F[i - 1]
  BY FoldDef
<1>2. \A i \in 0..Len(log) :
        G[i] = IF i <= lo2 THEN r2
               ELSE IF log[i].id = id THEN Apply(view, G[i - 1], log[i])
               ELSE G[i - 1]
  BY FoldDef
<1>3. k \in Nat /\ Len(log) \in Nat
  OBVIOUS
<1> HIDE DEF F, G
<1>4. k \in T
  BY <1>3 DEF F, G
<1>5. ASSUME NEW n \in Nat, n >= k, n \in T PROVE n + 1 \in T
  <2> SUFFICES ASSUME n + 1 \in k..Len(log) PROVE F[n + 1] = G[n + 1]
    OBVIOUS
  <2>1. /\ n + 1 \in 0..Len(log) /\ (n + 1) - 1 = n
        /\ ~ (n + 1 <= lo1) /\ ~ (n + 1 <= lo2)
    BY <1>3, <1>5
  <2>2. F[n] = G[n]
    BY <1>3, <1>5
  <2>3. QED
    BY <1>1, <1>2, <2>1, <2>2
<1> HIDE DEF T
<1>6. \A n \in Nat : n >= k => n \in T
  BY <1>3, <1>4, <1>5, SetInductionFrom
<1>7. QED
  BY <1>3, <1>6 DEF T, F, G

\* A fold of a prefix does not depend on what is appended later.
LEMMA FoldPrefix ==
  ASSUME NEW view \in {"record", "workingSet"}, NEW r \in RecordStates,
         NEW log1 \in Seq(Events), NEW log2 \in Seq(Events), NEW id,
         NEW lo \in Nat, NEW n \in Nat, n <= Len(log1), n <= Len(log2),
         \A i \in 1..n : log1[i] = log2[i]
  PROVE  Fold(view, r, log1, id, lo)[n] = Fold(view, r, log2, id, lo)[n]
<1> DEFINE F == Fold(view, r, log1, id, lo)
           G == Fold(view, r, log2, id, lo)
           T == {i \in Nat : i <= n => F[i] = G[i]}
<1>1. \A i \in 0..Len(log1) :
        F[i] = IF i <= lo THEN r
               ELSE IF log1[i].id = id THEN Apply(view, F[i - 1], log1[i])
               ELSE F[i - 1]
  BY FoldDef
<1>2. \A i \in 0..Len(log2) :
        G[i] = IF i <= lo THEN r
               ELSE IF log2[i].id = id THEN Apply(view, G[i - 1], log2[i])
               ELSE G[i - 1]
  BY FoldDef
<1>3. Len(log1) \in Nat /\ Len(log2) \in Nat
  OBVIOUS
<1> HIDE DEF F, G
<1>4. 0 \in T
  BY <1>1, <1>2, <1>3
<1>5. ASSUME NEW i \in Nat, i \in T PROVE i + 1 \in T
  <2> SUFFICES ASSUME i + 1 <= n PROVE F[i + 1] = G[i + 1]
    OBVIOUS
  <2>1. /\ i + 1 \in 0..Len(log1) /\ i + 1 \in 0..Len(log2)
        /\ i + 1 \in 1..n /\ (i + 1) - 1 = i
    BY <1>3
  <2>2. F[i] = G[i] /\ log1[i + 1] = log2[i + 1]
    BY <1>5, <2>1
  <2>3. QED
    BY <1>1, <1>2, <2>1, <2>2
<1> HIDE DEF T
<1>6. n \in T
  BY <1>4, <1>5, SetInduction
<1>7. QED
  BY <1>6 DEF T, F, G

\* While a record is in the working set, its own events tell the same about it;
\* and no record of the working set is delivered.
LEMMA WorkingSetIsRecord ==
  ASSUME NEW log \in Seq(Events), NEW id, NEW n \in 0..Len(log)
  PROVE  LET W == WorkingSetFold(Absent, log, id, 0)
             R == RecordFold(Absent, log, id, 0) IN
         W[n] # Absent => W[n] = R[n] /\ W[n].status # "delivered"
<1> DEFINE W == Fold("workingSet", Absent, log, id, 0)
           R == Fold("record", Absent, log, id, 0)
           T == {i \in Nat : i \in 0..Len(log) /\ W[i] # Absent
                             => W[i] = R[i] /\ W[i].status # "delivered"}
<1>1. Absent \in RecordStates
  BY DEF Absent, RecordStates
<1>2. \A i \in 0..Len(log) :
        W[i] = IF i <= 0 THEN Absent
               ELSE IF log[i].id = id THEN Apply("workingSet", W[i - 1], log[i])
               ELSE W[i - 1]
  BY <1>1, FoldDef
<1>3. \A i \in 0..Len(log) :
        R[i] = IF i <= 0 THEN Absent
               ELSE IF log[i].id = id THEN Apply("record", R[i - 1], log[i])
               ELSE R[i - 1]
  BY <1>1, FoldDef
<1>4. W \in [0..Len(log) -> RecordStates] /\ Len(log) \in Nat
  BY <1>1, FoldDef
<1> HIDE DEF W, R
<1>5. 0 \in T
  BY <1>2, <1>4
<1>6. ASSUME NEW i \in Nat, i \in T PROVE i + 1 \in T
  <2> SUFFICES ASSUME i + 1 \in 0..Len(log), W[i + 1] # Absent
               PROVE  W[i + 1] = R[i + 1] /\ W[i + 1].status # "delivered"
    OBVIOUS
  <2>1. i \in 0..Len(log) /\ (i + 1) - 1 = i /\ ~ (i + 1 <= 0)
    BY <1>4
  <2>2. W[i] # Absent => W[i] = R[i] /\ W[i].status # "delivered"
    BY <1>6, <2>1
  <2>3. CASE log[i + 1].id # id
    BY <1>2, <1>3, <2>1, <2>2, <2>3
  <2>4. CASE log[i + 1].id = id
    <3>1. /\ W[i + 1] = Apply("workingSet", W[i], log[i + 1])
          /\ R[i + 1] = Apply("record", R[i], log[i + 1])
      BY <1>2, <1>3, <2>1, <2>4
    <3>2. W[i] \in RecordStates
      BY <1>4, <2>1
    <3>3. CASE log[i + 1].kind = "Enqueued"
      BY <3>1, <3>3 DEF Apply
    <3>4. CASE log[i + 1].kind = "Delivered"
      BY <3>1, <3>4 DEF Apply
    <3>5. CASE /\ log[i + 1].kind \notin {"Enqueued", "Delivered"}
               /\ W[i] = Absent
      BY <3>1, <3>5 DEF Apply
    <3>6. CASE /\ log[i + 1].kind \notin {"Enqueued", "Delivered"}
               /\ W[i] # Absent
      <4>1. W[i] = R[i] /\ W[i].status # "delivered"
        BY <2>2, <3>6
      <4>2. W[i + 1] = R[i + 1]
        BY <3>1, <3>6, <4>1 DEF Apply
      <4>3. CASE log[i + 1].kind = "Claimed"
        <5>1. W[i + 1] = [status |-> "claimed", attempts |-> W[i].attempts + 1,
                          claim |-> log[i + 1].claim]
          BY <3>1, <3>6, <4>3 DEF Apply
        <5>2. QED
          BY <4>2, <5>1
      <4>4. CASE log[i + 1].kind = "Failed"
        <5>1. W[i + 1] = [W[i] EXCEPT !.status = "failed",
                                      !.claim = log[i + 1].claim]
          BY <3>1, <3>6, <4>4 DEF Apply
        <5>2. W[i + 1].status = "failed"
          BY <3>2, <5>1 DEF RecordStates
        <5>3. QED
          BY <4>2, <5>2
      <4>5. CASE log[i + 1].kind \notin {"Claimed", "Failed"}
        <5>1. W[i + 1] = W[i]
          BY <3>1, <3>6, <4>5 DEF Apply
        <5>2. QED
          BY <4>1, <4>2, <5>1
      <4>6. QED
        BY <4>3, <4>4, <4>5
    <3>7. QED
      BY <3>3, <3>4, <3>5, <3>6
  <2>5. QED
    BY <2>3, <2>4
<1> HIDE DEF T
<1>7. n \in T
  BY <1>4, <1>5, <1>6, SetInduction
<1>8. QED
  BY <1>4, <1>7 DEF T, W, R, WorkingSetFold, RecordFold

\* A fold of one record's history ends delivered only if the history it folds
\* says so.
LEMMA DeliveredByEvent ==
  ASSUME NEW log \in Seq(Events), NEW id, NEW init \in RecordStates,
         init.status # "delivered", NEW lo \in Nat, NEW n \in 0..Len(log),
         RecordFold(init, log, id, lo)[n].status = "delivered"
  PROVE  \E j \in (lo + 1)..n : log[j].id = id /\ log[j].kind = "Delivered"
<1> DEFINE R == Fold("record", init, log, id, lo)
           Said(i) == \E j \in (lo + 1)..i :
                        log[j].id = id /\ log[j].kind = "Delivered"
           T == {i \in Nat : i \in 0..Len(log) /\ R[i].status = "delivered"
                             => Said(i)}
<1>1. \A i \in 0..Len(log) :
        R[i] = IF i <= lo THEN init
               ELSE IF log[i].id = id THEN Apply("record", R[i - 1], log[i])
               ELSE R[i - 1]
  BY FoldDef
<1>2. R \in [0..Len(log) -> RecordStates] /\ Len(log) \in Nat
  BY FoldDef
<1>3. \A i \in 1..Len(log) : log[i] \in Events
  OBVIOUS
<1> HIDE DEF R
<1>4. 0 \in T
  BY <1>1, <1>2
<1>5. ASSUME NEW i \in Nat, i \in T PROVE i + 1 \in T
  <2> SUFFICES ASSUME i + 1 \in 0..Len(log), R[i + 1].status = "delivered"
               PROVE  Said(i + 1)
    OBVIOUS
  <2>1. /\ i \in 0..Len(log) /\ (i + 1) - 1 = i
        /\ i + 1 \in 1..Len(log) /\ R[i] \in RecordStates
    BY <1>2
  <2>2. R[i].status = "delivered" => Said(i + 1)
    BY <1>5, <2>1
  <2>3. CASE i + 1 <= lo
    BY <1>1, <2>3
  <2>4. CASE ~ (i + 1 <= lo) /\ log[i + 1].id # id
    BY <1>1, <2>1, <2>2, <2>4
  <2>5. CASE ~ (i + 1 <= lo) /\ log[i + 1].id = id
    <3> DEFINE e == log[i + 1]
    <3>1. R[i + 1] = Apply("record", R[i], e)
      BY <1>1, <2>1, <2>5
    <3>2. CASE e.kind = "Delivered"
      BY <2>1, <2>5, <3>2
    <3>3. CASE e.kind = "Enqueued"
      <4>1. R[i + 1] = [status |-> "pending", attempts |-> 0, claim |-> NoClaim]
        BY <3>1, <3>3 DEF Apply
      <4>2. QED
        BY <4>1
    <3>4. CASE e.kind = "Claimed" /\ R[i] # Absent
      <4>1. R[i + 1] = [status |-> "claimed", attempts |-> R[i].attempts + 1,
                        claim |-> e.claim]
        BY <3>1, <3>4 DEF Apply
      <4>2. QED
        BY <4>1
    <3>5. CASE e.kind = "Failed" /\ R[i] # Absent
      <4>1. R[i + 1] = [R[i] EXCEPT !.status = "failed", !.claim = e.claim]
        BY <3>1, <3>5 DEF Apply
      <4>2. R[i + 1].status = "failed"
        BY <2>1, <4>1 DEF RecordStates
      <4>3. QED
        BY <4>2
    <3>6. CASE \/ e.kind = "Checkpointed"
               \/ e.kind \in {"Claimed", "Failed"} /\ R[i] = Absent
      <4>1. R[i + 1] = R[i]
        BY <3>1, <3>6 DEF Apply
      <4>2. QED
        BY <2>2, <4>1
    <3>7. e \in Events
      BY <1>3, <2>1
    <3>8. QED
      BY <3>2, <3>3, <3>4, <3>5, <3>6, <3>7 DEF Events
  <2>6. QED
    BY <2>3, <2>4, <2>5
<1> HIDE DEF T
<1>6. n \in T
  BY <1>2, <1>4, <1>5, SetInduction
<1>7. QED
  BY <1>2, <1>6 DEF T, R, RecordFold

-----------------------------------------------------------------------------
(* Resuming from the middle of the stream.                                 *)

\* The working set after n events of a log.
WorkingSetOf(log, n) ==
  [id \in Records |-> WorkingSetFold(Absent, log, id, 0)[n]]

\* The entry from which the fold of `id` may be resumed after sequence b: what
\* the working set held there, or nothing when a delivery follows.
Resumable(log, id, b, entry) ==
  \/ entry = WorkingSetFold(Absent, log, id, 0)[b]
  \/ /\ entry = Absent
     /\ \E j \in (b + 1)..Len(log) :
          log[j].id = id /\ log[j].kind = "Delivered"

\* A fold resumed from such an entry ends where the full fold ends.
LEMMA ResumeIsFullFold ==
  ASSUME NEW log \in Seq(Events), NEW id, NEW b \in 0..Len(log),
         NEW entry \in RecordStates, Resumable(log, id, b, entry)
  PROVE  WorkingSetFold(entry, log, id, b)[Len(log)]
           = WorkingSetFold(Absent, log, id, 0)[Len(log)]
<1> DEFINE F == Fold("workingSet", entry, log, id, b)
           G == Fold("workingSet", Absent, log, id, 0)
<1>1. Absent \in RecordStates
  BY DEF Absent, RecordStates
<1>2. \A i \in 0..Len(log) :
        F[i] = IF i <= b THEN entry
               ELSE IF log[i].id = id THEN Apply("workingSet", F[i - 1], log[i])
               ELSE F[i - 1]
  BY FoldDef
<1>3. \A i \in 0..Len(log) :
        G[i] = IF i <= 0 THEN Absent
               ELSE IF log[i].id = id THEN Apply("workingSet", G[i - 1], log[i])
               ELSE G[i - 1]
  BY <1>1, FoldDef
<1>4. Len(log) \in Nat /\ b \in Nat
  OBVIOUS
<1>5. ASSUME NEW k \in b..Len(log), F[k] = G[k] PROVE F[Len(log)] = G[Len(log)]
  <2>1. k \in 0..Len(log) /\ k >= b /\ k >= 0 /\ Len(log) \in k..Len(log)
    BY <1>4
  <2>2. \A n \in k..Len(log) : F[n] = G[n]
    BY <1>1, <1>4, <1>5, <2>1, FoldAgree
  <2>3. QED
    BY <2>1, <2>2
<1> HIDE DEF F, G
<1>6. CASE entry = G[b]
  <2>1. F[b] = G[b] /\ b \in b..Len(log)
    BY <1>2, <1>4, <1>6
  <2>2. QED
    BY <1>5, <2>1 DEF F, G, WorkingSetFold
<1>7. CASE \E j \in (b + 1)..Len(log) :
             log[j].id = id /\ log[j].kind = "Delivered"
  <2>1. PICK j \in (b + 1)..Len(log) :
               log[j].id = id /\ log[j].kind = "Delivered"
    BY <1>7
  <2>2. j \in b..Len(log) /\ j \in 0..Len(log) /\ ~ (j <= b) /\ ~ (j <= 0)
    BY <1>4
  <2>3. F[j] = Apply("workingSet", F[j - 1], log[j])
    BY <1>2, <2>1, <2>2
  <2>4. G[j] = Apply("workingSet", G[j - 1], log[j])
    BY <1>3, <2>1, <2>2
  <2>5. F[j] = Absent /\ G[j] = Absent
    BY <2>1, <2>3, <2>4 DEF Apply
  <2>6. QED
    BY <1>5, <2>2, <2>5 DEF F, G, WorkingSetFold
<1>8. QED
  BY <1>6, <1>7 DEF Resumable, G, WorkingSetFold

-----------------------------------------------------------------------------
(* The inductive invariant.                                                *)

Places == {"idle", "checkpoint", "carried", "tail", "dedupe", "lookup",
           "append", "handler"}

\* What a worker in the middle of state() has read can be completed, and what
\* it has read to the end is the working set of its version.
ReaderOK(log, place, l) ==
  /\ l.base <= Len(log)
  /\ place = "checkpoint" => l = NoLocals
  /\ place = "carried" =>
       \A id \in l.unread : WorkingSetOf(log, l.base)[id] # Absent
  /\ place = "tail" => l.unread = {}
  /\ place \in {"carried", "tail"} =>
       \A id \in Records \ l.unread :
         Resumable(log, id, l.base, l.carried[id])
  /\ place \in {"dedupe", "lookup", "append"} =>
       /\ l.version <= Len(log)
       /\ l.records = WorkingSetOf(log, l.version)

\* A worker that needs a claimed record has one.
CallOK(place, c) ==
  /\ place \notin {"idle", "handler"} => c.op # "none"
  /\ place = "handler" \/ c.op \in {"deliver", "redeliver", "fail"} =>
       c.todo # {} /\ c.claim \in ClaimIds
  /\ c.op = "claim" => c.claim \in ClaimIds

\* Every checkpoint of the log sits after the version it summarises and carries
\* what is in flight there.
CheckpointTrue(log, i) ==
  /\ log[i].upTo = i - 1
  /\ log[i].carry = InFlight(WorkingSetOf(log, i - 1))

WorkersOK == \A w \in Workers : /\ ReaderOK(stream, pc[w], local[w])
                                /\ CallOK(pc[w], call[w])

IInv == TypeOK /\ CheckpointsTrue /\ WorkersOK

-----------------------------------------------------------------------------
(* What appending leaves as it was.                                        *)

Extends(log2, log1) ==
  /\ Len(log1) <= Len(log2)
  /\ \A i \in 1..Len(log1) : log2[i] = log1[i]

(* A record not enqueued yet is a record state. *)
LEMMA AbsentType == Absent \in RecordStates
BY DEF Absent, RecordStates

(* An invocation that has read nothing yet has well-typed locals. *)
LEMMA NoLocalsType == NoLocals \in Locals
<1>1. [id \in Records |-> Absent] \in [Records -> RecordStates]
  BY AbsentType
<1>2. QED
  BY <1>1 DEF NoLocals, Locals

(* No call is a call. *)
LEMMA NoCallType == NoCall \in Calls
BY DEF NoCall, Calls

\* A log and what is appended to it make a log that extends it.
LEMMA AppendExtends ==
  ASSUME NEW log \in Seq(Events), NEW es \in Seq(Events)
  PROVE  /\ log \o es \in Seq(Events)
         /\ Len(log \o es) = Len(log) + Len(es)
         /\ Extends(log \o es, log)
         /\ \A i \in (Len(log) + 1)..(Len(log) + Len(es)) :
              (log \o es)[i] = es[i - Len(log)]
BY DEF Extends

\* The working set of an old version is the same in the longer log.
LEMMA WorkingSetExtends ==
  ASSUME NEW log1 \in Seq(Events), NEW log2 \in Seq(Events),
         Extends(log2, log1), NEW n \in 0..Len(log1)
  PROVE  /\ WorkingSetOf(log2, n) = WorkingSetOf(log1, n)
         /\ \A id : WorkingSetFold(Absent, log2, id, 0)[n]
                      = WorkingSetFold(Absent, log1, id, 0)[n]
<1>1. /\ Len(log1) \in Nat /\ Len(log2) \in Nat /\ n \in Nat /\ 0 \in Nat
      /\ n <= Len(log1) /\ n <= Len(log2)
      /\ \A i \in 1..n : log2[i] = log1[i]
  BY DEF Extends
<1>2. ASSUME NEW id
      PROVE  WorkingSetFold(Absent, log2, id, 0)[n]
               = WorkingSetFold(Absent, log1, id, 0)[n]
  BY <1>1, AbsentType, FoldPrefix DEF WorkingSetFold
<1>3. QED
  BY <1>2 DEF WorkingSetOf

\* A worker does not notice that others append while it reads.
LEMMA ReaderExtends ==
  ASSUME NEW log1 \in Seq(Events), NEW log2 \in Seq(Events),
         Extends(log2, log1), NEW place, NEW l \in Locals,
         ReaderOK(log1, place, l)
  PROVE  ReaderOK(log2, place, l)
<1>1. /\ Len(log1) \in Nat /\ Len(log2) \in Nat /\ Len(log1) <= Len(log2)
      /\ l.base \in Nat /\ l.version \in Nat
      /\ l.base <= Len(log1)
  BY DEF Extends, Locals, ReaderOK
<1>2. l.base \in 0..Len(log1)
  BY <1>1
<1>3. ASSUME NEW id, NEW entry, Resumable(log1, id, l.base, entry)
      PROVE  Resumable(log2, id, l.base, entry)
  <2>1. WorkingSetFold(Absent, log2, id, 0)[l.base]
          = WorkingSetFold(Absent, log1, id, 0)[l.base]
    BY <1>2, WorkingSetExtends
  <2>2. CASE entry = WorkingSetFold(Absent, log1, id, 0)[l.base]
    BY <2>1, <2>2 DEF Resumable
  <2>3. CASE /\ entry = Absent
             /\ \E j \in (l.base + 1)..Len(log1) :
                  log1[j].id = id /\ log1[j].kind = "Delivered"
    <3>1. PICK j \in (l.base + 1)..Len(log1) :
                 log1[j].id = id /\ log1[j].kind = "Delivered"
      BY <2>3
    <3>2. j \in (l.base + 1)..Len(log2) /\ log2[j] = log1[j]
      BY <1>1 DEF Extends
    <3>3. QED
      BY <2>3, <3>1, <3>2 DEF Resumable
  <2>4. QED
    BY <1>3, <2>2, <2>3 DEF Resumable
<1>4. place = "carried" =>
        \A id \in l.unread : WorkingSetOf(log2, l.base)[id] # Absent
  BY <1>2, WorkingSetExtends DEF ReaderOK
<1>5. place \in {"carried", "tail"} =>
        \A id \in Records \ l.unread :
          Resumable(log2, id, l.base, l.carried[id])
  BY <1>3 DEF ReaderOK
<1>6. ASSUME place \in {"dedupe", "lookup", "append"}
      PROVE  l.version <= Len(log2) /\ l.records = WorkingSetOf(log2, l.version)
  <2>1. l.version <= Len(log1) /\ l.records = WorkingSetOf(log1, l.version)
    BY <1>6 DEF ReaderOK
  <2>2. l.version \in 0..Len(log1)
    BY <1>1, <2>1
  <2>3. QED
    BY <1>1, <2>1, <2>2, WorkingSetExtends
<1>7. /\ l.base <= Len(log2)
      /\ place = "checkpoint" => l = NoLocals
      /\ place = "tail" => l.unread = {}
  BY <1>1 DEF ReaderOK
<1>8. QED
  BY <1>4, <1>5, <1>6, <1>7 DEF ReaderOK

\* What the plans append: a checkpoint comes first and summarises the version
\* it is appended to.
GoodAppend(log, es) ==
  /\ es \in Seq(Events)
  /\ \A i \in 1..Len(es) : es[i].kind = "Checkpointed" =>
       /\ i = 1
       /\ es[i].upTo = Len(log)
       /\ es[i].carry = InFlight(WorkingSetOf(log, Len(log)))

AllTrue(log) ==
  \A i \in 1..Len(log) :
    log[i].kind = "Checkpointed" => CheckpointTrue(log, i)

\* True checkpoints stay true, and the appended one is.
LEMMA CheckpointsExtend ==
  ASSUME NEW log \in Seq(Events), NEW es, GoodAppend(log, es), AllTrue(log)
  PROVE  AllTrue(log \o es)
<1> DEFINE log2 == log \o es
<1>1. /\ es \in Seq(Events) /\ log2 \in Seq(Events)
      /\ Len(log2) = Len(log) + Len(es)
      /\ Extends(log2, log)
      /\ \A i \in (Len(log) + 1)..(Len(log) + Len(es)) :
           log2[i] = es[i - Len(log)]
      /\ Len(log) \in Nat /\ Len(es) \in Nat
  BY AppendExtends DEF GoodAppend
<1> HIDE DEF log2
<1> SUFFICES ASSUME NEW i \in 1..Len(log2), log2[i].kind = "Checkpointed"
             PROVE  CheckpointTrue(log2, i)
  BY DEF AllTrue, log2
<1>2. CASE i <= Len(log)
  <2>1. i \in 1..Len(log) /\ i - 1 \in 0..Len(log) /\ log2[i] = log[i]
    BY <1>1, <1>2 DEF Extends
  <2>2. WorkingSetOf(log2, i - 1) = WorkingSetOf(log, i - 1)
    BY <1>1, <2>1, WorkingSetExtends
  <2>3. CheckpointTrue(log, i)
    BY <2>1 DEF AllTrue
  <2>4. QED
    BY <2>1, <2>2, <2>3 DEF CheckpointTrue
<1>3. CASE ~ (i <= Len(log))
  <2>1. /\ i \in (Len(log) + 1)..(Len(log) + Len(es))
        /\ i - Len(log) \in 1..Len(es)
    BY <1>1, <1>3
  <2>2. log2[i] = es[i - Len(log)]
    BY <1>1, <2>1
  <2>3. /\ i - Len(log) = 1
        /\ log2[i].upTo = Len(log)
        /\ log2[i].carry = InFlight(WorkingSetOf(log, Len(log)))
    BY <2>1, <2>2 DEF GoodAppend
  <2>4. i - 1 = Len(log)
    BY <1>1, <2>3
  <2>5. WorkingSetOf(log2, Len(log)) = WorkingSetOf(log, Len(log))
    <3>1. Len(log) \in 0..Len(log)
      BY <1>1
    <3>2. QED
      BY <1>1, <3>1, WorkingSetExtends
  <2>6. QED
    BY <2>3, <2>4, <2>5 DEF CheckpointTrue
<1>4. QED
  BY <1>2, <1>3

-----------------------------------------------------------------------------
(* One worker's step.                                                      *)

\* The stream is as it was, or has the events of a plan at its end.
StreamGrows ==
  \/ stream' = stream
  \/ \E es : GoodAppend(stream, es) /\ stream' = stream \o es

\* Only worker w moves, to a place where it is all right.
WorkerMoves(w) ==
  \E p \in Places, c \in Calls, l \in Locals :
    /\ pc' = [pc EXCEPT ![w] = p]
    /\ call' = [call EXCEPT ![w] = c]
    /\ local' = [local EXCEPT ![w] = l]
    /\ ReaderOK(stream', p, l)
    /\ CallOK(p, c)

ObserversOK ==
  /\ runs \in [Records -> Nat]
  /\ completed \subseteq Records \X ClaimIds
  /\ faults \in 0..FaultBound

\* Such a step of one worker keeps the invariant.
LEMMA StepKeepsIInv ==
  ASSUME IInv, NEW w \in Workers, StreamGrows, WorkerMoves(w), ObserversOK'
  PROVE  IInv'
<1>1. /\ stream \in Seq(Events) /\ pc \in [Workers -> Places]
      /\ call \in [Workers -> Calls] /\ local \in [Workers -> Locals]
  BY DEF IInv, TypeOK, Places
<1>2. AllTrue(stream)
  BY DEF IInv, CheckpointsTrue, CheckpointsAt, AllTrue, CheckpointTrue,
         WorkingSetAt, WorkingSetOf
<1>3. stream' \in Seq(Events) /\ Extends(stream', stream) /\ AllTrue(stream')
  <2>1. CASE stream' = stream
    BY <1>1, <1>2, <2>1 DEF Extends
  <2>2. CASE \E es : GoodAppend(stream, es) /\ stream' = stream \o es
    <3>1. PICK es : GoodAppend(stream, es) /\ stream' = stream \o es
      BY <2>2
    <3>2. es \in Seq(Events)
      BY <3>1 DEF GoodAppend
    <3>3. stream' \in Seq(Events) /\ Extends(stream', stream)
      BY <1>1, <3>1, <3>2, AppendExtends
    <3>4. AllTrue(stream')
      BY <1>1, <1>2, <3>1, CheckpointsExtend
    <3>5. QED
      BY <3>3, <3>4
  <2>3. QED
    BY <2>1, <2>2 DEF StreamGrows
<1>4. CheckpointsTrue'
  BY <1>3 DEF CheckpointsTrue, CheckpointsAt, AllTrue, CheckpointTrue,
              WorkingSetAt, WorkingSetOf
<1>5. PICK p \in Places, c \in Calls, l \in Locals :
        /\ pc' = [pc EXCEPT ![w] = p]
        /\ call' = [call EXCEPT ![w] = c]
        /\ local' = [local EXCEPT ![w] = l]
        /\ ReaderOK(stream', p, l)
        /\ CallOK(p, c)
  BY DEF WorkerMoves
<1>6. TypeOK'
  BY <1>1, <1>3, <1>5 DEF TypeOK, Places, ObserversOK
<1>7. ASSUME NEW v \in Workers
      PROVE  /\ ReaderOK(stream', pc'[v], local'[v])
             /\ CallOK(pc'[v], call'[v])
  <2>1. CASE v = w
    <3>1. pc'[v] = p /\ call'[v] = c /\ local'[v] = l
      BY <1>1, <1>5, <2>1
    <3>2. QED
      BY <1>5, <3>1
  <2>2. CASE v # w
    <3>1. pc'[v] = pc[v] /\ call'[v] = call[v] /\ local'[v] = local[v]
      BY <1>1, <1>5, <2>2
    <3>2. ReaderOK(stream, pc[v], local[v]) /\ CallOK(pc[v], call[v])
      BY DEF IInv, WorkersOK
    <3>3. local[v] \in Locals
      BY <1>1
    <3>4. ReaderOK(stream', pc[v], local[v])
      BY <1>1, <1>3, <3>2, <3>3, ReaderExtends
    <3>5. QED
      BY <3>1, <3>2, <3>4
  <2>3. QED
    BY <2>1, <2>2
<1>8. QED
  BY <1>4, <1>6, <1>7 DEF IInv, WorkersOK

\* Leaving an attempt is always such a step: nothing is kept of what was read.
LEMMA LeaveMoves ==
  ASSUME NEW w \in Workers, stream' \in Seq(Events),
         NEW place \in {"idle", "checkpoint", "handler"}, NEW next \in Calls,
         CallOK(place, next), Leave(w, place, next)
  PROVE  WorkerMoves(w)
<1>1. ReaderOK(stream', place, NoLocals)
  <2>1. Len(stream') \in Nat /\ NoLocals.base = 0
    BY DEF NoLocals
  <2>2. QED
    BY <2>1 DEF ReaderOK
<1>2. place \in Places
  BY DEF Places
<1>3. QED
  BY <1>1, <1>2, NoLocalsType DEF WorkerMoves, Leave

(* A call that ends clears the worker's call and locals (EndCall). *)
LEMMA EndCallMoves ==
  ASSUME NEW w \in Workers, stream' \in Seq(Events), EndCall(w)
  PROVE  WorkerMoves(w)
<1>1. CallOK("idle", NoCall)
  BY DEF CallOK, NoCall
<1>2. QED
  BY <1>1, NoCallType, LeaveMoves DEF EndCall

\* A retry, or the call that follows a handler.
LEMMA StartAttemptMoves ==
  ASSUME NEW w \in Workers, stream' \in Seq(Events), call[w] \in Calls,
         NEW op \in {"enqueue", "claim", "deliver", "redeliver", "fail"},
         NEW n \in Nat, StartAttempt(w, op, n),
         op # "enqueue" => call[w].claim \in ClaimIds,
         op \in {"deliver", "redeliver", "fail"} => call[w].todo # {}
  PROVE  WorkerMoves(w)
<1> DEFINE next == [call[w] EXCEPT !.op = op, !.attempt = n]
<1>1. /\ next \in Calls /\ next.op = op
      /\ next.claim = call[w].claim /\ next.todo = call[w].todo
  BY DEF Calls
<1>2. Leave(w, "checkpoint", next)
  BY DEF StartAttempt
<1> HIDE DEF next
<1>3. CallOK("checkpoint", next)
  BY <1>1 DEF CallOK
<1>4. QED
  BY <1>1, <1>2, <1>3, LeaveMoves

(* The drain goes on to its next claimed record, or ends (NextRecord). *)
LEMMA NextRecordMoves ==
  ASSUME NEW w \in Workers, stream' \in Seq(Events), call[w] \in Calls,
         call[w].claim \in ClaimIds, NEW left \in SUBSET Records,
         NextRecord(w, left)
  PROVE  WorkerMoves(w)
<1> DEFINE next == [NoCall EXCEPT !.claim = call[w].claim, !.todo = left]
<1>1. /\ next \in Calls /\ next.op = "none"
      /\ next.claim = call[w].claim /\ next.todo = left
  BY DEF NoCall, Calls
<1>2. CASE left = {}
  BY <1>2, EndCallMoves DEF NextRecord
<1>3. CASE left # {}
  <2>1. Leave(w, "handler", next)
    BY <1>3 DEF NextRecord
  <2> HIDE DEF next
  <2>2. CallOK("handler", next)
    BY <1>1, <1>3 DEF CallOK
  <2>3. QED
    BY <1>1, <2>1, <2>2, LeaveMoves
<1>4. QED
  BY <1>2, <1>3

(* An error leaves the call through the consumer's catch (Throw). *)
LEMMA ThrowMoves ==
  ASSUME IInv, NEW w \in Workers, stream' \in Seq(Events), Throw(w)
  PROVE  WorkerMoves(w)
<1>1. call[w] \in Calls /\ CallOK(pc[w], call[w])
  BY DEF IInv, TypeOK, WorkersOK
<1>2. CASE Op(w) = "deliver"
  <2>1. call[w].todo # {} /\ call[w].claim \in ClaimIds
    BY <1>1, <1>2 DEF CallOK, Op
  <2>2. StartAttempt(w, "fail", 1)
    BY <1>2 DEF Throw
  <2>3. QED
    BY <1>1, <2>1, <2>2, StartAttemptMoves
<1>3. CASE Op(w) # "deliver"
  BY <1>3, EndCallMoves DEF Throw
<1>4. QED
  BY <1>2, <1>3

(* A finished append returns to the code that asked for it (Return). *)
LEMMA ReturnMoves ==
  ASSUME IInv, NEW w \in Workers, stream' \in Seq(Events), Return(w)
  PROVE  WorkerMoves(w)
<1>1. call[w] \in Calls /\ CallOK(pc[w], call[w])
  BY DEF IInv, TypeOK, WorkersOK
<1>2. CASE Op(w) \in {"deliver", "fail"}
  <2>1. call[w].claim \in ClaimIds /\ call[w].todo \ {Current(w)} \in SUBSET Records
    BY <1>1, <1>2 DEF CallOK, Op, Calls
  <2>2. NextRecord(w, call[w].todo \ {Current(w)})
    BY <1>2 DEF Return
  <2>3. QED
    BY <1>1, <2>1, <2>2, NextRecordMoves
<1>3. CASE Op(w) \notin {"deliver", "fail"}
  BY <1>3, EndCallMoves DEF Return
<1>4. QED
  BY <1>2, <1>3

\* The record a drain works on is one of those it claimed.
LEMMA CurrentType ==
  ASSUME NEW w \in Workers, call[w] \in Calls, call[w].todo # {}
  PROVE  Current(w) \in call[w].todo /\ Current(w) \in Records
<1>1. call[w].todo \in SUBSET Nat /\ call[w].todo \in SUBSET Records
  BY RecordsAssumption DEF Calls
<1>2. \E id \in call[w].todo : \A other \in call[w].todo : id <= other
  BY <1>1, LeastNatural
<1>3. Current(w) \in call[w].todo
  BY <1>2 DEF Current
<1>4. QED
  BY <1>1, <1>3

-----------------------------------------------------------------------------
(* The plans.                                                              *)

\* One event per id of a set, and no checkpoint among them.
LEMMA EventPerIdGood ==
  ASSUME NEW log \in Seq(Events),
         NEW kind \in {"Enqueued", "Claimed", "Delivered", "Failed"},
         NEW S \in SUBSET Records, NEW claimId \in ClaimIds \cup {NoClaim},
         NEW es \in EventPerId(kind, S, claimId)
  PROVE  GoodAppend(log, es) /\ IdsOf(es) \in SUBSET Records
<1>1. Cardinality(S) \in Nat
  BY RecordsAssumption, FS_Subset, FS_CardinalityType
<1>2. PICK f \in InOrder(S) :
        es = [i \in 1..Cardinality(S) |-> RecordEvent(kind, f[i], claimId)]
  BY DEF EventPerId
<1>3. f \in [1..Cardinality(S) -> S]
  BY <1>2 DEF InOrder
<1>4. \A i \in 1..Cardinality(S) :
        /\ RecordEvent(kind, f[i], claimId) \in Events
        /\ RecordEvent(kind, f[i], claimId).kind = kind
        /\ RecordEvent(kind, f[i], claimId).id \in Records
  BY <1>3 DEF RecordEvent, Events
<1>5. es \in Seq(Events) /\ Len(es) = Cardinality(S)
  BY <1>1, <1>2, <1>4
<1>6. \A i \in 1..Len(es) : es[i].kind = kind /\ es[i].id \in Records
  BY <1>2, <1>4, <1>5
<1>7. QED
  BY <1>5, <1>6 DEF GoodAppend, IdsOf

\* A single event about one record.
LEMMA RecordEventGood ==
  ASSUME NEW log \in Seq(Events),
         NEW kind \in {"Enqueued", "Claimed", "Delivered", "Failed"},
         NEW id \in Records, NEW claimId \in ClaimIds \cup {NoClaim}
  PROVE  GoodAppend(log, <<RecordEvent(kind, id, claimId)>>)
<1> DEFINE e == RecordEvent(kind, id, claimId)
<1>1. e \in Events /\ e.kind = kind
  BY DEF RecordEvent, Events
<1> HIDE DEF e
<1>2. <<e>> \in Seq(Events) /\ Len(<<e>>) = 1 /\ <<e>>[1] = e
  BY <1>1
<1>3. QED
  BY <1>1, <1>2 DEF GoodAppend, e

\* Two events, one after the other.
LEMMA PairOfEvents ==
  ASSUME NEW k \in Events, NEW e \in Events
  PROVE  LET es == <<k>> \o <<e>> IN
         es \in Seq(Events) /\ Len(es) = 2 /\ es[1] = k /\ es[2] = e
<1> DEFINE first == <<k>>
           rest == <<e>>
           es == first \o rest
<1>1. first \in Seq(Events) /\ Len(first) = 1 /\ first[1] = k
  OBVIOUS
<1>2. rest \in Seq(Events) /\ Len(rest) = 1 /\ rest[1] = e
  OBVIOUS
<1> HIDE DEF first, rest
<1>3. /\ es \in Seq(Events) /\ Len(es) = Len(first) + Len(rest)
      /\ Extends(es, first)
      /\ \A i \in (Len(first) + 1)..(Len(first) + Len(rest)) :
           es[i] = rest[i - Len(first)]
  BY <1>1, <1>2, AppendExtends
<1> HIDE DEF es
<1>4. Len(es) = 2 /\ es[1] = k /\ es[2] = e
  BY <1>1, <1>2, <1>3 DEF Extends
<1>5. QED
  BY <1>3, <1>4 DEF es, first, rest

\* The checkpoint and the delivery behind it.
LEMMA TerminalEventsGood ==
  ASSUME IInv, NEW w \in Workers, pc[w] = "append",
         local[w].version = Len(stream), Op(w) \in {"deliver", "redeliver"}
  PROVE  GoodAppend(stream, TerminalEvents(w))
<1>1. /\ stream \in Seq(Events) /\ call[w] \in Calls /\ local[w] \in Locals
      /\ CallOK(pc[w], call[w]) /\ ReaderOK(stream, pc[w], local[w])
  BY DEF IInv, TypeOK, WorkersOK
<1>2. call[w].todo # {} /\ call[w].claim \in ClaimIds
  BY <1>1 DEF CallOK, Op
<1>3. Current(w) \in Records
  BY <1>1, <1>2, CurrentType
<1> DEFINE e == RecordEvent("Delivered", Current(w), call[w].claim)
           k == CheckpointEvent(local[w].version, InFlight(local[w].records))
<1>4. e \in Events /\ e.kind = "Delivered"
  BY <1>2, <1>3 DEF RecordEvent, Events
<1>5. local[w].records = WorkingSetOf(stream, Len(stream))
  BY <1>1 DEF ReaderOK
<1>6. /\ k \in Events /\ k.upTo = Len(stream)
      /\ k.carry = InFlight(WorkingSetOf(stream, Len(stream)))
  BY <1>1, <1>5 DEF CheckpointEvent, Events, InFlight
<1>7. TerminalEvents(w) = <<>> \o <<e>> \/ TerminalEvents(w) = <<k>> \o <<e>>
  BY DEF TerminalEvents, PlannedCheckpoint
<1> HIDE DEF e, k
<1>8. CASE TerminalEvents(w) = <<>> \o <<e>>
  <2>1. TerminalEvents(w) = <<e>>
    BY <1>4, <1>8
  <2>2. QED
    BY <1>4, <2>1 DEF GoodAppend
<1>9. CASE TerminalEvents(w) = <<k>> \o <<e>>
  <2> DEFINE es == TerminalEvents(w)
  <2> HIDE DEF es
  <2>1. es = <<k>> \o <<e>>
    BY <1>9 DEF es
  <2>2. es \in Seq(Events) /\ Len(es) = 2 /\ es[1] = k /\ es[2] = e
    BY <1>4, <1>6, <2>1, PairOfEvents
  <2>3. \A i \in 1..Len(es) : es[i].kind = "Checkpointed" => i = 1
    BY <1>4, <2>2
  <2>4. QED
    BY <1>6, <2>2, <2>3 DEF GoodAppend, es
<1>10. QED
  BY <1>7, <1>8, <1>9

\* Whatever a worker may append at the version it has read is good.
LEMMA PlannedGood ==
  ASSUME IInv, NEW w \in Workers, pc[w] = "append",
         local[w].version = Len(stream), NEW es \in Planned(w)
  PROVE  /\ GoodAppend(stream, es)
         /\ Op(w) = "claim" => IdsOf(es) \in SUBSET Records
<1>1. /\ stream \in Seq(Events) /\ call[w] \in Calls /\ local[w] \in Locals
      /\ CallOK(pc[w], call[w])
  BY DEF IInv, TypeOK, WorkersOK
<1>2. CASE Op(w) = "enqueue"
  <2> DEFINE S == call[w].ids \ local[w].found
  <2>1. S \in SUBSET Records
    BY <1>1 DEF Calls
  <2>2. es \in EventPerId("Enqueued", S, NoClaim)
    BY <1>2 DEF Planned
  <2> HIDE DEF S
  <2>3. QED
    BY <1>1, <1>2, <2>1, <2>2, EventPerIdGood
<1>3. CASE Op(w) = "claim"
  <2>1. PICK due \in SUBSET Records :
          es \in EventPerId("Claimed",
                   Oldest(Claimable(local[w].records, due), ClaimLimit),
                   call[w].claim)
    BY <1>3 DEF Planned
  <2> DEFINE S == Oldest(Claimable(local[w].records, due), ClaimLimit)
  <2>2. S \in SUBSET Records
    BY DEF Oldest, Claimable
  <2>3. es \in EventPerId("Claimed", S, call[w].claim)
    BY <2>1
  <2>4. call[w].claim \in ClaimIds \cup {NoClaim}
    BY <1>1 DEF Calls
  <2> HIDE DEF S
  <2>5. QED
    BY <1>1, <2>2, <2>3, <2>4, EventPerIdGood
<1>4. CASE Op(w) \in {"deliver", "redeliver"}
  <2>1. es = TerminalEvents(w)
    BY <1>4 DEF Planned
  <2>2. QED
    BY <1>4, <2>1, TerminalEventsGood
<1>5. CASE Op(w) = "fail"
  <2>1. es = <<RecordEvent("Failed", Current(w), call[w].claim)>>
    BY <1>5 DEF Planned
  <2>2. call[w].todo # {} /\ call[w].claim \in ClaimIds
    BY <1>1, <1>5 DEF CallOK, Op
  <2>3. Current(w) \in Records
    BY <1>1, <2>2, CurrentType
  <2>4. QED
    BY <1>1, <1>5, <2>1, <2>2, <2>3, RecordEventGood
<1>6. Op(w) \in {"enqueue", "claim", "deliver", "redeliver", "fail"}
  BY <1>1 DEF CallOK, Calls, Op
<1>7. QED
  BY <1>2, <1>3, <1>4, <1>5, <1>6

-----------------------------------------------------------------------------
(* One lemma per kind of action.                                           *)

\* Steps that leave the stream and the observers alone keep the invariant when
\* the worker moves well.
LEMMA UnchangingStep ==
  ASSUME IInv, NEW w \in Workers, Unchanging, WorkerMoves(w)
  PROVE  IInv'
<1>1. StreamGrows
  BY DEF Unchanging, StreamGrows
<1>2. ObserversOK'
  BY DEF IInv, TypeOK, Unchanging, ObserversOK
<1>3. QED
  BY <1>1, <1>2, StepKeepsIInv

(* An enqueue, a drain or a redelivered call starts. *)
LEMMA StartStep ==
  ASSUME IInv, NEW w \in Workers, Start(w)
  PROVE  IInv'
<1>1. stream \in Seq(Events)
  BY DEF IInv, TypeOK
<1>2. ASSUME NEW next \in Calls, CallOK("checkpoint", next), Call(w, next)
      PROVE  IInv'
  <2>1. /\ Leave(w, "checkpoint", next) /\ Unchanging
        /\ stream' \in Seq(Events)
    BY <1>1, <1>2 DEF Call, Unchanging
  <2>2. WorkerMoves(w)
    BY <1>2, <2>1, LeaveMoves
  <2>3. QED
    BY <2>1, <2>2, UnchangingStep
<1>3. ASSUME NEW targets \in SourceEvents, StartEnqueue(w, targets)
      PROVE  IInv'
  <2> DEFINE next == [NoCall EXCEPT !.op = "enqueue", !.attempt = 1,
                                    !.ids = targets]
  <2>1. next \in Calls /\ next.op = "enqueue"
    BY SourceEventsAssumption DEF NoCall, Calls
  <2>2. Call(w, next)
    BY <1>3 DEF StartEnqueue
  <2> HIDE DEF next
  <2>3. CallOK("checkpoint", next)
    BY <2>1 DEF CallOK
  <2>4. QED
    BY <1>2, <2>1, <2>2, <2>3
<1>4. ASSUME NEW claimId \in ClaimIds, StartDrain(w, claimId)
      PROVE  IInv'
  <2> DEFINE next == [NoCall EXCEPT !.op = "claim", !.attempt = 1,
                                    !.claim = claimId]
  <2>1. next \in Calls /\ next.op = "claim" /\ next.claim = claimId
    BY DEF NoCall, Calls
  <2>2. Call(w, next)
    BY <1>4 DEF StartDrain
  <2> HIDE DEF next
  <2>3. CallOK("checkpoint", next)
    BY <2>1 DEF CallOK
  <2>4. QED
    BY <1>2, <2>1, <2>2, <2>3
<1>5. ASSUME NEW id \in Records, NEW claimId \in ClaimIds,
             StartRedelivery(w, id, claimId)
      PROVE  IInv'
  <2> DEFINE next == [NoCall EXCEPT !.op = "redeliver", !.attempt = 1,
                                    !.claim = claimId, !.todo = {id}]
  <2>1. /\ next \in Calls /\ next.op = "redeliver"
        /\ next.claim = claimId /\ next.todo = {id}
    BY DEF NoCall, Calls
  <2>2. Call(w, next)
    BY <1>5 DEF StartRedelivery
  <2> HIDE DEF next
  <2>3. CallOK("checkpoint", next)
    BY <2>1 DEF CallOK
  <2>4. QED
    BY <1>2, <2>1, <2>2, <2>3
<1>6. QED
  BY <1>3, <1>4, <1>5 DEF Start

\* The newest checkpoint is a true one, so what it does not carry was not in
\* flight at the version the read resumes from, and what it carries was.
LEMMA ReadCheckpointStep ==
  ASSUME IInv, NEW w \in Workers, ReadCheckpoint(w)
  PROVE  IInv'
<1>1. /\ stream \in Seq(Events) /\ call[w] \in Calls /\ local[w] \in Locals
      /\ pc[w] = "checkpoint" /\ CallOK(pc[w], call[w])
      /\ call \in [Workers -> Calls]
      /\ ReaderOK(stream, pc[w], local[w]) /\ Len(stream) \in Nat
  BY DEF IInv, TypeOK, WorkersOK, ReadCheckpoint
<1>2. local[w] = NoLocals
  BY <1>1 DEF ReaderOK
<1> DEFINE present == CheckpointsAt(Len(stream)) # {}
           carry == IF present THEN stream[LastCheckpoint].carry ELSE {}
           base == IF present THEN stream[LastCheckpoint].upTo ELSE 0
           l == [local[w] EXCEPT !.base = base, !.unread = carry]
           p == IF carry = {} THEN "tail" ELSE "carried"
<1>3. /\ base \in 0..Len(stream) /\ carry \in SUBSET Records
      /\ \A id \in Records :
           id \in carry <=> WorkingSetOf(stream, base)[id] # Absent
  <2>1. CASE ~ present
    <3>1. base = 0 /\ carry = {}
      BY <2>1
    <3>2. \A id \in Records : WorkingSetFold(Absent, stream, id, 0)[0] = Absent
      BY <1>1, AbsentType, FoldDef DEF WorkingSetFold
    <3>3. QED
      BY <1>1, <3>1, <3>2 DEF WorkingSetOf
  <2>2. CASE present
    <3> DEFINE S == CheckpointsAt(Len(stream))
    <3>1. S \in SUBSET Nat /\ \A m \in S : m <= Len(stream)
      BY <1>1 DEF CheckpointsAt
    <3>2. \E i \in S : \A j \in S : j <= i
      BY <1>1, <2>2, <3>1, GreatestNatural
    <3>3. LastCheckpoint \in S
      BY <3>2 DEF LastCheckpoint
    <3>4. /\ LastCheckpoint \in 1..Len(stream)
          /\ stream[LastCheckpoint] \in Events
      BY <1>1, <3>3 DEF CheckpointsAt
    <3>5. /\ base = LastCheckpoint - 1
          /\ carry = InFlight(WorkingSetOf(stream, LastCheckpoint - 1))
      BY <2>2, <3>3 DEF IInv, CheckpointsTrue, WorkingSetAt, WorkingSetOf
    <3>6. QED
      BY <1>1, <3>4, <3>5 DEF InFlight
  <2>3. QED
    BY <2>1, <2>2
<1>4. /\ pc' = [pc EXCEPT ![w] = p]
      /\ local' = [local EXCEPT ![w] = l]
      /\ call' = [call EXCEPT ![w] = call[w]]
      /\ stream' = stream /\ Unchanging
  BY <1>1 DEF ReadCheckpoint, Store, Unchanging
<1>5. /\ l.base = base /\ l.unread = carry
      /\ l.carried = [id \in Records |-> Absent]
      /\ l \in Locals
  <2> HIDE DEF base, carry
  <2>1. base \in Nat /\ carry \in SUBSET Records
    BY <1>3
  <2>2. /\ l \in Locals /\ l.base = base /\ l.unread = carry
        /\ l.carried = local[w].carried
    BY <1>1, <2>1 DEF Locals
  <2>3. local[w].carried = [id \in Records |-> Absent]
    BY <1>2 DEF NoLocals
  <2>4. QED
    BY <2>2, <2>3
<1>6. p \in {"tail", "carried"} /\ (p = "tail" <=> carry = {}) /\ p \in Places
  BY DEF Places
<1> HIDE DEF base, carry, l, p, present
<1>7. \A id \in Records \ carry : Resumable(stream, id, base, l.carried[id])
  BY <1>3, <1>5 DEF Resumable, WorkingSetOf
<1>8. ReaderOK(stream', p, l)
  BY <1>1, <1>3, <1>4, <1>5, <1>6, <1>7 DEF ReaderOK
<1>9. CallOK(p, call[w])
  BY <1>1, <1>6 DEF CallOK
<1>10. WorkerMoves(w)
  BY <1>1, <1>4, <1>5, <1>6, <1>8, <1>9 DEF WorkerMoves
<1>11. QED
  BY <1>4, <1>10, UnchangingStep

\* The history of a carried record, read later than the checkpoint: the record
\* enters as it was there, or not at all when its delivery is already known,
\* and then the tail holds the delivery.
LEMMA ReadHistoryStep ==
  ASSUME IInv, NEW w \in Workers, NEW id \in Records, ReadHistory(w, id)
  PROVE  IInv'
<1>1. /\ stream \in Seq(Events) /\ call[w] \in Calls /\ local[w] \in Locals
      /\ pc[w] = "carried" /\ CallOK(pc[w], call[w])
      /\ call \in [Workers -> Calls]
      /\ ReaderOK(stream, pc[w], local[w]) /\ Len(stream) \in Nat
      /\ id \in local[w].unread
  BY DEF IInv, TypeOK, WorkersOK, ReadHistory
<1> DEFINE upTo == local[w].base
           atCheckpoint == RecordFold(Absent, stream, id, 0)[upTo]
           current == RecordFold(atCheckpoint, stream, id, upTo)[Len(stream)]
           left == local[w].unread \ {id}
           entry == IF current.status = "delivered" THEN Absent
                    ELSE atCheckpoint
           l == [local[w] EXCEPT !.carried[id] = entry, !.unread = left]
           p == IF left = {} THEN "tail" ELSE "carried"
<1>2. /\ call' = [call EXCEPT ![w] = call[w]] /\ stream' = stream
      /\ Unchanging
  BY <1>1 DEF ReadHistory, Unchanging
<1>3. upTo \in 0..Len(stream)
  BY <1>1 DEF ReaderOK, Locals
<1>4. /\ atCheckpoint = WorkingSetFold(Absent, stream, id, 0)[upTo]
      /\ atCheckpoint # Absent /\ atCheckpoint.status # "delivered"
  <2>1. WorkingSetFold(Absent, stream, id, 0)[upTo] # Absent
    BY <1>1 DEF ReaderOK, WorkingSetOf
  <2>2. QED
    BY <1>1, <1>3, <2>1, WorkingSetIsRecord
<1>5. atCheckpoint \in RecordStates
  <2>1. RecordFold(Absent, stream, id, 0) \in [0..Len(stream) -> RecordStates]
    BY <1>1, AbsentType, FoldDef DEF RecordFold
  <2>2. QED
    BY <1>3, <2>1
<1>6. local' = [local EXCEPT ![w] = l] /\ pc' = [pc EXCEPT ![w] = p]
  BY <1>4 DEF ReadHistory, Store
<1> HIDE DEF atCheckpoint
<1>7. Resumable(stream, id, upTo, entry)
  <2>1. CASE current.status = "delivered"
    <3>1. Len(stream) \in 0..Len(stream) /\ upTo \in Nat
      BY <1>1, <1>3
    <3>2. \E j \in (upTo + 1)..Len(stream) :
            stream[j].id = id /\ stream[j].kind = "Delivered"
      BY <1>1, <1>4, <1>5, <2>1, <3>1, DeliveredByEvent
    <3>3. QED
      BY <2>1, <3>2 DEF Resumable
  <2>2. CASE current.status # "delivered"
    BY <1>4, <2>2 DEF Resumable
  <2>3. QED
    BY <2>1, <2>2
<1>8. entry \in RecordStates
  BY <1>5, AbsentType
<1> HIDE DEF entry
<1>9. /\ l \in Locals /\ l.base = upTo /\ l.unread = left
      /\ l.carried = [local[w].carried EXCEPT ![id] = entry]
  BY <1>1, <1>8 DEF Locals
<1>10. p \in {"tail", "carried"} /\ (p = "tail" <=> left = {}) /\ p \in Places
  BY DEF Places
<1>11. \A other \in Records \ left :
         Resumable(stream, other, upTo, l.carried[other])
  <2> SUFFICES ASSUME NEW other \in Records \ left
               PROVE  Resumable(stream, other, upTo, l.carried[other])
    OBVIOUS
  <2>1. local[w].carried \in [Records -> RecordStates]
    BY <1>1 DEF Locals
  <2>2. CASE other = id
    BY <1>7, <1>9, <2>1, <2>2
  <2>3. CASE other # id
    <3>1. other \in Records \ local[w].unread
      BY <2>3
    <3>2. l.carried[other] = local[w].carried[other]
      BY <1>9, <2>1, <2>3
    <3>3. QED
      BY <1>1, <3>1, <3>2 DEF ReaderOK
  <2>4. QED
    BY <2>2, <2>3
<1> HIDE DEF l, p
<1>12. ReaderOK(stream', p, l)
  BY <1>1, <1>2, <1>3, <1>9, <1>10, <1>11 DEF ReaderOK
<1>13. CallOK(p, call[w])
  BY <1>1, <1>10 DEF CallOK
<1>14. WorkerMoves(w)
  BY <1>1, <1>2, <1>6, <1>9, <1>10, <1>12, <1>13 DEF WorkerMoves
<1>15. QED
  BY <1>2, <1>14, UnchangingStep

\* The tail completes the working set: it is the fold of the whole stream.
LEMMA TailIsFullFold ==
  ASSUME IInv, NEW w \in Workers, pc[w] = "tail"
  PROVE  TailWorkingSet(w) = WorkingSetOf(stream, Len(stream))
<1>1. /\ stream \in Seq(Events) /\ local[w] \in Locals
      /\ ReaderOK(stream, pc[w], local[w]) /\ Len(stream) \in Nat
  BY DEF IInv, TypeOK, WorkersOK
<1> SUFFICES ASSUME NEW id \in Records
             PROVE  WorkingSetFold(local[w].carried[id], stream, id,
                                   local[w].base)[Len(stream)]
                      = WorkingSetFold(Absent, stream, id, 0)[Len(stream)]
  BY DEF TailWorkingSet, WorkingSetOf
<1>2. /\ local[w].base \in 0..Len(stream)
      /\ local[w].carried[id] \in RecordStates
      /\ Resumable(stream, id, local[w].base, local[w].carried[id])
  BY <1>1 DEF ReaderOK, Locals
<1>3. QED
  BY <1>1, <1>2, ResumeIsFullFold

\* A worker that goes on with what it has read moves well.
LEMMA GoOnMoves ==
  ASSUME IInv, NEW w \in Workers, stream' = stream,
         pc[w] \notin {"idle", "handler"},
         NEW p \in {"dedupe", "lookup", "append"}, NEW l \in Locals,
         pc' = [pc EXCEPT ![w] = p], local' = [local EXCEPT ![w] = l],
         call' = call, l.base <= Len(stream), l.version <= Len(stream),
         l.records = WorkingSetOf(stream, l.version)
  PROVE  WorkerMoves(w)
<1>1. /\ call[w] \in Calls /\ call \in [Workers -> Calls]
      /\ CallOK(pc[w], call[w])
  BY DEF IInv, TypeOK, WorkersOK
<1>2. call' = [call EXCEPT ![w] = call[w]]
  BY <1>1
<1>3. CallOK(p, call[w])
  BY <1>1 DEF CallOK
<1>4. ReaderOK(stream', p, l)
  BY DEF ReaderOK
<1>5. p \in Places
  BY DEF Places
<1>6. QED
  BY <1>1, <1>2, <1>3, <1>4, <1>5 DEF WorkerMoves

(* state() reads the events after the checkpoint. *)
LEMMA ReadTailStep ==
  ASSUME IInv, NEW w \in Workers, ReadTail(w)
  PROVE  IInv'
<1>1. /\ stream \in Seq(Events) /\ stream' = stream /\ pc[w] = "tail"
      /\ call[w] \in Calls /\ local[w] \in Locals /\ Unchanging
      /\ Len(stream) \in Nat /\ ReaderOK(stream, pc[w], local[w])
      /\ PlanAfterRead(w, TailWorkingSet(w))
  BY DEF IInv, TypeOK, WorkersOK, ReadTail, Unchanging
<1>2. TailWorkingSet(w) = WorkingSetOf(stream, Len(stream))
  BY <1>1, TailIsFullFold
<1> DEFINE l == [local[w] EXCEPT !.version = Len(stream),
                                 !.records = TailWorkingSet(w),
                                 !.unread = call[w].ids]
<1>3. WorkingSetOf(stream, Len(stream)) \in [Records -> RecordStates]
  <2>1. \A id \in Records :
          WorkingSetFold(Absent, stream, id, 0)[Len(stream)] \in RecordStates
    <3> SUFFICES ASSUME NEW id \in Records
                 PROVE  WorkingSetFold(Absent, stream, id, 0)[Len(stream)]
                          \in RecordStates
      OBVIOUS
    <3>1. WorkingSetFold(Absent, stream, id, 0)
            \in [0..Len(stream) -> RecordStates]
      BY <1>1, AbsentType, FoldDef DEF WorkingSetFold
    <3>2. QED
      BY <1>1, <3>1
  <2>2. QED
    BY <2>1 DEF WorkingSetOf
<1>4. /\ l \in Locals /\ l.base <= Len(stream) /\ l.version <= Len(stream)
      /\ l.records = WorkingSetOf(stream, l.version)
  <2>1. /\ l \in Locals /\ l.base = local[w].base /\ l.version = Len(stream)
        /\ l.records = TailWorkingSet(w)
    BY <1>1, <1>2, <1>3 DEF Locals, Calls
  <2>2. local[w].base <= Len(stream)
    BY <1>1 DEF ReaderOK
  <2>3. QED
    BY <1>1, <1>2, <2>1, <2>2
<1> DEFINE Go(place) == /\ pc' = [pc EXCEPT ![w] = place]
                        /\ local' = [local EXCEPT ![w] = l]
                        /\ UNCHANGED call
<1>5. Go("dedupe") \/ Go("append") \/ Go("lookup") \/ Throw(w)
  BY <1>1 DEF PlanAfterRead, Store
<1> HIDE DEF l
<1>6. ASSUME NEW p \in {"dedupe", "append", "lookup"}, Go(p)
      PROVE  WorkerMoves(w)
  BY <1>1, <1>4, <1>6, GoOnMoves
<1>7. ASSUME Throw(w) PROVE WorkerMoves(w)
  BY <1>1, <1>7, ThrowMoves
<1> HIDE DEF Go
<1>8. WorkerMoves(w)
  BY <1>5, <1>6, <1>7
<1>9. QED
  BY <1>1, <1>8, UnchangingStep

(* enqueue reads the records' own histories for duplicates. *)
LEMMA ReadDuplicateStep ==
  ASSUME IInv, NEW w \in Workers, NEW id \in Records, ReadDuplicate(w, id)
  PROVE  IInv'
<1>1. /\ stream \in Seq(Events) /\ stream' = stream /\ pc[w] = "dedupe"
      /\ call' = call /\ local[w] \in Locals /\ Unchanging
      /\ ReaderOK(stream, pc[w], local[w])
  BY DEF IInv, TypeOK, WorkersOK, ReadDuplicate, Unchanging
<1> DEFINE left == local[w].unread \ {id}
           found == IF Enqueued(id) THEN local[w].found \cup {id}
                    ELSE local[w].found
           l == [local[w] EXCEPT !.unread = left, !.found = found]
           p == IF left = {} THEN "append" ELSE "dedupe"
<1>2. pc' = [pc EXCEPT ![w] = p] /\ local' = [local EXCEPT ![w] = l]
  BY <1>1 DEF ReadDuplicate, Store, Locals
<1>3. left \in SUBSET Records /\ found \in SUBSET Records
  BY <1>1 DEF Locals
<1> HIDE DEF left, found
<1>4. /\ l \in Locals /\ l.base = local[w].base
      /\ l.version = local[w].version /\ l.records = local[w].records
  BY <1>1, <1>3 DEF Locals
<1>5. /\ l.base <= Len(stream) /\ l.version <= Len(stream)
      /\ l.records = WorkingSetOf(stream, l.version)
  BY <1>1, <1>4 DEF ReaderOK
<1>6. p \in {"dedupe", "lookup", "append"}
  OBVIOUS
<1> HIDE DEF l, p
<1>7. WorkerMoves(w)
  BY <1>1, <1>2, <1>4, <1>5, <1>6, GoOnMoves
<1>8. QED
  BY <1>1, <1>7, UnchangingStep

(* markDelivered looks for a record that left the working set. *)
LEMMA LookupStep ==
  ASSUME IInv, NEW w \in Workers, LookupDelivered(w)
  PROVE  IInv'
<1>1. stream' \in Seq(Events) /\ Unchanging /\ (Return(w) \/ Throw(w))
  BY DEF IInv, TypeOK, LookupDelivered, Unchanging
<1>2. WorkerMoves(w)
  BY <1>1, ReturnMoves, ThrowMoves
<1>3. QED
  BY <1>1, <1>2, UnchangingStep

\* The append that succeeds, with or without the reply: its version is the one
\* the plan was made for.
LEMMA AppendStep ==
  ASSUME IInv, NEW w \in Workers, AppendCommit(w) \/ AppendError(w)
  PROVE  IInv'
<1>1. /\ stream \in Seq(Events) /\ call[w] \in Calls /\ pc[w] = "append"
      /\ CallOK(pc[w], call[w])
  BY DEF IInv, TypeOK, WorkersOK, AppendCommit, AppendError
<1>2. ASSUME NEW es \in Planned(w), local[w].version = Len(stream)
      PROVE  /\ GoodAppend(stream, es)
             /\ stream \o es \in Seq(Events)
             /\ Op(w) = "claim" => IdsOf(es) \in SUBSET Records
  <2>1. /\ GoodAppend(stream, es)
        /\ Op(w) = "claim" => IdsOf(es) \in SUBSET Records
    BY <1>1, <1>2, PlannedGood
  <2>2. es \in Seq(Events)
    BY <2>1 DEF GoodAppend
  <2>3. stream \o es \in Seq(Events)
    BY <1>1, <2>2, AppendExtends
  <2>4. QED
    BY <2>1, <2>3
<1>3. CASE AppendCommit(w)
  <2>1. /\ local[w].version = Len(stream) /\ UNCHANGED <<runs, completed, faults>>
        /\ \E es \in Planned(w) \ {<<>>} :
             /\ stream' = stream \o es
             /\ IF Op(w) = "claim" THEN NextRecord(w, IdsOf(es)) ELSE Return(w)
    BY <1>3 DEF AppendCommit
  <2>2. PICK es \in Planned(w) :
             /\ stream' = stream \o es
             /\ IF Op(w) = "claim" THEN NextRecord(w, IdsOf(es)) ELSE Return(w)
    BY <2>1
  <2>3. /\ GoodAppend(stream, es) /\ stream' \in Seq(Events)
        /\ Op(w) = "claim" => IdsOf(es) \in SUBSET Records
    BY <1>2, <2>1, <2>2
  <2>4. WorkerMoves(w)
    <3>1. CASE Op(w) = "claim"
      <4>1. call[w].claim \in ClaimIds
        BY <1>1, <3>1 DEF CallOK, Op
      <4>2. QED
        BY <1>1, <2>2, <2>3, <3>1, <4>1, NextRecordMoves
    <3>2. CASE Op(w) # "claim"
      BY <2>2, <2>3, <3>2, ReturnMoves
    <3>3. QED
      BY <3>1, <3>2
  <2>5. StreamGrows
    BY <2>2, <2>3 DEF StreamGrows
  <2>6. ObserversOK'
    BY <2>1 DEF IInv, TypeOK, ObserversOK
  <2>7. QED
    BY <2>4, <2>5, <2>6, StepKeepsIInv
<1>4. CASE AppendError(w)
  <2>1. /\ faults < FaultBound /\ faults' = faults + 1 /\ Throw(w)
        /\ UNCHANGED <<runs, completed>>
        /\ \E es \in Planned(w) \ {<<>>} :
             \/ stream' = stream
             \/ local[w].version = Len(stream) /\ stream' = stream \o es
    BY <1>4 DEF AppendError
  <2>2. StreamGrows /\ stream' \in Seq(Events)
    <3>1. PICK es \in Planned(w) :
             \/ stream' = stream
             \/ local[w].version = Len(stream) /\ stream' = stream \o es
      BY <2>1
    <3>2. CASE stream' = stream
      BY <1>1, <3>2 DEF StreamGrows
    <3>3. CASE local[w].version = Len(stream) /\ stream' = stream \o es
      BY <1>2, <3>3 DEF StreamGrows
    <3>4. QED
      BY <3>1, <3>2, <3>3
  <2>3. WorkerMoves(w)
    BY <2>1, <2>2, ThrowMoves
  <2>4. ObserversOK'
    BY <2>1, LimitsAssumption DEF IInv, TypeOK, ObserversOK
  <2>5. QED
    BY <2>2, <2>3, <2>4, StepKeepsIInv
<1>5. QED
  BY <1>3, <1>4

(* An append that is not needed, conflicts or fails. *)
LEMMA NoAppendStep ==
  ASSUME IInv, NEW w \in Workers, AppendNothing(w) \/ AppendConflict(w)
  PROVE  IInv'
<1>1. /\ stream' \in Seq(Events) /\ Unchanging /\ call[w] \in Calls
      /\ pc[w] = "append" /\ CallOK(pc[w], call[w])
  BY DEF IInv, TypeOK, WorkersOK, AppendNothing, AppendConflict, Unchanging
<1>2. CASE Return(w) \/ Throw(w)
  <2>1. WorkerMoves(w)
    BY <1>1, <1>2, ReturnMoves, ThrowMoves
  <2>2. QED
    BY <1>1, <2>1, UnchangingStep
<1>3. CASE StartAttempt(w, Op(w), call[w].attempt + 1)
  <2>1. /\ Op(w) \in {"enqueue", "claim", "deliver", "redeliver", "fail"}
        /\ Op(w) # "enqueue" => call[w].claim \in ClaimIds
        /\ Op(w) \in {"deliver", "redeliver", "fail"} => call[w].todo # {}
        /\ call[w].attempt + 1 \in Nat
    BY <1>1 DEF CallOK, Op, Calls
  <2>2. WorkerMoves(w)
    BY <1>1, <1>3, <2>1, StartAttemptMoves
  <2>3. QED
    BY <1>1, <2>2, UnchangingStep
<1>4. QED
  BY <1>2, <1>3 DEF AppendNothing, AppendConflict

(* The delivery handler succeeds or fails. *)
LEMMA HandlerStep ==
  ASSUME IInv, NEW w \in Workers, HandlerSucceeds(w) \/ HandlerFails(w)
  PROVE  IInv'
<1>1. /\ stream' \in Seq(Events) /\ stream' = stream /\ call[w] \in Calls
      /\ pc[w] = "handler" /\ CallOK(pc[w], call[w]) /\ faults' = faults
      /\ \/ StartAttempt(w, "deliver", 1)
         \/ StartAttempt(w, "fail", 1)
      /\ \/ completed' = completed \cup {<<Current(w), call[w].claim>>}
         \/ completed' = completed
      /\ CountRun(w)
  BY DEF IInv, TypeOK, WorkersOK, HandlerSucceeds, HandlerFails
<1>2. call[w].todo # {} /\ call[w].claim \in ClaimIds
  BY <1>1 DEF CallOK
<1>3. Current(w) \in Records
  BY <1>1, <1>2, CurrentType
<1>4. WorkerMoves(w)
  BY <1>1, <1>2, StartAttemptMoves
<1>5. ObserversOK'
  <2>1. runs' \in [Records -> Nat]
    BY <1>1, <1>3 DEF CountRun, IInv, TypeOK
  <2>2. completed' \subseteq Records \X ClaimIds
    BY <1>1, <1>2, <1>3 DEF IInv, TypeOK
  <2>3. faults' \in 0..FaultBound
    BY <1>1 DEF IInv, TypeOK
  <2>4. QED
    BY <2>1, <2>2, <2>3 DEF ObserversOK
<1>6. StreamGrows
  BY <1>1 DEF StreamGrows
<1>7. QED
  BY <1>4, <1>5, <1>6, StepKeepsIInv

(* The invocation dies. *)
LEMMA CrashStep ==
  ASSUME IInv, NEW w \in Workers, Crash(w)
  PROVE  IInv'
<1>1. /\ stream' = stream /\ stream' \in Seq(Events) /\ EndCall(w)
      /\ runs' = runs /\ completed' = completed
      /\ faults' = faults + 1 /\ faults < FaultBound
  BY DEF Crash, IInv, TypeOK
<1>2. WorkerMoves(w)
  BY <1>1, EndCallMoves
<1>3. StreamGrows
  BY <1>1 DEF StreamGrows
<1>4. ObserversOK'
  BY <1>1, LimitsAssumption DEF IInv, TypeOK, ObserversOK
<1>5. QED
  BY <1>2, <1>3, <1>4, StepKeepsIInv

-----------------------------------------------------------------------------
(* The theorems.                                                           *)

(* The empty stream and idle workers satisfy the invariant. *)
LEMMA InitIInv == Init => IInv
<1> SUFFICES ASSUME Init PROVE IInv
  OBVIOUS
<1>1. stream = <<>> /\ stream \in Seq(Events) /\ Len(stream) = 0
  BY DEF Init
<1>2. TypeOK
  <2>1. /\ pc \in [Workers -> Places] /\ call \in [Workers -> Calls]
        /\ local \in [Workers -> Locals]
    BY NoCallType, NoLocalsType DEF Init, Places
  <2>2. runs \in [Records -> Nat] /\ completed \subseteq Records \X ClaimIds
    BY DEF Init
  <2>3. faults \in 0..FaultBound
    BY LimitsAssumption DEF Init
  <2>4. QED
    BY <1>1, <2>1, <2>2, <2>3 DEF TypeOK, Places
<1>3. CheckpointsTrue
  BY <1>1 DEF CheckpointsTrue, CheckpointsAt
<1>4. ASSUME NEW w \in Workers
      PROVE  ReaderOK(stream, pc[w], local[w]) /\ CallOK(pc[w], call[w])
  <2>1. pc[w] = "idle" /\ call[w] = NoCall /\ local[w] = NoLocals
    BY DEF Init
  <2>2. NoLocals.base = 0 /\ NoCall.op = "none"
    BY DEF NoLocals, NoCall
  <2>3. QED
    BY <1>1, <2>1, <2>2 DEF ReaderOK, CallOK
<1>5. QED
  BY <1>2, <1>3, <1>4 DEF IInv, WorkersOK

(* Every step keeps the invariant. *)
LEMMA NextIInv == IInv /\ [Next]_vars => IInv'
<1> SUFFICES ASSUME IInv, [Next]_vars PROVE IInv'
  OBVIOUS
<1>1. CASE UNCHANGED vars
  BY <1>1 DEF vars, IInv, TypeOK, CheckpointsTrue, CheckpointsAt, WorkersOK,
              WorkingSetAt
<1>2. CASE Next
  <2>1. PICK w \in Workers : Start(w) \/ Step(w) \/ Fault(w)
    BY <1>2 DEF Next
  <2>2. CASE Start(w)
    BY <2>2, StartStep
  <2>3. CASE Step(w)
    BY <2>3, ReadCheckpointStep, ReadHistoryStep, ReadTailStep,
       ReadDuplicateStep, LookupStep, AppendStep, NoAppendStep, HandlerStep
       DEF Step
  <2>4. CASE Fault(w)
    BY <2>4, AppendStep, CrashStep DEF Fault
  <2>5. QED
    BY <2>1, <2>2, <2>3, <2>4
<1>3. QED
  BY <1>1, <1>2

(* The invariant holds throughout. *)
LEMMA IInvHolds == Spec => []IInv
BY InitIInv, NextIInv, PTL DEF Spec

\* The variables keep their types: every plan and every read of the service
\* yields well-formed events, calls and records.
THEOREM TypeCorrect == Spec => []TypeOK
<1>1. IInv => TypeOK
  BY DEF IInv
<1>2. QED
  BY <1>1, IInvHolds, PTL

\* plannedCheckpoint only ever writes the truth: whatever conflicts, crashes and
\* lost replies happen, a checkpoint in the stream follows the version it
\* summarises and carries exactly the records in flight there.
THEOREM CheckpointsAreTrue == Spec => []CheckpointsTrue
<1>1. IInv => CheckpointsTrue
  BY DEF IInv
<1>2. QED
  BY <1>1, IInvHolds, PTL

\* state() is right: read in pieces from the newest checkpoint while others
\* append, it returns the fold of the whole stream at the version it reports.
THEOREM ResumeIsCorrect == Spec => []ResumedIsFullFold
<1>1. IInv => ResumedIsFullFold
  BY DEF IInv, WorkersOK, ReaderOK, ResumedIsFullFold, WorkingSetAt,
         WorkingSetOf
<1>2. QED
  BY <1>1, IInvHolds, PTL

-----------------------------------------------------------------------------
(* What appending does to the records.                                     *)

\* record() of a log.
RecordOf(log, id) == RecordFold(Absent, log, id, 0)[Len(log)]

\* A fold stands still over events of other records.
LEMMA FoldSkips ==
  ASSUME NEW log \in Seq(Events), NEW id, NEW a \in 0..Len(log),
         NEW b \in a..Len(log), \A i \in (a + 1)..b : log[i].id # id
  PROVE  RecordFold(Absent, log, id, 0)[b] = RecordFold(Absent, log, id, 0)[a]
<1> DEFINE F == Fold("record", Absent, log, id, 0)
           T == {n \in Nat : n \in a..b => F[n] = F[a]}
<1>1. \A i \in 0..Len(log) :
        F[i] = IF i <= 0 THEN Absent
               ELSE IF log[i].id = id THEN Apply("record", F[i - 1], log[i])
               ELSE F[i - 1]
  BY AbsentType, FoldDef
<1>2. Len(log) \in Nat /\ a \in Nat /\ b \in Nat
  OBVIOUS
<1> HIDE DEF F
<1>3. a \in T
  BY <1>2
<1>4. ASSUME NEW n \in Nat, n >= a, n \in T PROVE n + 1 \in T
  <2> SUFFICES ASSUME n + 1 \in a..b PROVE F[n + 1] = F[a]
    OBVIOUS
  <2>1. /\ n + 1 \in 0..Len(log) /\ (n + 1) - 1 = n /\ ~ (n + 1 <= 0)
        /\ n + 1 \in (a + 1)..b /\ n \in a..b
    BY <1>2, <1>4
  <2>2. F[n] = F[a]
    BY <1>4, <2>1
  <2>3. QED
    BY <1>1, <2>1, <2>2
<1> HIDE DEF T
<1>5. \A n \in Nat : n >= a => n \in T
  BY <1>2, <1>3, <1>4, SetInductionFrom
<1>6. QED
  BY <1>2, <1>5 DEF T, F, RecordFold

\* A record without events is absent.
LEMMA NoEventsAbsent ==
  ASSUME NEW log \in Seq(Events), NEW id,
         \A i \in 1..Len(log) : log[i].id # id
  PROVE  RecordOf(log, id) = Absent
<1>1. 0 \in 0..Len(log) /\ Len(log) \in 0..Len(log) /\ 0 + 1 = 1
  OBVIOUS
<1>2. RecordFold(Absent, log, id, 0)[0] = Absent
  BY <1>1, AbsentType, FoldDef DEF RecordFold
<1>3. RecordFold(Absent, log, id, 0)[Len(log)] = RecordFold(Absent, log, id, 0)[0]
  BY <1>1, FoldSkips
<1>4. QED
  BY <1>2, <1>3 DEF RecordOf

\* record() is a record state.
LEMMA RecordOfType ==
  ASSUME NEW log \in Seq(Events), NEW id
  PROVE  RecordOf(log, id) \in RecordStates
<1>1. RecordFold(Absent, log, id, 0) \in [0..Len(log) -> RecordStates]
  BY AbsentType, FoldDef DEF RecordFold
<1>2. Len(log) \in 0..Len(log)
  OBVIOUS
<1>3. QED
  BY <1>1, <1>2 DEF RecordOf

\* Events of other records leave a record as it was.
LEMMA OthersAppended ==
  ASSUME NEW log \in Seq(Events), NEW es \in Seq(Events), NEW id,
         \A i \in 1..Len(es) : es[i].id # id
  PROVE  RecordOf(log \o es, id) = RecordOf(log, id)
<1> DEFINE log2 == log \o es
<1>1. /\ log2 \in Seq(Events) /\ Len(log2) = Len(log) + Len(es)
      /\ Extends(log2, log)
      /\ \A i \in (Len(log) + 1)..(Len(log) + Len(es)) : log2[i] = es[i - Len(log)]
      /\ Len(log) \in Nat /\ Len(es) \in Nat
  BY AppendExtends
<1> HIDE DEF log2
<1>2. \A i \in (Len(log) + 1)..Len(log2) : log2[i].id # id
  <2> SUFFICES ASSUME NEW i \in (Len(log) + 1)..Len(log2) PROVE log2[i].id # id
    OBVIOUS
  <2>1. log2[i] = es[i - Len(log)] /\ i - Len(log) \in 1..Len(es)
    BY <1>1
  <2>2. QED
    BY <2>1
<1>3. Len(log) \in 0..Len(log2) /\ Len(log2) \in Len(log)..Len(log2)
  BY <1>1
<1>4. RecordFold(Absent, log2, id, 0)[Len(log2)] = RecordFold(Absent, log2, id, 0)[Len(log)]
  BY <1>1, <1>2, <1>3, FoldSkips
<1>5. RecordFold(Absent, log2, id, 0)[Len(log)] = RecordFold(Absent, log, id, 0)[Len(log)]
  <2>1. /\ Len(log) <= Len(log) /\ Len(log) <= Len(log2)
        /\ \A i \in 1..Len(log) : log2[i] = log[i]
    BY <1>1 DEF Extends
  <2>2. "record" \in {"record", "workingSet"} /\ 0 \in Nat /\ Absent \in RecordStates
    BY AbsentType
  <2>3. log2 \in Seq(Events) /\ Len(log) \in Nat
    BY <1>1
  <2>4. Fold("record", Absent, log2, id, 0)[Len(log)] = Fold("record", Absent, log, id, 0)[Len(log)]
    BY <2>1, <2>2, <2>3, FoldPrefix
  <2>5. QED
    BY <2>4 DEF RecordFold
<1>6. QED
  BY <1>4, <1>5 DEF RecordOf, log2

\* The one event of a record in what is appended is applied to it.
LEMMA OneAppended ==
  ASSUME NEW log \in Seq(Events), NEW es \in Seq(Events), NEW id,
         NEW k \in 1..Len(es), es[k].id = id,
         \A i \in 1..Len(es) : i # k => es[i].id # id
  PROVE  RecordOf(log \o es, id) = Apply("record", RecordOf(log, id), es[k])
<1> DEFINE log2 == log \o es
           F == RecordFold(Absent, log2, id, 0)
           m == Len(log) + k
<1>1. /\ log2 \in Seq(Events) /\ Len(log2) = Len(log) + Len(es)
      /\ Extends(log2, log)
      /\ \A i \in (Len(log) + 1)..(Len(log) + Len(es)) : log2[i] = es[i - Len(log)]
      /\ Len(log) \in Nat /\ Len(es) \in Nat
  BY AppendExtends
<1> HIDE DEF log2
<1>2. /\ m - 1 \in Len(log)..Len(log2) /\ m \in 0..Len(log2) /\ ~ (m <= 0)
      /\ Len(log) \in 0..Len(log2) /\ Len(log2) \in m..Len(log2)
      /\ m \in (Len(log) + 1)..(Len(log) + Len(es)) /\ m - Len(log) = k
  BY <1>1
<1>3. \A i \in (Len(log) + 1)..Len(log2) : i # m => log2[i].id # id
  <2> SUFFICES ASSUME NEW i \in (Len(log) + 1)..Len(log2), i # m PROVE log2[i].id # id
    OBVIOUS
  <2>1. log2[i] = es[i - Len(log)] /\ i - Len(log) \in 1..Len(es) /\ i - Len(log) # k
    BY <1>1
  <2>2. QED
    BY <2>1
<1>4. F[m - 1] = F[Len(log)]
  <2>1. \A i \in (Len(log) + 1)..(m - 1) : log2[i].id # id
    BY <1>1, <1>2, <1>3
  <2> HIDE DEF m
  <2>2. QED
    BY <1>1, <1>2, <2>1, FoldSkips
<1>5. F[Len(log2)] = F[m]
  <2>1. \A i \in (m + 1)..Len(log2) : log2[i].id # id
    BY <1>1, <1>2, <1>3
  <2> HIDE DEF m
  <2>2. QED
    BY <1>1, <1>2, <2>1, FoldSkips
<1>6. F[m] = Apply("record", F[m - 1], log2[m])
  <2>1. log2[m].id = id
    BY <1>1, <1>2
  <2>2. \A i \in 0..Len(log2) :
        F[i] = IF i <= 0 THEN Absent
               ELSE IF log2[i].id = id THEN Apply("record", F[i - 1], log2[i])
               ELSE F[i - 1]
    BY <1>1, AbsentType, FoldDef DEF RecordFold
  <2> HIDE DEF m, F
  <2>3. QED
    BY <1>2, <2>1, <2>2
<1>7. log2[m] = es[k]
  BY <1>1, <1>2
<1>8. F[Len(log)] = RecordFold(Absent, log, id, 0)[Len(log)]
  <2>1. /\ Len(log) <= Len(log) /\ Len(log) <= Len(log2)
        /\ \A i \in 1..Len(log) : log2[i] = log[i]
    BY <1>1 DEF Extends
  <2>2. QED
    BY <1>1, <2>1, AbsentType, FoldPrefix DEF RecordFold
<1> HIDE DEF m, F
<1>9. QED
  BY <1>4, <1>5, <1>6, <1>7, <1>8 DEF RecordOf, log2, F

\* One event per id of a set: each id of the set has exactly one.
LEMMA EventPerIdEffect ==
  ASSUME NEW log \in Seq(Events),
         NEW kind \in {"Enqueued", "Claimed", "Delivered", "Failed"},
         NEW S \in SUBSET Records, NEW claimId \in ClaimIds \cup {NoClaim},
         NEW es \in EventPerId(kind, S, claimId)
  PROVE  /\ IdsOf(es) = S
         /\ \A id \in S : RecordOf(log \o es, id)
              = Apply("record", RecordOf(log, id), RecordEvent(kind, id, claimId))
         /\ \A id \in Records \ S : RecordOf(log \o es, id) = RecordOf(log, id)
<1>1. Cardinality(S) \in Nat /\ S \subseteq Nat
  BY RecordsAssumption, FS_Subset, FS_CardinalityType
<1> DEFINE n == Cardinality(S)
<1> HIDE DEF n
<1>2. PICK f \in [1..n -> S] :
        /\ es = [i \in 1..n |-> RecordEvent(kind, f[i], claimId)]
        /\ \A i, j \in 1..n : i < j => f[i] < f[j]
        /\ \A id \in S : \E i \in 1..n : f[i] = id
  BY DEF EventPerId, InOrder, n
<1>3. GoodAppend(log, es)
  BY EventPerIdGood
<1>4. es \in Seq(Events)
  BY <1>3 DEF GoodAppend
<1>5. Len(es) = n /\ n \in Nat
  BY <1>1, <1>2, <1>4 DEF n
<1>6. \A i \in 1..n : es[i] = RecordEvent(kind, f[i], claimId) /\ es[i].id = f[i]
  BY <1>2 DEF RecordEvent
<1>7. IdsOf(es) = S
  BY <1>2, <1>5, <1>6 DEF IdsOf
<1>8. ASSUME NEW id \in S
      PROVE  RecordOf(log \o es, id)
               = Apply("record", RecordOf(log, id), RecordEvent(kind, id, claimId))
  <2>1. PICK k \in 1..n : f[k] = id
    BY <1>2
  <2>2. ASSUME NEW i \in 1..n, i # k PROVE es[i].id # id
    <3>1. i < k \/ k < i
      BY <1>5, <2>2
    <3>2. f[i] \in Nat /\ f[k] \in Nat
      BY <1>1, <1>2
    <3>3. QED
      BY <1>2, <1>6, <2>1, <3>1, <3>2
  <2>3. k \in 1..Len(es) /\ es[k].id = id /\ es[k] = RecordEvent(kind, id, claimId)
    BY <1>5, <1>6, <2>1
  <2>4. QED
    BY <1>4, <1>5, <2>2, <2>3, OneAppended
<1>9. ASSUME NEW id \in Records \ S
      PROVE  RecordOf(log \o es, id) = RecordOf(log, id)
  <2>1. \A i \in 1..Len(es) : es[i].id # id
    BY <1>2, <1>5, <1>6
  <2>2. QED
    BY <1>4, <2>1, OthersAppended
<1>10. QED
  BY <1>7, <1>8, <1>9

\* A delivery, with or without the checkpoint before it, is applied to its
\* record and to no other.
LEMMA TerminalEventsEffect ==
  ASSUME IInv, NEW w \in Workers, pc[w] = "append",
         local[w].version = Len(stream), Op(w) \in {"deliver", "redeliver"},
         NEW id \in Records
  PROVE  RecordOf(stream \o TerminalEvents(w), id) =
           IF id = Current(w)
           THEN Apply("record", RecordOf(stream, id),
                      RecordEvent("Delivered", id, call[w].claim))
           ELSE RecordOf(stream, id)
<1>1. /\ stream \in Seq(Events) /\ call[w] \in Calls /\ local[w] \in Locals
      /\ CallOK(pc[w], call[w]) /\ GoodAppend(stream, TerminalEvents(w))
  BY TerminalEventsGood DEF IInv, TypeOK, WorkersOK
<1>2. call[w].todo # {} /\ call[w].claim \in ClaimIds
  BY <1>1 DEF CallOK, Op
<1>3. Current(w) \in Records /\ CheckpointName \notin Records
  BY <1>1, <1>2, CurrentType, RecordsAssumption
<1> DEFINE e == RecordEvent("Delivered", Current(w), call[w].claim)
           k == CheckpointEvent(local[w].version, InFlight(local[w].records))
           es == TerminalEvents(w)
<1>4. e \in Events /\ e.id = Current(w)
  BY <1>2, <1>3 DEF RecordEvent, Events
<1>5. k \in Events /\ k.id = CheckpointName
  BY <1>1 DEF CheckpointEvent, Events, InFlight, Locals
<1>6. es \in Seq(Events)
  BY <1>1 DEF GoodAppend
<1>7. es = <<>> \o <<e>> \/ es = <<k>> \o <<e>>
  BY DEF TerminalEvents, PlannedCheckpoint
<1>8. id = Current(w) => e = RecordEvent("Delivered", id, call[w].claim)
  OBVIOUS
<1> HIDE DEF e, k, es
<1>9. CASE es = <<>> \o <<e>>
  <2>1. es = <<e>>
    BY <1>4, <1>9
  <2>2. Len(es) = 1 /\ es[1] = e
    BY <2>1
  <2>3. CASE id = Current(w)
    <3>1. 1 \in 1..Len(es) /\ es[1].id = id /\ \A i \in 1..Len(es) : i # 1 => es[i].id # id
      BY <1>4, <2>2, <2>3
    <3>2. RecordOf(stream \o es, id) = Apply("record", RecordOf(stream, id), es[1])
      BY <1>1, <1>6, <3>1, OneAppended
    <3>3. QED
      BY <1>8, <2>2, <2>3, <3>2 DEF es
  <2>4. CASE id # Current(w)
    <3>1. \A i \in 1..Len(es) : es[i].id # id
      BY <1>4, <2>2, <2>4
    <3>2. QED
      BY <1>1, <1>6, <2>4, <3>1, OthersAppended DEF es
  <2>5. QED
    BY <2>3, <2>4
<1>10. CASE es = <<k>> \o <<e>>
  <2>1. Len(es) = 2 /\ es[1] = k /\ es[2] = e
    BY <1>4, <1>5, <1>10, PairOfEvents
  <2>2. \A i \in 1..Len(es) : i = 1 \/ i = 2
    BY <2>1
  <2>3. CASE id = Current(w)
    <3>1. 2 \in 1..Len(es) /\ es[2].id = id /\ \A i \in 1..Len(es) : i # 2 => es[i].id # id
      BY <1>3, <1>4, <1>5, <2>1, <2>2, <2>3
    <3>2. RecordOf(stream \o es, id) = Apply("record", RecordOf(stream, id), es[2])
      BY <1>1, <1>6, <3>1, OneAppended
    <3>3. QED
      BY <1>8, <2>1, <2>3, <3>2 DEF es
  <2>4. CASE id # Current(w)
    <3>1. \A i \in 1..Len(es) : es[i].id # id
      BY <1>3, <1>4, <1>5, <2>1, <2>2, <2>4
    <3>2. QED
      BY <1>1, <1>6, <2>4, <3>1, OthersAppended DEF es
  <2>5. QED
    BY <2>3, <2>4
<1>11. QED
  BY <1>7, <1>9, <1>10

-----------------------------------------------------------------------------
(* Claims, handlers and deliveries.                                        *)

FirstOf(S) == CHOOSE id \in S : \A other \in S : id <= other

HasEvent(log, id, n) == \E i \in 1..n : log[i].id = id

\* What a plan relies on when it appends at the version it has read: the ids
\* it enqueues have no event yet, the record it completes is its own, and a
\* delivery's handler has returned.
PlanOK(log, place, c, l, done) ==
  /\ place = "dedupe" => c.op = "enqueue"
  /\ c.op = "enqueue" /\ place \in {"dedupe", "append"} =>
       \A id \in c.ids \ (l.unread \cup l.found) : ~ HasEvent(log, id, l.version)
  /\ c.op = "enqueue" /\ place = "append" => l.unread = {}
  /\ place = "append" /\ c.op \in {"deliver", "redeliver", "fail"} =>
       ClaimedBy(l.records[FirstOf(c.todo)], c.claim)
  /\ c.op \in {"deliver", "redeliver"} => <<FirstOf(c.todo), c.claim>> \in done

\* The records a drain has claimed and not finished, and those of them whose
\* handler it has not run yet.
Held(place, c) ==
  IF place = "handler" \/ c.op \in {"deliver", "fail"} THEN c.todo ELSE {}

Unpaid(place, c) ==
  IF place = "handler" THEN c.todo
  ELSE IF c.op \in {"deliver", "fail"} THEN c.todo \ {FirstOf(c.todo)}
  ELSE {}

HeldAt(r, claimId) == ClaimedBy(r, claimId) \/ r.status = "delivered"

PlansOK == \A w \in Workers : PlanOK(stream, pc[w], call[w], local[w], completed)

ClaimsHeld ==
  \A w \in Workers : \A id \in Held(pc[w], call[w]) :
    HeldAt(RecordOf(stream, id), call[w].claim)

ClaimsDisjoint ==
  \A w, v \in Workers : w # v =>
    Held(pc[w], call[w]) \cap Held(pc[v], call[v]) = {}

RunsPaid == \A id \in Records : runs[id] <= RecordOf(stream, id).attempts

RunsLeft ==
  \A w \in Workers : \A id \in Unpaid(pc[w], call[w]) :
    runs[id] < RecordOf(stream, id).attempts

Handled ==
  \A id \in Records : RecordOf(stream, id).status = "delivered" =>
    <<id, RecordOf(stream, id).claim>> \in completed

JInv == PlansOK /\ ClaimsHeld /\ ClaimsDisjoint /\ RunsPaid /\ RunsLeft /\ Handled

\* What is held and unpaid are records, and the unpaid are held.
LEMMA HeldType ==
  ASSUME NEW p, NEW c \in Calls
  PROVE  /\ Held(p, c) \in SUBSET Records
         /\ Unpaid(p, c) \in SUBSET Records
         /\ Unpaid(p, c) \subseteq Held(p, c)
BY DEF Held, Unpaid, Calls

\* Worker w goes to place p in call c, holding no more than before.
Releases(w, p, c) ==
  /\ Held(p, c) \subseteq Held(pc[w], call[w])
  /\ Held(p, c) # {} => c.claim = call[w].claim
  /\ Unpaid(p, c) \subseteq Unpaid(pc[w], call[w])

\* Worker w is at p, in c, with l; the others are where they were.
MovesTo(w, p, c, l) ==
  /\ pc' = [pc EXCEPT ![w] = p]
  /\ call' = [call EXCEPT ![w] = c]
  /\ local' = [local EXCEPT ![w] = l]

(* Where the workers are after a move of one. *)
LEMMA MovedWorkers ==
  ASSUME IInv, NEW w \in Workers, NEW p, NEW c, NEW l, MovesTo(w, p, c, l)
  PROVE  /\ pc'[w] = p /\ call'[w] = c /\ local'[w] = l
         /\ \A v \in Workers \ {w} :
              pc'[v] = pc[v] /\ call'[v] = call[v] /\ local'[v] = local[v]
BY DEF IInv, TypeOK, MovesTo

\* The plans of the workers that do not move stay good.
LEMMA OtherPlans ==
  ASSUME IInv, JInv, NEW w \in Workers, NEW p, NEW c, NEW l, MovesTo(w, p, c, l),
         Extends(stream', stream), completed \subseteq completed',
         PlanOK(stream', p, c, l, completed')
  PROVE  PlansOK'
<1>1. /\ pc'[w] = p /\ call'[w] = c /\ local'[w] = l
      /\ \A v \in Workers \ {w} :
           pc'[v] = pc[v] /\ call'[v] = call[v] /\ local'[v] = local[v]
  BY MovedWorkers
<1> SUFFICES ASSUME NEW v \in Workers
             PROVE  PlanOK(stream', pc'[v], call'[v], local'[v], completed')
  BY DEF PlansOK
<1>2. CASE v = w
  BY <1>1, <1>2
<1>3. CASE v # w
  <2>1. PlanOK(stream, pc[v], call[v], local[v], completed)
    BY DEF JInv, PlansOK
  <2>2. /\ pc[v] \in {"dedupe", "append"} => local[v].version <= Len(stream)
        /\ local[v].version \in Nat /\ Len(stream) \in Nat
    BY DEF IInv, WorkersOK, ReaderOK, TypeOK, Locals
  <2>3. pc[v] \in {"dedupe", "append"} =>
          \A id : HasEvent(stream', id, local[v].version)
                    => HasEvent(stream, id, local[v].version)
    BY <2>2 DEF HasEvent, Extends
  <2>4. PlanOK(stream', pc[v], call[v], local[v], completed')
    BY <2>1, <2>3 DEF PlanOK
  <2>5. QED
    BY <1>1, <1>3, <2>4
<1>4. QED
  BY <1>2, <1>3

\* A worker that only releases, with the stream and the observers as they are,
\* keeps the invariant when its own plan is good.
LEMMA QuietStep ==
  ASSUME IInv, JInv, NEW w \in Workers, NEW p, NEW c, NEW l, MovesTo(w, p, c, l),
         UNCHANGED <<stream, runs, completed>>, Releases(w, p, c),
         PlanOK(stream, p, c, l, completed)
  PROVE  JInv'
<1>1. /\ pc'[w] = p /\ call'[w] = c /\ local'[w] = l
      /\ \A v \in Workers \ {w} :
           pc'[v] = pc[v] /\ call'[v] = call[v] /\ local'[v] = local[v]
  BY MovedWorkers
<1>2. PlansOK'
  <2>1. Extends(stream', stream)
    BY DEF Extends, IInv, TypeOK
  <2>2. QED
    BY <2>1, OtherPlans
<1>3. ClaimsHeld'
  BY <1>1 DEF ClaimsHeld, JInv, Releases
<1>4. ClaimsDisjoint'
  <2> SUFFICES ASSUME NEW u \in Workers, NEW v \in Workers, u # v
               PROVE  Held(pc'[u], call'[u]) \cap Held(pc'[v], call'[v]) = {}
    BY DEF ClaimsDisjoint
  <2>1. Held(pc[u], call[u]) \cap Held(pc[v], call[v]) = {}
    BY DEF JInv, ClaimsDisjoint
  <2>2. /\ Held(pc'[u], call'[u]) \subseteq Held(pc[u], call[u])
        /\ Held(pc'[v], call'[v]) \subseteq Held(pc[v], call[v])
    BY <1>1 DEF Releases
  <2>3. QED
    BY <2>1, <2>2
<1>5. RunsPaid' /\ Handled'
  BY DEF JInv, RunsPaid, Handled
<1>6. RunsLeft'
  BY <1>1 DEF RunsLeft, JInv, Releases
<1>7. QED
  BY <1>2, <1>3, <1>4, <1>5, <1>6 DEF JInv

\* A worker that leaves an attempt has no plan yet.
LEMMA LeftPlan ==
  ASSUME NEW log, NEW done, NEW p \in {"idle", "checkpoint", "handler"}, NEW c,
         c.op \in {"deliver", "redeliver"} => <<FirstOf(c.todo), c.claim>> \in done
  PROVE  PlanOK(log, p, c, NoLocals, done)
BY DEF PlanOK

\* How a call is left: EndCall, StartAttempt, NextRecord, Throw and Return
\* release, and a completion that goes on is one whose handler returned.
Leaves(w, p, c) ==
  /\ MovesTo(w, p, c, NoLocals)
  /\ p \in {"idle", "checkpoint", "handler"}
  /\ c \in Calls
  /\ Releases(w, p, c)
  /\ c.op \in {"deliver", "redeliver"} =>
       c.op = call[w].op /\ c.todo = call[w].todo /\ c.claim = call[w].claim

(* EndCall holds nothing. *)
LEMMA EndCallLeaves ==
  ASSUME IInv, NEW w \in Workers, EndCall(w)
  PROVE  Leaves(w, "idle", NoCall)
<1>1. Held("idle", NoCall) = {} /\ Unpaid("idle", NoCall) = {} /\ NoCall.op = "none"
  BY DEF Held, Unpaid, NoCall
<1>2. QED
  BY <1>1, NoCallType DEF Leaves, Releases, EndCall, Leave, MovesTo

\* A retry holds what the attempt held, and so does markFailed after
\* markDelivered.
LEMMA RetryLeaves ==
  ASSUME IInv, NEW w \in Workers, pc[w] # "handler", NEW op, NEW n \in Nat,
         op = call[w].op \/ (op = "fail" /\ call[w].op = "deliver"),
         StartAttempt(w, op, n)
  PROVE  \E c : Leaves(w, "checkpoint", c)
<1> DEFINE c == [call[w] EXCEPT !.op = op, !.attempt = n]
<1>1. call[w] \in Calls
  BY DEF IInv, TypeOK
<1>2. /\ c \in Calls /\ c.op = op /\ c.todo = call[w].todo /\ c.claim = call[w].claim
  BY <1>1 DEF Calls
<1>3. MovesTo(w, "checkpoint", c, NoLocals)
  BY DEF StartAttempt, Leave, MovesTo
<1> HIDE DEF c
<1>4. Releases(w, "checkpoint", c)
  BY <1>2 DEF Releases, Held, Unpaid
<1>5. Leaves(w, "checkpoint", c)
  BY <1>2, <1>3, <1>4 DEF Leaves
<1>6. QED
  BY <1>5

(* Throw. *)
LEMMA ThrowLeaves ==
  ASSUME IInv, NEW w \in Workers, pc[w] # "handler", Throw(w)
  PROVE  \E p, c : Leaves(w, p, c)
<1>1. CASE Op(w) = "deliver"
  <2>1. StartAttempt(w, "fail", 1) /\ call[w].op = "deliver"
    BY <1>1 DEF Throw, Op
  <2>2. QED
    BY <2>1, RetryLeaves
<1>2. CASE Op(w) # "deliver"
  BY <1>2, EndCallLeaves DEF Throw
<1>3. QED
  BY <1>1, <1>2

\* Return finishes the record the drain was at.
LEMMA ReturnLeaves ==
  ASSUME IInv, NEW w \in Workers, pc[w] # "handler", Return(w)
  PROVE  \E p, c : Leaves(w, p, c) /\ Held(p, c) \subseteq call[w].todo \ {Current(w)}
<1> DEFINE left == call[w].todo \ {Current(w)}
           c == [NoCall EXCEPT !.claim = call[w].claim, !.todo = left]
<1>1. call[w] \in Calls
  BY DEF IInv, TypeOK
<1>2. CASE EndCall(w)
  <2>1. Leaves(w, "idle", NoCall) /\ Held("idle", NoCall) = {}
    BY <1>2, EndCallLeaves DEF Held, NoCall
  <2>2. QED
    BY <2>1
<1>3. CASE ~ EndCall(w)
  <2>1. /\ call[w].op \in {"deliver", "fail"} /\ left # {}
        /\ Leave(w, "handler", c)
    BY <1>3 DEF Return, NextRecord, Op
  <2>2. c \in Calls /\ c.op = "none" /\ c.todo = left /\ c.claim = call[w].claim
    BY <1>1 DEF Calls, NoCall
  <2>3. MovesTo(w, "handler", c, NoLocals)
    BY <2>1 DEF Leave, MovesTo
  <2>4. left = call[w].todo \ {FirstOf(call[w].todo)}
    BY DEF Current, FirstOf
  <2> HIDE DEF c, left
  <2>5. Releases(w, "handler", c) /\ Held("handler", c) = left
    BY <2>1, <2>2, <2>4 DEF Releases, Held, Unpaid
  <2>6. Leaves(w, "handler", c)
    BY <2>2, <2>3, <2>5 DEF Leaves
  <2>7. QED
    BY <2>5, <2>6 DEF left
<1>4. QED
  BY <1>2, <1>3

\* Leaving with the stream and the observers as they are keeps the invariant.
LEMMA LeaveStep ==
  ASSUME IInv, JInv, NEW w \in Workers, NEW p, NEW c, Leaves(w, p, c),
         UNCHANGED <<stream, runs, completed>>
  PROVE  JInv'
<1>1. PlanOK(stream, pc[w], call[w], local[w], completed)
  BY DEF JInv, PlansOK
<1>2. c.op \in {"deliver", "redeliver"} => <<FirstOf(c.todo), c.claim>> \in completed
  BY <1>1 DEF PlanOK, Leaves
<1>3. PlanOK(stream, p, c, NoLocals, completed)
  BY <1>2, LeftPlan DEF Leaves
<1>4. QED
  BY <1>3, QuietStep DEF Leaves

(* Starting a call holds nothing. *)
LEMMA StartJ ==
  ASSUME IInv, JInv, NEW w \in Workers, Start(w)
  PROVE  JInv'
<1>1. ASSUME NEW c, c.op \in {"enqueue", "claim", "redeliver"}, Call(w, c),
             c.op = "redeliver" => <<FirstOf(c.todo), c.claim>> \in completed
      PROVE  JInv'
  <2>1. /\ MovesTo(w, "checkpoint", c, NoLocals)
        /\ UNCHANGED <<stream, runs, completed>>
    BY <1>1 DEF Call, Leave, MovesTo
  <2>2. Releases(w, "checkpoint", c)
    BY <1>1 DEF Releases, Held, Unpaid
  <2>3. PlanOK(stream, "checkpoint", c, NoLocals, completed)
    BY <1>1, LeftPlan
  <2>4. QED
    BY <2>1, <2>2, <2>3, QuietStep
<1>2. ASSUME NEW targets \in SourceEvents, StartEnqueue(w, targets) PROVE JInv'
  <2> DEFINE c == [NoCall EXCEPT !.op = "enqueue", !.attempt = 1, !.ids = targets]
  <2>1. /\ Call(w, c) /\ c.op \in {"enqueue", "claim", "redeliver"}
        /\ c.op = "redeliver" => <<FirstOf(c.todo), c.claim>> \in completed
    BY <1>2 DEF StartEnqueue, NoCall
  <2> HIDE DEF c
  <2>2. QED
    BY <1>1, <2>1
<1>3. ASSUME NEW claimId \in ClaimIds, StartDrain(w, claimId) PROVE JInv'
  <2> DEFINE c == [NoCall EXCEPT !.op = "claim", !.attempt = 1, !.claim = claimId]
  <2>1. /\ Call(w, c) /\ c.op \in {"enqueue", "claim", "redeliver"}
        /\ c.op = "redeliver" => <<FirstOf(c.todo), c.claim>> \in completed
    BY <1>3 DEF StartDrain, NoCall
  <2> HIDE DEF c
  <2>2. QED
    BY <1>1, <2>1
<1>4. ASSUME NEW id \in Records, NEW claimId \in ClaimIds, StartRedelivery(w, id, claimId)
      PROVE  JInv'
  <2> DEFINE c == [NoCall EXCEPT !.op = "redeliver", !.attempt = 1,
                                 !.claim = claimId, !.todo = {id}]
  <2>1. Call(w, c) /\ c.op = "redeliver" /\ c.todo = {id} /\ c.claim = claimId
    BY <1>4 DEF StartRedelivery, NoCall
  <2>2. FirstOf({id}) = id
    BY RecordsAssumption DEF FirstOf
  <2>3. <<id, claimId>> \in completed
    BY <1>4 DEF StartRedelivery
  <2> HIDE DEF c
  <2>4. QED
    BY <1>1, <2>1, <2>2, <2>3
<1>5. QED
  BY <1>2, <1>3, <1>4 DEF Start

\* A worker that goes on in its call holds what it held.
LEMMA GoOnJ ==
  ASSUME IInv, JInv, NEW w \in Workers, pc[w] # "handler",
         NEW p, p # "handler", NEW l, MovesTo(w, p, call[w], l),
         UNCHANGED <<stream, runs, completed>>,
         PlanOK(stream, p, call[w], l, completed)
  PROVE  JInv'
<1>1. Releases(w, p, call[w])
  BY DEF Releases, Held, Unpaid
<1>2. QED
  BY <1>1, QuietStep

(* The reads of state(). *)
LEMMA ReadsJ ==
  ASSUME IInv, JInv, NEW w \in Workers,
         ReadCheckpoint(w) \/ \E id \in Records : ReadHistory(w, id)
  PROVE  JInv'
<1>1. /\ UNCHANGED <<stream, runs, completed>> /\ UNCHANGED call
      /\ pc[w] \in {"checkpoint", "carried"}
  BY DEF ReadCheckpoint, ReadHistory, Unchanging
<1>2. PICK p, l :
        p \in {"carried", "tail"} /\ pc' = [pc EXCEPT ![w] = p] /\ local' = [local EXCEPT ![w] = l]
  BY DEF ReadCheckpoint, ReadHistory, Store
<1>3. MovesTo(w, p, call[w], l)
  BY <1>1, <1>2 DEF MovesTo, IInv, TypeOK
<1>4. PlanOK(stream, pc[w], call[w], local[w], completed)
  BY DEF JInv, PlansOK
<1>5. PlanOK(stream, p, call[w], l, completed)
  BY <1>2, <1>4 DEF PlanOK
<1>6. QED
  BY <1>1, <1>2, <1>3, <1>5, GoOnJ

(* The tail read, and the plan up to its next await. *)
LEMMA ReadTailJ ==
  ASSUME IInv, JInv, NEW w \in Workers, ReadTail(w)
  PROVE  JInv'
<1>1. /\ UNCHANGED <<stream, runs, completed>> /\ pc[w] = "tail"
      /\ PlanAfterRead(w, TailWorkingSet(w))
      /\ call[w] \in Calls /\ local[w] \in Locals /\ call \in [Workers -> Calls]
  BY DEF ReadTail, Unchanging, IInv, TypeOK
<1>2. PlanOK(stream, pc[w], call[w], local[w], completed)
  BY DEF JInv, PlansOK
<1> DEFINE set == TailWorkingSet(w)
           l == [local[w] EXCEPT !.version = Len(stream), !.records = set,
                                 !.unread = call[w].ids]
<1>3. l.records = set /\ l.unread = call[w].ids
  BY <1>1 DEF Locals
<1>4. Current(w) = FirstOf(call[w].todo)
  BY DEF Current, FirstOf
<1>5. CASE Throw(w)
  BY <1>1, <1>5, ThrowLeaves, LeaveStep
<1>6. CASE ~ Throw(w)
  <2>1. PICK p \in {"dedupe", "append", "lookup"} :
          /\ pc' = [pc EXCEPT ![w] = p]
          /\ local' = [local EXCEPT ![w] = l]
          /\ call' = call
          /\ p = "dedupe" => call[w].op = "enqueue"
          /\ p = "append" => call[w].op # "enqueue"
          /\ p = "append" /\ call[w].op \in {"deliver", "redeliver", "fail"} =>
               ClaimedBy(set[Current(w)], call[w].claim)
    BY <1>1, <1>6 DEF PlanAfterRead, Store, Op
  <2>2. MovesTo(w, p, call[w], l)
    BY <1>1, <2>1 DEF MovesTo
  <2> HIDE DEF l, set
  <2>3. PlanOK(stream, p, call[w], l, completed)
    BY <1>2, <1>3, <1>4, <2>1 DEF PlanOK
  <2>4. QED
    BY <1>1, <2>1, <2>2, <2>3, GoOnJ
<1>7. QED
  BY <1>5, <1>6

(* A read for duplicates. *)
LEMMA ReadDuplicateJ ==
  ASSUME IInv, JInv, NEW w \in Workers, NEW id \in Records, ReadDuplicate(w, id)
  PROVE  JInv'
<1>1. /\ UNCHANGED <<stream, runs, completed>> /\ pc[w] = "dedupe" /\ call' = call
      /\ local[w] \in Locals /\ call \in [Workers -> Calls]
      /\ local[w].version <= Len(stream) /\ Len(stream) \in Nat /\ local[w].version \in Nat
  BY DEF ReadDuplicate, Unchanging, IInv, TypeOK, WorkersOK, ReaderOK, Locals
<1>2. PlanOK(stream, pc[w], call[w], local[w], completed)
  BY DEF JInv, PlansOK
<1> DEFINE left == local[w].unread \ {id}
           found == IF Enqueued(id) THEN local[w].found \cup {id}
                    ELSE local[w].found
           l == [local[w] EXCEPT !.unread = left, !.found = found]
           p == IF left = {} THEN "append" ELSE "dedupe"
<1>3. MovesTo(w, p, call[w], l)
  BY <1>1 DEF ReadDuplicate, Store, Locals, MovesTo
<1>4. l.unread = left /\ l.found = found /\ l.version = local[w].version
  BY <1>1 DEF Locals
<1>5. ~ Enqueued(id) => ~ HasEvent(stream, id, local[w].version)
  BY <1>1 DEF Enqueued, HasEvent
<1>6. \A x \in call[w].ids \ (left \cup found) : ~ HasEvent(stream, x, local[w].version)
  BY <1>1, <1>2, <1>5 DEF PlanOK
<1>7. call[w].op = "enqueue"
  BY <1>1, <1>2 DEF PlanOK
<1>8. p \in {"append", "dedupe"} /\ (p = "append" => left = {})
  OBVIOUS
<1> HIDE DEF l, left, found, p
<1>9. PlanOK(stream, p, call[w], l, completed)
  BY <1>4, <1>6, <1>7, <1>8 DEF PlanOK
<1>10. QED
  BY <1>1, <1>3, <1>8, <1>9, GoOnJ

\* The other steps that leave the stream and the observers alone: they leave
\* the call.
LEMMA LeavingJ ==
  ASSUME IInv, JInv, NEW w \in Workers,
         \/ LookupDelivered(w) \/ AppendNothing(w) \/ AppendConflict(w) \/ Crash(w)
  PROVE  JInv'
<1>1. UNCHANGED <<stream, runs, completed>>
  BY DEF LookupDelivered, AppendNothing, AppendConflict, Crash, Unchanging
<1>2. call[w].attempt + 1 \in Nat
  BY DEF IInv, TypeOK, Calls
<1>3. \E p, c : Leaves(w, p, c)
  <2>1. CASE Crash(w)
    BY <2>1, EndCallLeaves DEF Crash
  <2>2. CASE ~ Crash(w)
    <3>1. pc[w] # "handler"
      BY <2>2 DEF LookupDelivered, AppendNothing, AppendConflict
    <3>2. Return(w) \/ Throw(w) \/ StartAttempt(w, Op(w), call[w].attempt + 1)
      BY <2>2 DEF LookupDelivered, AppendNothing, AppendConflict
    <3>3. QED
      BY <1>2, <3>1, <3>2, ReturnLeaves, ThrowLeaves, RetryLeaves DEF Op
  <2>3. QED
    BY <2>1, <2>2
<1>4. QED
  BY <1>1, <1>3, LeaveStep

\* A handler's run is paid for by the claim of its record.
LEMMA HandlerJ ==
  ASSUME IInv, JInv, NEW w \in Workers, HandlerSucceeds(w) \/ HandlerFails(w)
  PROVE  JInv'
<1> DEFINE cur == Current(w)
<1>1. /\ stream' = stream /\ call[w] \in Calls /\ pc[w] = "handler"
      /\ CallOK(pc[w], call[w]) /\ CountRun(w) /\ completed \subseteq completed'
      /\ runs \in [Records -> Nat] /\ stream \in Seq(Events)
  BY DEF HandlerSucceeds, HandlerFails, IInv, TypeOK, WorkersOK
<1>2. call[w].todo # {} /\ cur \in call[w].todo /\ cur \in Records
      /\ cur = FirstOf(call[w].todo)
  BY <1>1, CurrentType DEF CallOK, Current, FirstOf
<1>3. PICK op \in {"deliver", "fail"} :
        /\ StartAttempt(w, op, 1)
        /\ op = "deliver" => <<cur, call[w].claim>> \in completed'
  BY DEF HandlerSucceeds, HandlerFails
<1> DEFINE c == [call[w] EXCEPT !.op = op, !.attempt = 1]
<1>4. c.op = op /\ c.todo = call[w].todo /\ c.claim = call[w].claim
  BY <1>1 DEF Calls
<1>5. MovesTo(w, "checkpoint", c, NoLocals)
  BY <1>3 DEF StartAttempt, Leave, MovesTo
<1> HIDE DEF c, cur
<1>6. /\ pc'[w] = "checkpoint" /\ call'[w] = c
      /\ \A v \in Workers \ {w} : pc'[v] = pc[v] /\ call'[v] = call[v]
  BY <1>5, MovedWorkers
<1>7. /\ Held("checkpoint", c) = Held(pc[w], call[w])
      /\ Unpaid("checkpoint", c) = Unpaid(pc[w], call[w]) \ {cur}
      /\ cur \in Unpaid(pc[w], call[w]) /\ cur \in Held(pc[w], call[w])
  BY <1>1, <1>2, <1>4 DEF Held, Unpaid
<1>8. PlansOK'
  <2>1. PlanOK(stream', "checkpoint", c, NoLocals, completed')
    BY <1>2, <1>3, <1>4, LeftPlan
  <2>2. Extends(stream', stream)
    BY <1>1 DEF Extends
  <2>3. QED
    BY <1>1, <1>5, <2>1, <2>2, OtherPlans
<1>9. ClaimsHeld' /\ ClaimsDisjoint'
  <2>1. \A v \in Workers : Held(pc'[v], call'[v]) = Held(pc[v], call[v])
    BY <1>6, <1>7
  <2>2. \A v \in Workers : call'[v].claim = call[v].claim
    BY <1>4, <1>6
  <2>3. ClaimsHeld'
    BY <1>1, <2>1, <2>2 DEF ClaimsHeld, JInv
  <2>4. ClaimsDisjoint'
    BY <2>1 DEF ClaimsDisjoint, JInv
  <2>5. QED
    BY <2>3, <2>4
<1>10. \A id \in Records : runs'[id] = IF id = cur THEN runs[id] + 1 ELSE runs[id]
  BY <1>1, <1>2 DEF CountRun, cur
<1>11. \A id \in Records : RecordOf(stream, id).attempts \in Nat /\ runs[id] \in Nat
  BY <1>1, RecordOfType DEF RecordStates
<1>12. RunsPaid'
  <2>1. runs[cur] < RecordOf(stream, cur).attempts
    BY <1>7 DEF JInv, RunsLeft
  <2>2. QED
    BY <1>1, <1>2, <1>10, <1>11, <2>1 DEF JInv, RunsPaid
<1>13. RunsLeft'
  <2> SUFFICES ASSUME NEW v \in Workers, NEW id \in Unpaid(pc'[v], call'[v])
               PROVE  runs'[id] < RecordOf(stream, id).attempts
    BY <1>1 DEF RunsLeft
  <2>1. id \in Unpaid(pc[v], call[v]) /\ id # cur /\ id \in Records
    <3>1. CASE v = w
      BY <1>1, <1>6, <1>7, <3>1, HeldType
    <3>2. CASE v # w
      <4>1. id \in Unpaid(pc[v], call[v]) /\ call[v] \in Calls
        BY <1>6, <3>2 DEF IInv, TypeOK
      <4>2. id \in Held(pc[v], call[v]) /\ id \in Records
        BY <4>1, HeldType
      <4>3. id \notin Held(pc[w], call[w])
        BY <3>2, <4>2 DEF JInv, ClaimsDisjoint
      <4>4. QED
        BY <1>7, <4>1, <4>2, <4>3
    <3>3. QED
      BY <3>1, <3>2
  <2>2. runs[id] < RecordOf(stream, id).attempts
    BY <2>1 DEF JInv, RunsLeft
  <2>3. QED
    BY <1>10, <2>1, <2>2
<1>14. Handled'
  BY <1>1 DEF JInv, Handled
<1>15. QED
  BY <1>8, <1>9, <1>12, <1>13, <1>14 DEF JInv

\* What a plan relies on holds of the records when it commits: the working set
\* it read is still the stream's.
LEMMA ReadIsRecord ==
  ASSUME IInv, NEW w \in Workers, pc[w] = "append",
         local[w].version = Len(stream), NEW id \in Records,
         local[w].records[id].status # "absent"
  PROVE  local[w].records[id] = RecordOf(stream, id)
<1>1. stream \in Seq(Events) /\ local[w].records = WorkingSetOf(stream, Len(stream))
  BY DEF IInv, TypeOK, WorkersOK, ReaderOK
<1>2. Len(stream) \in 0..Len(stream)
  BY <1>1
<1>3. local[w].records[id] = WorkingSetFold(Absent, stream, id, 0)[Len(stream)]
  BY <1>1 DEF WorkingSetOf
<1>4. WorkingSetFold(Absent, stream, id, 0)[Len(stream)] # Absent
  BY <1>3 DEF Absent
<1>5. QED
  BY <1>1, <1>2, <1>3, <1>4, WorkingSetIsRecord DEF RecordOf

\* The commit of a plan as a change of the records.
RecordsEnqueued(S) ==
  \A id \in Records :
    IF id \in S
    THEN /\ RecordOf(stream, id) = Absent
         /\ RecordOf(stream', id) = [Absent EXCEPT !.status = "pending"]
    ELSE RecordOf(stream', id) = RecordOf(stream, id)

RecordsClaimed(S, claimId) ==
  \A id \in Records :
    IF id \in S
    THEN /\ RecordOf(stream, id).status \in {"pending", "failed"}
         /\ RecordOf(stream', id) =
              [status |-> "claimed",
               attempts |-> RecordOf(stream, id).attempts + 1,
               claim |-> claimId]
    ELSE RecordOf(stream', id) = RecordOf(stream, id)

RecordEnded(id, claimId, status) ==
  /\ ClaimedBy(RecordOf(stream, id), claimId)
  /\ RecordOf(stream', id) = [RecordOf(stream, id) EXCEPT !.status = status]
  /\ \A x \in Records \ {id} : RecordOf(stream', x) = RecordOf(stream, x)

\* Every commit is the change of records its operation stands for.
LEMMA PlannedEffect ==
  ASSUME IInv, JInv, NEW w \in Workers, pc[w] = "append",
         local[w].version = Len(stream), NEW es \in Planned(w),
         stream' = stream \o es
  PROVE  /\ Op(w) = "enqueue" => \E S \in SUBSET Records : RecordsEnqueued(S)
         /\ Op(w) = "claim" => /\ IdsOf(es) \in SUBSET Records
                               /\ RecordsClaimed(IdsOf(es), call[w].claim)
         /\ Op(w) \in {"deliver", "redeliver"} =>
              RecordEnded(Current(w), call[w].claim, "delivered")
         /\ Op(w) = "fail" => RecordEnded(Current(w), call[w].claim, "failed")
<1>1. /\ stream \in Seq(Events) /\ call[w] \in Calls /\ local[w] \in Locals
      /\ CallOK(pc[w], call[w]) /\ Len(stream) \in Nat
      /\ PlanOK(stream, pc[w], call[w], local[w], completed)
  BY DEF IInv, TypeOK, WorkersOK, JInv, PlansOK
<1>2. \A id \in Records : RecordOf(stream, id) \in RecordStates
  BY <1>1, RecordOfType
<1>3. ASSUME Op(w) = "enqueue" PROVE \E S \in SUBSET Records : RecordsEnqueued(S)
  <2> DEFINE S == call[w].ids \ local[w].found
  <2>1. S \in SUBSET Records /\ es \in EventPerId("Enqueued", S, NoClaim)
    BY <1>1, <1>3 DEF Calls, Planned
  <2>2. \A id \in S : ~ HasEvent(stream, id, Len(stream))
    BY <1>1, <1>3 DEF PlanOK, Op
  <2> HIDE DEF S
  <2>3. \A id \in S : RecordOf(stream, id) = Absent
    BY <1>1, <2>2, NoEventsAbsent DEF HasEvent
  <2>4. /\ \A id \in S : RecordOf(stream', id)
             = Apply("record", RecordOf(stream, id), RecordEvent("Enqueued", id, NoClaim))
        /\ \A id \in Records \ S : RecordOf(stream', id) = RecordOf(stream, id)
    BY <1>1, <2>1, EventPerIdEffect
  <2>5. \A id, r : Apply("record", r, RecordEvent("Enqueued", id, NoClaim))
                     = [Absent EXCEPT !.status = "pending"]
    BY DEF Apply, RecordEvent, Absent
  <2>6. RecordsEnqueued(S)
    BY <2>1, <2>3, <2>4, <2>5 DEF RecordsEnqueued
  <2>7. QED
    BY <2>1, <2>6
<1>4. ASSUME Op(w) = "claim"
      PROVE  IdsOf(es) \in SUBSET Records /\ RecordsClaimed(IdsOf(es), call[w].claim)
  <2>1. PICK due \in SUBSET Records :
          es \in EventPerId("Claimed",
                   Oldest(Claimable(local[w].records, due), ClaimLimit),
                   call[w].claim)
    BY <1>4 DEF Planned
  <2> DEFINE S == Oldest(Claimable(local[w].records, due), ClaimLimit)
  <2>2. /\ S \in SUBSET Records /\ es \in EventPerId("Claimed", S, call[w].claim)
        /\ \A id \in S : local[w].records[id].status \in {"pending", "failed"}
        /\ call[w].claim \in ClaimIds \cup {NoClaim}
    BY <1>1, <2>1 DEF Oldest, Claimable, Calls
  <2> HIDE DEF S
  <2>3. \A id \in S : RecordOf(stream, id).status \in {"pending", "failed"}
    BY <2>2, ReadIsRecord
  <2>4. /\ IdsOf(es) = S
        /\ \A id \in S : RecordOf(stream', id)
             = Apply("record", RecordOf(stream, id),
                     RecordEvent("Claimed", id, call[w].claim))
        /\ \A id \in Records \ S : RecordOf(stream', id) = RecordOf(stream, id)
    BY <1>1, <2>2, EventPerIdEffect
  <2>5. \A id : \A r \in RecordStates : r.status \in {"pending", "failed"} =>
          Apply("record", r, RecordEvent("Claimed", id, call[w].claim))
            = [status |-> "claimed", attempts |-> r.attempts + 1, claim |-> call[w].claim]
    BY DEF Apply, RecordEvent, Absent, RecordStates
  <2>6. RecordsClaimed(S, call[w].claim)
    BY <1>2, <2>2, <2>3, <2>4, <2>5 DEF RecordsClaimed
  <2>7. QED
    BY <2>2, <2>4, <2>6
<1>5. ASSUME Op(w) \in {"deliver", "redeliver", "fail"}
      PROVE  /\ Current(w) \in Records /\ call[w].claim \in ClaimIds
             /\ ClaimedBy(RecordOf(stream, Current(w)), call[w].claim)
  <2>1. call[w].todo # {} /\ call[w].claim \in ClaimIds
    BY <1>1, <1>5 DEF CallOK, Op
  <2>2. Current(w) \in Records
    BY <1>1, <2>1, CurrentType
  <2>3. ClaimedBy(local[w].records[Current(w)], call[w].claim)
    BY <1>1, <1>5 DEF PlanOK, Op, Current, FirstOf
  <2>4. local[w].records[Current(w)] = RecordOf(stream, Current(w))
    BY <2>2, <2>3, ReadIsRecord DEF ClaimedBy
  <2>5. QED
    BY <2>1, <2>2, <2>3, <2>4
<1>6. \A r \in RecordStates : \A id, claimId : ClaimedBy(r, claimId) =>
        /\ Apply("record", r, RecordEvent("Delivered", id, claimId))
             = [r EXCEPT !.status = "delivered"]
        /\ Apply("record", r, RecordEvent("Failed", id, claimId))
             = [r EXCEPT !.status = "failed"]
  <2> SUFFICES ASSUME NEW r \in RecordStates, NEW id, NEW claimId, ClaimedBy(r, claimId)
               PROVE  /\ Apply("record", r, RecordEvent("Delivered", id, claimId))
                           = [r EXCEPT !.status = "delivered"]
                      /\ Apply("record", r, RecordEvent("Failed", id, claimId))
                           = [r EXCEPT !.status = "failed"]
    OBVIOUS
  <2>1. r # Absent /\ r.claim = claimId
    BY DEF ClaimedBy, Absent
  <2>2. /\ Apply("record", r, RecordEvent("Delivered", id, claimId))
             = [r EXCEPT !.status = "delivered", !.claim = claimId]
        /\ Apply("record", r, RecordEvent("Failed", id, claimId))
             = [r EXCEPT !.status = "failed", !.claim = claimId]
    BY <2>1 DEF Apply, RecordEvent
  <2>3. QED
    BY <2>1, <2>2 DEF RecordStates
<1>7. ASSUME Op(w) \in {"deliver", "redeliver"}
      PROVE  RecordEnded(Current(w), call[w].claim, "delivered")
  <2>1. es = TerminalEvents(w)
    BY <1>7 DEF Planned
  <2>2. \A id \in Records : RecordOf(stream', id) =
           IF id = Current(w)
           THEN Apply("record", RecordOf(stream, id),
                      RecordEvent("Delivered", id, call[w].claim))
           ELSE RecordOf(stream, id)
    BY <1>7, <2>1, TerminalEventsEffect
  <2>3. QED
    BY <1>2, <1>5, <1>6, <1>7, <2>2 DEF RecordEnded
<1>8. ASSUME Op(w) = "fail" PROVE RecordEnded(Current(w), call[w].claim, "failed")
  <2> DEFINE e == RecordEvent("Failed", Current(w), call[w].claim)
  <2>1. es = <<e>>
    BY <1>8 DEF Planned
  <2>2. e \in Events /\ e.id = Current(w)
    BY <1>5, <1>8 DEF RecordEvent, Events
  <2> HIDE DEF e
  <2>3. es \in Seq(Events) /\ Len(es) = 1 /\ es[1] = e
    BY <2>1, <2>2
  <2>4. RecordOf(stream', Current(w)) = Apply("record", RecordOf(stream, Current(w)), e)
    <3>1. 1 \in 1..Len(es) /\ es[1].id = Current(w)
          /\ \A i \in 1..Len(es) : i # 1 => es[i].id # Current(w)
      BY <2>2, <2>3
    <3>2. RecordOf(stream \o es, Current(w)) = Apply("record", RecordOf(stream, Current(w)), es[1])
      BY <1>1, <2>3, <3>1, OneAppended
    <3>3. QED
      BY <2>3, <3>2
  <2>5. \A x \in Records \ {Current(w)} : RecordOf(stream', x) = RecordOf(stream, x)
    <3> SUFFICES ASSUME NEW x \in Records \ {Current(w)}
                 PROVE  RecordOf(stream \o es, x) = RecordOf(stream, x)
      OBVIOUS
    <3>1. \A i \in 1..Len(es) : es[i].id # x
      BY <2>2, <2>3
    <3>2. QED
      BY <1>1, <2>3, <3>1, OthersAppended
  <2>6. QED
    BY <1>2, <1>5, <1>6, <1>8, <2>4, <2>5 DEF RecordEnded, e
<1>9. QED
  BY <1>3, <1>4, <1>7, <1>8

\* What a commit of worker w, which then is at p in c, may do to a record.
ClaimedNow(id, claimId) ==
  /\ RecordOf(stream, id).status \in {"pending", "failed"}
  /\ RecordOf(stream', id) =
       [status |-> "claimed", attempts |-> RecordOf(stream, id).attempts + 1,
        claim |-> claimId]

RecordMoves(w, p, c, id) ==
  \/ RecordOf(stream', id) = RecordOf(stream, id)
  \/ /\ RecordOf(stream, id) = Absent
     /\ RecordOf(stream', id) = [Absent EXCEPT !.status = "pending"]
  \/ ClaimedNow(id, call[w].claim)
  \/ /\ ClaimedBy(RecordOf(stream, id), call[w].claim)
     /\ RecordOf(stream', id) = [RecordOf(stream, id) EXCEPT !.status = "delivered"]
     /\ <<id, call[w].claim>> \in completed
  \/ /\ ClaimedBy(RecordOf(stream, id), call[w].claim)
     /\ RecordOf(stream', id) = [RecordOf(stream, id) EXCEPT !.status = "failed"]
     /\ id \in Held(pc[w], call[w]) \ Held(p, c)

\* What it then holds it held before or has just claimed.
HoldsOn(w, p, c, id) ==
  /\ c.claim = call[w].claim
  /\ \/ ClaimedNow(id, call[w].claim)
     \/ /\ id \in Held(pc[w], call[w])
        /\ id \in Unpaid(p, c) => id \in Unpaid(pc[w], call[w])

\* Such a commit keeps the invariant.
LEMMA CommitKeepsJ ==
  ASSUME IInv, JInv, NEW w \in Workers, NEW p, NEW c \in Calls,
         MovesTo(w, p, c, NoLocals), UNCHANGED <<runs, completed>>,
         Extends(stream', stream), PlanOK(stream', p, c, NoLocals, completed),
         \A id \in Records : RecordMoves(w, p, c, id),
         \A id \in Held(p, c) : HoldsOn(w, p, c, id)
  PROVE  JInv'
<1>1. /\ pc'[w] = p /\ call'[w] = c
      /\ \A v \in Workers \ {w} : pc'[v] = pc[v] /\ call'[v] = call[v]
  BY MovedWorkers
<1>2. /\ stream \in Seq(Events) /\ call \in [Workers -> Calls] /\ runs \in [Records -> Nat]
  BY DEF IInv, TypeOK
<1>3. \A id \in Records : RecordOf(stream, id) \in RecordStates
  BY <1>2, RecordOfType
<1>4. \A v \in Workers : /\ Held(pc[v], call[v]) \in SUBSET Records
                         /\ Unpaid(pc[v], call[v]) \subseteq Held(pc[v], call[v])
  BY <1>2, HeldType
<1>5. Held(p, c) \in SUBSET Records /\ Unpaid(p, c) \subseteq Held(p, c)
  BY HeldType
<1>6. PlansOK'
  BY OtherPlans
<1>7. ASSUME NEW v \in Workers, NEW id \in Held(pc[v], call[v])
      PROVE  HeldAt(RecordOf(stream, id), call[v].claim)
  BY <1>7 DEF JInv, ClaimsHeld
<1>8. \A id \in Records : /\ RecordOf(stream', id).attempts >= RecordOf(stream, id).attempts
                          /\ RecordOf(stream, id).attempts \in Nat
                          /\ RecordOf(stream', id).attempts \in Nat
  <2> SUFFICES ASSUME NEW id \in Records
               PROVE  /\ RecordOf(stream', id).attempts >= RecordOf(stream, id).attempts
                      /\ RecordOf(stream, id).attempts \in Nat
                      /\ RecordOf(stream', id).attempts \in Nat
    OBVIOUS
  <2>1. RecordMoves(w, p, c, id) /\ RecordOf(stream, id) \in RecordStates
    BY <1>3
  <2>2. QED
    BY <2>1 DEF RecordMoves, RecordStates, Absent, ClaimedNow
<1>9. ASSUME NEW v \in Workers \ {w}, NEW id \in Held(pc[v], call[v])
      PROVE  HeldAt(RecordOf(stream', id), call[v].claim)
  <2>1. RecordMoves(w, p, c, id) /\ id \notin Held(pc[w], call[w])
    BY <1>4, <1>9 DEF JInv, ClaimsDisjoint
  <2>2. HeldAt(RecordOf(stream, id), call[v].claim)
    BY <1>7, <1>9
  <2>3. RecordOf(stream, id) \in RecordStates
    BY <1>3, <1>4, <1>9
  <2>4. QED
    BY <2>1, <2>2, <2>3 DEF RecordMoves, ClaimedNow, HeldAt, ClaimedBy, RecordStates, Absent
<1>10. ASSUME NEW id \in Held(p, c)
       PROVE  HeldAt(RecordOf(stream', id), c.claim)
  <2>1. HoldsOn(w, p, c, id) /\ id \in Records /\ RecordMoves(w, p, c, id)
        /\ RecordOf(stream, id) \in RecordStates
    BY <1>3, <1>5, <1>10
  <2>2. CASE ClaimedNow(id, call[w].claim)
    BY <2>1, <2>2 DEF HoldsOn, ClaimedNow, HeldAt, ClaimedBy
  <2>3. CASE id \in Held(pc[w], call[w])
    <3>1. HeldAt(RecordOf(stream, id), c.claim)
      BY <1>7, <2>1, <2>3 DEF HoldsOn
    <3>2. id \in Held(p, c) /\ c.claim = call[w].claim
      BY <1>10, <2>1 DEF HoldsOn
    <3>3. QED
      BY <2>1, <3>1, <3>2 DEF RecordMoves, ClaimedNow, HeldAt, ClaimedBy, RecordStates, Absent
  <2>4. QED
    BY <2>1, <2>2, <2>3 DEF HoldsOn
<1>11. ClaimsHeld'
  BY <1>1, <1>9, <1>10 DEF ClaimsHeld
<1>12. \A v \in Workers \ {w} : Held(p, c) \cap Held(pc[v], call[v]) = {}
  <2> SUFFICES ASSUME NEW v \in Workers \ {w}, NEW id \in Held(p, c),
                      id \in Held(pc[v], call[v])
               PROVE  FALSE
    OBVIOUS
  <2>1. HoldsOn(w, p, c, id)
    OBVIOUS
  <2>2. HeldAt(RecordOf(stream, id), call[v].claim)
    BY <1>7
  <2>3. id \notin Held(pc[w], call[w])
    BY DEF JInv, ClaimsDisjoint
  <2>4. QED
    BY <2>1, <2>2, <2>3 DEF HoldsOn, ClaimedNow, HeldAt, ClaimedBy
<1>13. ClaimsDisjoint'
  <2> SUFFICES ASSUME NEW u \in Workers, NEW v \in Workers, u # v
               PROVE  Held(pc'[u], call'[u]) \cap Held(pc'[v], call'[v]) = {}
    BY DEF ClaimsDisjoint
  <2>1. Held(pc[u], call[u]) \cap Held(pc[v], call[v]) = {}
    BY DEF JInv, ClaimsDisjoint
  <2>2. CASE u = w
    BY <1>1, <1>12, <2>2
  <2>3. CASE v = w
    BY <1>1, <1>12, <2>3
  <2>4. CASE u # w /\ v # w
    BY <1>1, <2>1, <2>4
  <2>5. QED
    BY <2>2, <2>3, <2>4
<1>14. RunsPaid'
  <2> SUFFICES ASSUME NEW id \in Records PROVE runs[id] <= RecordOf(stream', id).attempts
    BY DEF RunsPaid
  <2>1. runs[id] <= RecordOf(stream, id).attempts /\ runs[id] \in Nat
    BY <1>2 DEF JInv, RunsPaid
  <2>2. QED
    BY <1>8, <2>1
<1>15. RunsLeft'
  <2> SUFFICES ASSUME NEW v \in Workers, NEW id \in Unpaid(pc'[v], call'[v])
               PROVE  runs[id] < RecordOf(stream', id).attempts
    BY DEF RunsLeft
  <2>1. CASE id \in Unpaid(pc[v], call[v])
    <3>1. runs[id] < RecordOf(stream, id).attempts /\ id \in Records /\ runs[id] \in Nat
      BY <1>2, <1>4, <2>1 DEF JInv, RunsLeft
    <3>2. QED
      BY <1>8, <3>1
  <2>2. CASE id \notin Unpaid(pc[v], call[v])
    <3>1. v = w /\ id \in Held(p, c) /\ id \in Records
      BY <1>1, <1>5, <2>2
    <3>2. ClaimedNow(id, call[w].claim)
      BY <1>1, <2>2, <3>1 DEF HoldsOn
    <3>3. runs[id] <= RecordOf(stream, id).attempts /\ runs[id] \in Nat
      BY <1>2, <3>1 DEF JInv, RunsPaid
    <3>4. RecordOf(stream', id).attempts = RecordOf(stream, id).attempts + 1
      BY <3>2 DEF ClaimedNow
    <3>5. QED
      BY <1>8, <3>1, <3>3, <3>4
  <2>3. QED
    BY <2>1, <2>2
<1>16. Handled'
  <2> SUFFICES ASSUME NEW id \in Records, RecordOf(stream', id).status = "delivered"
               PROVE  <<id, RecordOf(stream', id).claim>> \in completed
    BY DEF Handled
  <2>1. RecordMoves(w, p, c, id) /\ RecordOf(stream, id) \in RecordStates
    BY <1>3
  <2>2. CASE RecordOf(stream', id) = RecordOf(stream, id)
    BY <2>2 DEF JInv, Handled
  <2>3. CASE RecordOf(stream', id) # RecordOf(stream, id)
    <3>1. /\ ClaimedBy(RecordOf(stream, id), call[w].claim)
          /\ RecordOf(stream', id) = [RecordOf(stream, id) EXCEPT !.status = "delivered"]
          /\ <<id, call[w].claim>> \in completed
      BY <2>1, <2>3 DEF RecordMoves, ClaimedNow, RecordStates, Absent
    <3>2. RecordOf(stream', id).claim = call[w].claim
      BY <2>1, <3>1 DEF ClaimedBy, RecordStates
    <3>3. QED
      BY <3>1, <3>2
  <2>4. QED
    BY <2>2, <2>3
<1>17. QED
  BY <1>6, <1>11, <1>13, <1>14, <1>15, <1>16 DEF JInv

\* A plan commits, and the worker goes on or does not learn of it.
LEMMA AppendJ ==
  ASSUME IInv, JInv, NEW w \in Workers, AppendCommit(w) \/ AppendError(w)
  PROVE  JInv'
<1>1. /\ stream \in Seq(Events) /\ call[w] \in Calls /\ pc[w] = "append"
      /\ CallOK(pc[w], call[w]) /\ UNCHANGED <<runs, completed>>
      /\ PlanOK(stream, pc[w], call[w], local[w], completed)
  BY DEF IInv, TypeOK, WorkersOK, AppendCommit, AppendError, JInv, PlansOK
<1>2. CASE stream' = stream /\ Throw(w)
  BY <1>1, <1>2, ThrowLeaves, LeaveStep
<1>3. ASSUME NEW es \in Planned(w), local[w].version = Len(stream),
             stream' = stream \o es,
             \/ AppendError(w) /\ Throw(w)
             \/ Op(w) = "claim" /\ NextRecord(w, IdsOf(es))
             \/ Op(w) # "claim" /\ Return(w)
      PROVE  JInv'
  <2>1. Extends(stream', stream)
    BY <1>1, <1>3, PlannedGood, AppendExtends DEF GoodAppend
  <2>2. Op(w) \in {"enqueue", "claim", "deliver", "redeliver", "fail"}
    BY <1>1 DEF CallOK, Calls, Op
  <2>3. ASSUME NEW p, NEW c, Leaves(w, p, c),
               Op(w) = "fail" => Held(p, c) \subseteq call[w].todo \ {Current(w)}
        PROVE  JInv'
    <3>1. /\ c \in Calls /\ MovesTo(w, p, c, NoLocals) /\ Releases(w, p, c)
          /\ p \in {"idle", "checkpoint", "handler"}
      BY <2>3 DEF Leaves
    <3>2. PlanOK(stream', p, c, NoLocals, completed)
      <4>1. c.op \in {"deliver", "redeliver"} => <<FirstOf(c.todo), c.claim>> \in completed
        BY <1>1, <2>3 DEF PlanOK, Leaves
      <4>2. QED
        BY <3>1, <4>1, LeftPlan
    <3>3. \A id \in Held(p, c) : HoldsOn(w, p, c, id)
      BY <3>1 DEF Releases, HoldsOn
    <3>4. ASSUME NEW id \in Records PROVE RecordMoves(w, p, c, id)
      <4>1. CASE Op(w) = "enqueue"
        <5>1. \E S \in SUBSET Records : RecordsEnqueued(S)
          BY <1>1, <1>3, <4>1, PlannedEffect
        <5>2. QED
          BY <5>1 DEF RecordsEnqueued, RecordMoves
      <4>2. CASE Op(w) = "claim"
        <5>1. RecordsClaimed(IdsOf(es), call[w].claim)
          BY <1>1, <1>3, <4>2, PlannedEffect
        <5>2. QED
          BY <5>1 DEF RecordsClaimed, RecordMoves, ClaimedNow
      <4>3. CASE Op(w) \in {"deliver", "redeliver"}
        <5>1. RecordEnded(Current(w), call[w].claim, "delivered")
          BY <1>1, <1>3, <4>3, PlannedEffect
        <5>2. <<Current(w), call[w].claim>> \in completed
          BY <1>1, <4>3 DEF PlanOK, Current, FirstOf, Op
        <5>3. QED
          BY <5>1, <5>2 DEF RecordEnded, RecordMoves
      <4>4. CASE Op(w) = "fail"
        <5>1. RecordEnded(Current(w), call[w].claim, "failed")
          BY <1>1, <1>3, <4>4, PlannedEffect
        <5>2. call[w].todo # {}
          BY <1>1, <4>4 DEF CallOK, Op
        <5>3. Current(w) \in Held(pc[w], call[w]) \ Held(p, c)
          BY <1>1, <2>3, <4>4, <5>2, CurrentType DEF Held, Op
        <5>4. QED
          BY <5>1, <5>3 DEF RecordEnded, RecordMoves
      <4>5. QED
        BY <2>2, <4>1, <4>2, <4>3, <4>4
    <3>5. QED
      BY <1>1, <2>1, <3>1, <3>2, <3>3, <3>4, CommitKeepsJ
  <2>4. CASE Throw(w)
    <3>1. CASE Op(w) = "fail"
      <4>1. Leaves(w, "idle", NoCall) /\ Held("idle", NoCall) = {}
        BY <2>4, <3>1, EndCallLeaves DEF Throw, Held, NoCall
      <4>2. QED
        BY <2>3, <4>1
    <3>2. CASE Op(w) # "fail"
      BY <1>1, <2>3, <2>4, <3>2, ThrowLeaves
    <3>3. QED
      BY <3>1, <3>2
  <2>5. CASE Op(w) # "claim" /\ Return(w)
    BY <1>1, <2>3, <2>5, ReturnLeaves
  <2>6. CASE Op(w) = "claim" /\ NextRecord(w, IdsOf(es))
    <3>1. IdsOf(es) \in SUBSET Records /\ RecordsClaimed(IdsOf(es), call[w].claim)
      BY <1>1, <1>3, <2>6, PlannedEffect
    <3>2. CASE IdsOf(es) = {}
      <4>1. Leaves(w, "idle", NoCall)
        BY <2>6, <3>2, EndCallLeaves DEF NextRecord
      <4>2. QED
        BY <2>3, <2>6, <4>1
    <3>3. CASE IdsOf(es) # {}
      <4> DEFINE c == [NoCall EXCEPT !.claim = call[w].claim, !.todo = IdsOf(es)]
      <4>1. c \in Calls /\ c.op = "none" /\ c.todo = IdsOf(es) /\ c.claim = call[w].claim
        BY <1>1, <3>1 DEF Calls, NoCall
      <4>2. MovesTo(w, "handler", c, NoLocals)
        BY <2>6, <3>3 DEF NextRecord, Leave, MovesTo
      <4> HIDE DEF c
      <4>3. Held("handler", c) = IdsOf(es)
        BY <4>1 DEF Held
      <4>4. \A id \in Held("handler", c) : HoldsOn(w, "handler", c, id)
        BY <3>1, <4>1, <4>3 DEF RecordsClaimed, HoldsOn, ClaimedNow
      <4>5. \A id \in Records : RecordMoves(w, "handler", c, id)
        BY <3>1 DEF RecordsClaimed, RecordMoves, ClaimedNow
      <4>6. PlanOK(stream', "handler", c, NoLocals, completed)
        BY <4>1, LeftPlan
      <4>7. QED
        BY <1>1, <2>1, <4>1, <4>2, <4>4, <4>5, <4>6, CommitKeepsJ
    <3>4. QED
      BY <3>2, <3>3
  <2>7. QED
    BY <1>3, <2>4, <2>5, <2>6
<1>4. CASE AppendCommit(w)
  <2>1. PICK es \in Planned(w) :
             /\ stream' = stream \o es
             /\ IF Op(w) = "claim" THEN NextRecord(w, IdsOf(es)) ELSE Return(w)
    BY <1>4 DEF AppendCommit
  <2>2. local[w].version = Len(stream)
    BY <1>4 DEF AppendCommit
  <2>3. QED
    BY <1>3, <2>1, <2>2
<1>5. CASE AppendError(w)
  <2>1. PICK es \in Planned(w) :
             \/ stream' = stream
             \/ local[w].version = Len(stream) /\ stream' = stream \o es
    BY <1>5 DEF AppendError
  <2>2. Throw(w)
    BY <1>5 DEF AppendError
  <2>3. QED
    BY <1>2, <1>3, <1>5, <2>1, <2>2
<1>6. QED
  BY <1>4, <1>5

(* Nothing is held in the beginning. *)
LEMMA InitJInv == Init => JInv
<1> SUFFICES ASSUME Init PROVE JInv
  OBVIOUS
<1>1. stream = <<>> /\ stream \in Seq(Events) /\ Len(stream) = 0
  BY DEF Init
<1>2. \A id \in Records : RecordOf(stream, id) = Absent
  <2>1. \A id : \A i \in 1..Len(stream) : stream[i].id # id
    BY <1>1
  <2>2. QED
    BY <1>1, <2>1, NoEventsAbsent
<1>3. \A w \in Workers : pc[w] = "idle" /\ call[w] = NoCall /\ local[w] = NoLocals
  BY DEF Init
<1>4. NoCall.op = "none" /\ Held("idle", NoCall) = {} /\ Unpaid("idle", NoCall) = {}
  BY DEF NoCall, Held, Unpaid
<1>5. PlansOK
  BY <1>3, <1>4, LeftPlan DEF PlansOK
<1>6. ClaimsHeld /\ ClaimsDisjoint /\ RunsLeft
  BY <1>3, <1>4 DEF ClaimsHeld, ClaimsDisjoint, RunsLeft
<1>7. RunsPaid /\ Handled
  BY <1>2 DEF RunsPaid, Handled, Init, Absent
<1>8. QED
  BY <1>5, <1>6, <1>7 DEF JInv

(* Every step keeps the invariant. *)
LEMMA NextJInv == IInv /\ JInv /\ [Next]_vars => JInv'
<1> SUFFICES ASSUME IInv, JInv, [Next]_vars PROVE JInv'
  OBVIOUS
<1>1. CASE UNCHANGED vars
  BY <1>1 DEF vars, JInv, PlansOK, ClaimsHeld, ClaimsDisjoint, RunsPaid, RunsLeft, Handled
<1>2. CASE Next
  <2>1. PICK w \in Workers : Start(w) \/ Step(w) \/ Fault(w)
    BY <1>2 DEF Next
  <2>2. CASE Start(w)
    BY <2>2, StartJ
  <2>3. CASE Step(w)
    BY <2>3, ReadsJ, ReadTailJ, ReadDuplicateJ, LeavingJ, AppendJ, HandlerJ DEF Step
  <2>4. CASE Fault(w)
    BY <2>4, AppendJ, LeavingJ DEF Fault
  <2>5. QED
    BY <2>1, <2>2, <2>3, <2>4
<1>3. QED
  BY <1>1, <1>2

(* The invariant holds throughout. *)
LEMMA JInvHolds == Spec => []JInv
BY InitJInv, NextJInv, IInvHolds, PTL DEF Spec

\* claimPending excludes: whatever crashes, conflicts and lost replies happen,
\* a drain holds the claim of every record it still has to finish, unless the
\* delivery has been recorded, and no two drains hold the same record.
THEOREM ClaimsAreExclusive == Spec => []SoleClaimant
<1>1. IInv /\ JInv => SoleClaimant
  <2> SUFFICES ASSUME IInv, JInv, NEW w \in Workers, Draining(w), NEW id \in call[w].todo
               PROVE  /\ \/ ClaimedBy(Record(id), call[w].claim)
                         \/ Record(id).status = "delivered"
                      /\ \A other \in Workers \ {w} :
                           Draining(other) => id \notin call[other].todo
    BY DEF SoleClaimant
  <2>1. \A v \in Workers : Draining(v) => Held(pc[v], call[v]) = call[v].todo
    BY DEF Draining, Held, Op
  <2>2. HeldAt(RecordOf(stream, id), call[w].claim)
    BY <2>1 DEF JInv, ClaimsHeld
  <2>3. \A other \in Workers \ {w} : Draining(other) => id \notin call[other].todo
    BY <2>1 DEF JInv, ClaimsDisjoint
  <2>4. QED
    BY <2>2, <2>3 DEF HeldAt, Record, RecordOf
<1>2. QED
  BY <1>1, IInvHolds, JInvHolds, PTL

\* A handler never runs without a claim of its own: the attempts that record()
\* shows bound the runs of the handler, duplicates included.
THEOREM HandlerRunsArePaidFor == Spec => []RunsArePaidFor
<1>1. JInv => RunsArePaidFor
  BY DEF JInv, RunsPaid, RunsArePaidFor, Record, RecordOf
<1>2. QED
  BY <1>1, JInvHolds, PTL

\* markDelivered never lies: a record is delivered only under a claim whose
\* handler has returned.
THEOREM DeliveriesWereHandled == Spec => []DeliveredWasHandled
<1>1. JInv => DeliveredWasHandled
  BY DEF JInv, Handled, DeliveredWasHandled, Record, RecordOf
<1>2. QED
  BY <1>1, JInvHolds, PTL

\* A step of the stream is a step of the records' life cycle, or none.
LEMMA LifecycleStep ==
  ASSUME IInv, JInv, [Next]_vars
  PROVE  [Lifecycle!Next]_([id \in Records |-> Record(id)])
<1> DEFINE R == [id \in Records |-> RecordOf(stream, id)]
           R2 == [id \in Records |-> RecordOf(stream', id)]
<1>1. /\ [id \in Records |-> Record(id)] = R
      /\ [id \in Records |-> Record(id)]' = R2
  BY DEF Record, RecordOf
<1>2. CASE stream' = stream
  BY <1>1, <1>2
<1>3. CASE stream' # stream
  <2>1. PICK w \in Workers : AppendCommit(w) \/ AppendError(w)
    BY <1>3 DEF Next, vars, Start, Step, Fault, StartEnqueue, StartDrain, StartRedelivery,
                Call, ReadCheckpoint, ReadHistory, ReadTail, ReadDuplicate, LookupDelivered,
                AppendNothing, AppendConflict, HandlerSucceeds, HandlerFails, Crash, Unchanging
  <2>2. PICK es \in Planned(w) :
          pc[w] = "append" /\ local[w].version = Len(stream) /\ stream' = stream \o es
    BY <1>3, <2>1 DEF AppendCommit, AppendError
  <2>3. /\ call[w] \in Calls /\ CallOK(pc[w], call[w]) /\ stream \in Seq(Events)
    BY DEF IInv, TypeOK, WorkersOK
  <2>4. \A id \in Records : R[id] = RecordOf(stream, id) /\ R2[id] = RecordOf(stream', id)
        /\ R[id] \in RecordStates
    BY <2>3, RecordOfType
  <2>5. Absent = Lifecycle!Absent
    BY DEF Absent, Lifecycle!Absent
  <2>6. CASE Op(w) = "enqueue"
    <3>1. PICK S \in SUBSET Records : RecordsEnqueued(S)
      BY <2>2, <2>6, PlannedEffect
    <3>2. Lifecycle!Enqueue(S)
      <4>1. \A id \in S : R[id] = Absent
        BY <3>1 DEF RecordsEnqueued
      <4>2. R2 = [id \in Records |-> IF id \in S THEN [Absent EXCEPT !.status = "pending"]
                                     ELSE R[id]]
        BY <3>1 DEF RecordsEnqueued
      <4> HIDE DEF R, R2
      <4>3. QED
        BY <1>1, <2>5, <4>1, <4>2 DEF Lifecycle!Enqueue
    <3>3. QED
      BY <3>2 DEF Lifecycle!Next
  <2>7. CASE Op(w) = "claim"
    <3>1. /\ IdsOf(es) \in SUBSET Records /\ RecordsClaimed(IdsOf(es), call[w].claim)
          /\ call[w].claim \in ClaimIds
      BY <2>2, <2>3, <2>7, PlannedEffect DEF CallOK, Op
    <3> DEFINE S == IdsOf(es)
    <3>2. Lifecycle!Claim(S, call[w].claim)
      <4>1. \A id \in S : R[id].status \in {"pending", "failed"}
        BY <3>1 DEF RecordsClaimed
      <4>2. R2 = [id \in Records |->
                    IF id \in S THEN [status |-> "claimed", attempts |-> R[id].attempts + 1,
                                      claim |-> call[w].claim]
                    ELSE R[id]]
        BY <3>1 DEF RecordsClaimed
      <4> HIDE DEF R, R2, S
      <4>3. QED
        BY <1>1, <4>1, <4>2 DEF Lifecycle!Claim
    <3>3. QED
      BY <3>1, <3>2 DEF Lifecycle!Next
  <2>8. ASSUME NEW status \in {"delivered", "failed"},
               RecordEnded(Current(w), call[w].claim, status), Current(w) \in Records
        PROVE  Lifecycle!Next
    <3>1. R[Current(w)].status = "claimed"
      BY <2>8 DEF RecordEnded, ClaimedBy
    <3>2. R2 = [R EXCEPT ![Current(w)].status = status]
      BY <2>8 DEF RecordEnded
    <3> HIDE DEF R, R2
    <3>3. Lifecycle!Complete(Current(w), status)
      BY <1>1, <3>1, <3>2 DEF Lifecycle!Complete
    <3>4. QED
      BY <2>8, <3>3 DEF Lifecycle!Next
  <2>9. CASE Op(w) \in {"deliver", "redeliver", "fail"}
    <3>1. call[w].todo # {}
      BY <2>3, <2>9 DEF CallOK, Op
    <3>2. Current(w) \in Records
      BY <2>3, <3>1, CurrentType
    <3>3. \/ RecordEnded(Current(w), call[w].claim, "delivered")
          \/ RecordEnded(Current(w), call[w].claim, "failed")
      BY <2>2, <2>9, PlannedEffect
    <3>4. QED
      BY <2>8, <3>2, <3>3
  <2>10. Op(w) \in {"enqueue", "claim", "deliver", "redeliver", "fail"}
    BY <2>2, <2>3 DEF CallOK, Calls, Op
  <2>11. QED
    BY <2>6, <2>7, <2>9, <2>10
<1>4. QED
  BY <1>2, <1>3

\* The outbox implements the life cycle of deliveries: whatever is compacted,
\* crashes or is retried, each record is enqueued once, claimed only when it is
\* pending or failed, ended by the claim that holds it, and delivered for good.
THEOREM ImplementsLifecycle == Spec => LifecycleSpec
<1>1. Init => Lifecycle!Init
  <2> SUFFICES ASSUME Init PROVE Lifecycle!Init
    OBVIOUS
  <2>1. stream \in Seq(Events) /\ Len(stream) = 0
    BY DEF Init
  <2>2. \A id \in Records : Record(id) = Absent
    <3>1. \A id : \A i \in 1..Len(stream) : stream[i].id # id
      BY <2>1
    <3>2. QED
      BY <2>1, <3>1, NoEventsAbsent DEF Record, RecordOf
  <2>3. QED
    BY <2>2 DEF Lifecycle!Init, Absent, Lifecycle!Absent
<1>2. IInv /\ JInv /\ [Next]_vars => [Lifecycle!Next]_([id \in Records |-> Record(id)])
  BY LifecycleStep
<1>3. QED
  BY <1>1, <1>2, IInvHolds, JInvHolds, PTL DEF Spec, LifecycleSpec, Lifecycle!Spec

=============================================================================
