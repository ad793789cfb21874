-------------------------- MODULE ProjectionRebuild --------------------------
(***************************************************************************)
(* The shadow rebuild of a doctype's projection (src/application/          *)
(* projection-rebuild-service.ts) behind the router that keeps several     *)
(* projections side by side (projection-targets.ts).                       *)
(*                                                                         *)
(* Commits write the events and the base table in one batch and then, still*)
(* under the router's write barrier, the targets that follow.  Drivers     *)
(* advance the rebuild outside of the barrier, a batch of streams at a     *)
(* time.  A promotion takes the barrier, writes every stream's state once  *)
(* more, removes what has no stream, compares and swaps.                   *)
(*                                                                         *)
(* A document is a number, in the order of the stream names; the state its *)
(* stream folds to, and a row of a table, is the version it is at, and 0   *)
(* is no stream or no row.                                                 *)
(***************************************************************************)
EXTENDS Naturals, FiniteSets

CONSTANTS
    DocumentBound,  \* the documents are 1..DocumentBound
    Drivers,        \* calls that advance or abort the run at the same time
    BatchSize,      \* streams per advance
    CommitBound,    \* commits in all
    CallBound,      \* calls of advance, abort and promote in all
    FaultBound      \* writes and commits that fail, callers that die and restarts, in all

VARIABLES
    stream,     \* the version of each document's stream
    table,      \* the rows of each target
    state,      \* the router's state of each target
    barrier,    \* who holds the write barrier
    failed,     \* follower writes kept for a retry
    following,  \* the document whose commit still has to be followed
    run,        \* the rebuild, as its stream folds
    driver,     \* calls of advance and abort
    promoter,   \* the call of promote
    counts,     \* commits, calls and faults so far
    raced,      \* history: an advance wrote the target during or after its promotion
    unfollowed  \* history: documents with a commit that the target neither got nor owes

vars == <<stream, table, state, barrier, failed, following, run, driver, promoter, counts, raced,
          unfollowed>>

Docs == 1..DocumentBound

\* The table of the DocumentStore itself, and the one that is built.
Targets == {"base", "shadow"}

TargetStates == {"building", "active", "retired"}

NoRun == [status |-> "none", cursor |-> 0, errors |-> {}, version |-> 0]

IdleDriver == [pc |-> "idle", seen |-> NoRun, batch |-> {}, last |-> FALSE,
               cursor |-> 0, errors |-> {}, read |-> 0]

IdlePromoter == [pc |-> "idle", todo |-> {}, same |-> FALSE]

listStreams == {d \in Docs : stream[d] # 0}

Least(S) == CHOOSE d \in S : \A e \in S : d <= e

Count(what) == counts' = [counts EXCEPT ![what] = @ + 1]

Fault == counts.faults < FaultBound /\ Count("faults")

\* The target that reads are answered from.
activeTarget == CHOOSE t \in Targets : state[t] = "active"

-----------------------------------------------------------------------------
\* Commits through withProjectionFollowers.

\* Mutant: commits do not wait for a promotion.
CommitUnlocked ==
    \E d \in Docs :
    /\ barrier # "commit" /\ following = 0
    /\ counts.commits < CommitBound
    /\ Count("commits")
    /\ barrier' = "commit"
    /\ stream' = [stream EXCEPT ![d] = @ + 1]
    /\ table' = [table EXCEPT !["base"][d] = stream[d] + 1]
    /\ following' = d
    /\ UNCHANGED <<state, failed, run, driver, promoter, raced, unfollowed>>

\* store.commit: the events and the base table in one batch.
Commit ==
    \E d \in Docs :
    /\ barrier = "free"
    /\ counts.commits < CommitBound
    /\ Count("commits")
    /\ barrier' = "commit"
    /\ stream' = [stream EXCEPT ![d] = @ + 1]
    /\ table' = [table EXCEPT !["base"][d] = stream[d] + 1]
    /\ following' = d
    /\ UNCHANGED <<state, failed, run, driver, promoter, raced, unfollowed>>

\* D1 takes the batch and its answer is lost: the commit throws, the barrier is
\* released, and the follower write is neither made nor kept.
CommitThrows ==
    \E d \in Docs :
    /\ barrier = "free"
    /\ counts.commits < CommitBound /\ counts.faults < FaultBound
    /\ counts' = [counts EXCEPT !.commits = @ + 1, !.faults = @ + 1]
    /\ stream' = [stream EXCEPT ![d] = @ + 1]
    /\ table' = [table EXCEPT !["base"][d] = stream[d] + 1]
    /\ unfollowed' = unfollowed \cup {d}
    /\ UNCHANGED <<state, barrier, failed, following, run, driver, promoter, raced>>

Follows == state["shadow"] \notin {"active", "retired"}

\* Mutant: a follower that is still being built is not written.
SaveFollowersCaughtUpOnly ==
    /\ following # 0
    /\ following' = 0
    /\ barrier' = "free"
    /\ UNCHANGED <<stream, table, state, failed, run, driver, promoter, counts, raced, unfollowed>>

\* saveFollowersUnlocked, and the end of the barrier.
SaveFollowers ==
    /\ following # 0
    /\ following' = 0
    /\ barrier' = "free"
    /\ IF Follows
       THEN /\ table' = [table EXCEPT !["shadow"][following] = stream[following]]
            /\ failed' = [failed EXCEPT ![following] = 0]
            /\ unfollowed' = unfollowed \ {following}
       ELSE /\ unfollowed' = unfollowed \cup {following}
            /\ UNCHANGED <<table, failed>>
    /\ UNCHANGED <<stream, state, run, driver, promoter, counts, raced>>

\* The write fails, and is kept to be tried again.
SaveFollowersFails ==
    /\ following # 0
    /\ Follows
    /\ Fault
    /\ following' = 0
    /\ barrier' = "free"
    /\ failed' = [failed EXCEPT ![following] = stream[following]]
    /\ unfollowed' = unfollowed \ {following}
    /\ UNCHANGED <<stream, table, state, run, driver, promoter, raced>>

\* Every kept write that succeeds is forgotten.
Retried == [table EXCEPT !["shadow"] = [d \in Docs |-> IF failed[d] # 0 THEN failed[d] ELSE @[d]]]

retryFailedFollowers ==
    /\ barrier = "free"
    /\ \E d \in Docs : failed[d] # 0
    /\ table' = Retried
    /\ failed' = [d \in Docs |-> 0]
    /\ UNCHANGED <<stream, state, barrier, following, run, driver, promoter, counts,
                   raced, unfollowed>>

-----------------------------------------------------------------------------
\* The run.

\* assertRebuildableTarget: the target does not serve reads.
assertRebuildableTarget == activeTarget # "shadow"

Start ==
    /\ run.status = "none"
    /\ assertRebuildableTarget
    /\ run' = [NoRun EXCEPT !.status = "running", !.version = 1]
    /\ UNCHANGED <<stream, table, state, barrier, failed, following, driver, promoter, counts,
                   raced, unfollowed>>

Call == counts.calls < CallBound /\ Count("calls")

EndDrive(w) == driver' = [driver EXCEPT ![w] = IdleDriver]

\* requireState, and the check of the target.
StartAdvance(w) ==
    /\ driver[w].pc = "idle"
    /\ run.status = "running"
    /\ assertRebuildableTarget
    /\ Call
    /\ driver' = [driver EXCEPT ![w] = [IdleDriver EXCEPT !.pc = "list", !.seen = run]]
    /\ UNCHANGED <<stream, table, state, barrier, failed, following, run, promoter,
                   raced, unfollowed>>

\* Streams are taken in the order of their names, after the cursor.
pending(w) == {d \in listStreams : d > driver[w].seen.cursor}

FirstOf(S) == {d \in S : Cardinality({e \in S : e < d}) < BatchSize}

ListStreams(w) ==
    /\ driver[w].pc = "list"
    /\ driver' = [driver EXCEPT ![w].pc = IF pending(w) = {} THEN "complete" ELSE "read",
                                ![w].batch = FirstOf(pending(w)),
                                ![w].last = Cardinality(pending(w)) <= BatchSize]
    /\ UNCHANGED <<stream, table, state, barrier, failed, following, run, promoter, counts,
                   raced, unfollowed>>

ReadStream(w) ==
    /\ driver[w].pc = "read"
    /\ driver[w].batch # {}
    /\ driver' = [driver EXCEPT ![w].pc = "save",
                                ![w].read = stream[Least(driver[w].batch)]]
    /\ UNCHANGED <<stream, table, state, barrier, failed, following, run, promoter, counts,
                   raced, unfollowed>>

\* The cursor moves past a stream whether it was written or not.
Passed(w, errors) ==
    LET d == Least(driver[w].batch)
    IN  [driver[w] EXCEPT !.pc = IF driver[w].batch = {d} THEN "advance" ELSE "read",
                          !.batch = @ \ {d}, !.cursor = d, !.errors = @ \cup errors]

SaveRow(w) ==
    /\ driver[w].pc = "save"
    /\ LET d == Least(driver[w].batch)
       IN  table' = [table EXCEPT !["shadow"][d] = driver[w].read]
    /\ driver' = [driver EXCEPT ![w] = Passed(w, {})]
    /\ raced' = (raced \/ promoter.pc \notin {"idle", "enter"} \/ state["shadow"] = "active")
    /\ UNCHANGED <<stream, state, barrier, failed, following, run, promoter, counts, unfollowed>>

\* The stream cannot be read, or its row cannot be written.
RebuildError(w) ==
    /\ driver[w].pc \in {"read", "save"}
    /\ Fault
    /\ driver' = [driver EXCEPT ![w] = Passed(w, {Least(driver[w].batch)})]
    /\ UNCHANGED <<stream, table, state, barrier, failed, following, run, promoter,
                   raced, unfollowed>>

\* An append expects the version that the call has read.
Appends(w) == run.version = driver[w].seen.version

\* ProjectionRebuildAdvanced; after the last batch the run is completed as well,
\* at the version that the run is re-read at.
AppendAdvanced(w) ==
    /\ driver[w].pc = "advance"
    /\ Appends(w)
    /\ run' = [run EXCEPT !.cursor = driver[w].cursor, !.version = @ + 1,
                          !.errors = @ \cup driver[w].errors]
    /\ driver' = [driver EXCEPT ![w] =
                    IF driver[w].last
                    THEN [IdleDriver EXCEPT !.pc = "reread"]
                    ELSE IdleDriver]
    /\ UNCHANGED <<stream, table, state, barrier, failed, following, promoter, counts,
                   raced, unfollowed>>

RereadRun(w) ==
    /\ driver[w].pc = "reread"
    /\ driver' = [driver EXCEPT ![w].pc = "complete", ![w].seen = run]
    /\ UNCHANGED <<stream, table, state, barrier, failed, following, run, promoter, counts,
                   raced, unfollowed>>

AppendCompleted(w) ==
    /\ driver[w].pc = "complete"
    /\ Appends(w)
    /\ run' = [run EXCEPT !.status = "completed", !.version = @ + 1]
    /\ EndDrive(w)
    /\ UNCHANGED <<stream, table, state, barrier, failed, following, promoter, counts,
                   raced, unfollowed>>

StartAbort(w) ==
    /\ driver[w].pc = "idle"
    /\ run.status = "running"
    /\ Call
    /\ driver' = [driver EXCEPT ![w] = [IdleDriver EXCEPT !.pc = "abort", !.seen = run]]
    /\ UNCHANGED <<stream, table, state, barrier, failed, following, run, promoter,
                   raced, unfollowed>>

AppendAborted(w) ==
    /\ driver[w].pc = "abort"
    /\ Appends(w)
    /\ run' = [run EXCEPT !.status = "aborted", !.version = @ + 1]
    /\ EndDrive(w)
    /\ UNCHANGED <<stream, table, state, barrier, failed, following, promoter, counts,
                   raced, unfollowed>>

\* Another call has recorded something first.
AppendConflict(w) ==
    /\ driver[w].pc \in {"advance", "complete", "abort"}
    /\ ~Appends(w)
    /\ EndDrive(w)
    /\ UNCHANGED <<stream, table, state, barrier, failed, following, run, promoter, counts,
                   raced, unfollowed>>

DriverDies(w) ==
    /\ driver[w].pc # "idle"
    /\ Fault
    /\ EndDrive(w)
    /\ UNCHANGED <<stream, table, state, barrier, failed, following, run, promoter,
                   raced, unfollowed>>

-----------------------------------------------------------------------------
\* Promotion.

StartPromote ==
    /\ promoter.pc = "idle"
    /\ run.status = "completed"
    /\ assertRebuildableTarget
    /\ Call
    /\ promoter' = [IdlePromoter EXCEPT !.pc = "enter"]
    /\ UNCHANGED <<stream, table, state, barrier, failed, following, run, driver,
                   raced, unfollowed>>

\* withWriteBarrier, and the kept follower writes first.
EnterBarrier ==
    /\ promoter.pc = "enter"
    /\ barrier = "free"
    /\ barrier' = "promote"
    /\ table' = Retried
    /\ failed' = [d \in Docs |-> 0]
    /\ promoter' = [promoter EXCEPT !.pc = "reconcile", !.todo = listStreams]
    /\ UNCHANGED <<stream, state, following, run, driver, counts, raced, unfollowed>>

\* The kept writes fail once more.
EnterBarrierRetryFails ==
    /\ promoter.pc = "enter"
    /\ barrier = "free"
    /\ \E d \in Docs : failed[d] # 0
    /\ Fault
    /\ barrier' = "promote"
    /\ promoter' = [promoter EXCEPT !.pc = "reconcile", !.todo = listStreams]
    /\ UNCHANGED <<stream, table, state, failed, following, run, driver, raced, unfollowed>>

\* The streams cannot move, so reading and writing one is a single step.
Reconcile ==
    /\ promoter.pc = "reconcile"
    /\ promoter.todo # {}
    /\ LET d == Least(promoter.todo)
       IN  /\ table' = [table EXCEPT !["shadow"][d] = stream[d]]
           /\ promoter' = [promoter EXCEPT !.todo = @ \ {d}]
    /\ UNCHANGED <<stream, state, barrier, failed, following, run, driver, counts,
                   raced, unfollowed>>

\* Rows whose document has no stream go.
RemoveStaleRows ==
    /\ promoter.pc = "reconcile"
    /\ promoter.todo = {}
    /\ table' = [table EXCEPT !["shadow"] = [d \in Docs |-> IF d \in listStreams THEN @[d] ELSE 0]]
    /\ promoter' = [promoter EXCEPT !.pc = "compare"]
    /\ UNCHANGED <<stream, state, barrier, failed, following, run, driver, counts,
                   raced, unfollowed>>

Compare ==
    /\ promoter.pc = "compare"
    /\ promoter' = [promoter EXCEPT !.pc = "decide",
                                    !.same = (table["shadow"] = table[activeTarget])]
    /\ UNCHANGED <<stream, table, state, barrier, failed, following, run, driver, counts,
                   raced, unfollowed>>

LeaveBarrier ==
    /\ barrier' = "free"
    /\ promoter' = IdlePromoter

\* No difference and no kept write: markCaughtUp and promote, with no await.
Promote ==
    /\ promoter.pc = "decide"
    /\ promoter.same
    /\ \A d \in Docs : failed[d] = 0
    /\ state["shadow"] = "building"
    /\ state' = [base |-> "retired", shadow |-> "active"]
    /\ LeaveBarrier
    /\ UNCHANGED <<stream, table, failed, following, run, driver, counts, raced, unfollowed>>

RefusePromotion ==
    /\ promoter.pc = "decide"
    /\ ~promoter.same \/ \E d \in Docs : failed[d] # 0
    /\ LeaveBarrier
    /\ UNCHANGED <<stream, table, state, failed, following, run, driver, counts, raced, unfollowed>>

\* A read or a write of the promotion throws, and the barrier is released.
PromotionFails ==
    /\ promoter.pc \in {"reconcile", "compare"}
    /\ Fault
    /\ LeaveBarrier
    /\ UNCHANGED <<stream, table, state, failed, following, run, driver, raced, unfollowed>>

-----------------------------------------------------------------------------
\* The targets as the deployment mounts them.
Mounted == [base |-> "active", shadow |-> "building"]

\* The instance goes, and with it its calls, the barrier, the kept follower writes
\* and the one that was due.  Streams, tables and the run are in D1.  The router is
\* made again from the deployment's targets, which may or may not name the promoted
\* one by then.
Restart ==
    /\ Fault
    /\ state' \in {Mounted, state}
    /\ barrier' = "free"
    /\ failed' = [d \in Docs |-> 0]
    /\ following' = 0
    /\ driver' = [w \in Drivers |-> IdleDriver]
    /\ promoter' = IdlePromoter
    /\ unfollowed' = unfollowed \cup {d \in Docs : failed[d] # 0 \/ following = d}
    /\ UNCHANGED <<stream, table, run, raced>>

-----------------------------------------------------------------------------
\* Some documents exist; the shadow table may hold the remains of an earlier build.
Init ==
    /\ stream \in [Docs -> {0, 1}]
    /\ \E remains \in SUBSET {d \in Docs : stream[d] = 0} :
         table = [t \in Targets |-> IF t = "base" THEN stream
                                    ELSE [d \in Docs |-> IF d \in remains THEN 1 ELSE 0]]
    /\ state = Mounted
    /\ barrier = "free"
    /\ failed = [d \in Docs |-> 0]
    /\ following = 0
    /\ run = NoRun
    /\ driver = [w \in Drivers |-> IdleDriver]
    /\ promoter = IdlePromoter
    /\ counts = [commits |-> 0, calls |-> 0, faults |-> 0]
    /\ raced = FALSE
    /\ unfollowed = {}

CommitStep ==
    Commit \/ CommitThrows \/ SaveFollowers \/ SaveFollowersFails \/ retryFailedFollowers

DriverStep(w) ==
    \/ StartAdvance(w) \/ ListStreams(w) \/ ReadStream(w) \/ SaveRow(w) \/ RebuildError(w)
    \/ AppendAdvanced(w) \/ RereadRun(w) \/ AppendCompleted(w)
    \/ StartAbort(w) \/ AppendAborted(w) \/ AppendConflict(w) \/ DriverDies(w)

PromoteStep ==
    \/ StartPromote \/ EnterBarrier \/ EnterBarrierRetryFails \/ Reconcile
    \/ RemoveStaleRows \/ Compare \/ Promote \/ RefusePromotion \/ PromotionFails

Next == Start \/ CommitStep \/ PromoteStep \/ Restart \/ \E w \in Drivers : DriverStep(w)

Spec == Init /\ [][Next]_vars

-----------------------------------------------------------------------------
\* Properties.

(***************************************************************************)
(* The scan itself loses no document: when a run is completed, whatever    *)
(* committed behind its cursor, whatever two drivers did at once and       *)
(* whichever call of the rebuild died or failed, every document has its    *)
(* row in the new table, or the run recorded an error for it, or its       *)
(* follower write is kept for a retry or due by the commit that holds the  *)
(* barrier.  The exception is a document whose last commit left the target *)
(* nothing: it threw after D1 took it, its follower write, due or kept,    *)
(* went with the instance, or the target did not follow.  `completed` does *)
(* not speak for that one; the reconciliation of a promotion does          *)
(* (PromotedIsCurrent).                                                    *)
(***************************************************************************)
CompletedCovers ==
    run.status = "completed" =>
        \A d \in listStreams \ unfollowed :
            table["shadow"][d] # 0 \/ d \in run.errors \/ failed[d] # 0 \/ following = d

(***************************************************************************)
(* "The barrier prevents a live commit from landing between the final      *)
(* reconcile and the promotion decision" (docs/projection-indexes.md): at  *)
(* the moment of the swap the new table is what the streams fold to, row   *)
(* for row, also for the documents that no follower write came of, unless  *)
(* a call of advance was still writing it meanwhile.                       *)
(***************************************************************************)
PromotedIsCurrent ==
    [][state["shadow"] # "active" /\ state'["shadow"] = "active" /\ ~raced
          => table["shadow"] = stream]_vars

(***************************************************************************)
(* "The active projection is written inside commitBatch's atomic batch,    *)
(* together with the events" (src/application/projection-targets.ts):      *)
(* whenever no commit is under way, the active target is what the streams  *)
(* fold to.                                                                *)
(***************************************************************************)
ActiveIsCurrent ==
    barrier = "free" /\ ~raced => table[activeTarget] = stream
=============================================================================
