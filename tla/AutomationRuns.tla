--------------------------- MODULE AutomationRuns ---------------------------
(***************************************************************************)
(* Automation runs: the effects that automation rules have on other        *)
(* documents after a commit.  A document commit enqueues its runs in the   *)
(* same batch; drains claim runs under a lease, apply each action to its   *)
(* target through an ordinary document update, and record the outcome.     *)
(* The update is itself a commit that may enqueue further runs, so rules   *)
(* form chains that planEnqueueFromDomainEvent has to cut off.             *)
(*                                                                         *)
(* Every await of application/automation-run-service.ts and -consumer.ts   *)
(* is a step of its own.  A run's stream and its projection are written in *)
(* one batch, so both are the one record here; the record's version is the *)
(* length of its stream.  Time is kept as one flag per record: whether the *)
(* claimExpiresAt or retryAt its last event set has passed.                *)
(***************************************************************************)
EXTENDS Naturals, FiniteSets, Sequences

CONSTANTS
  Docs,               \* the documents that rules watch and change
  Rules,              \* automationActionIdentity: one per rule and action
  RulesOn,            \* the rules an update of each document triggers
  Target,             \* the document each rule's action updates
  Patch,              \* the value each rule's action gives it
  EditValues,         \* the values users give documents
  Initial, Deleted,   \* the value of a new document and of a deleted one
  Workers, ClaimIds, NoClaim,
  ClaimLimit,         \* automationRunClaimLimit
  MaxAttempts,        \* retry.maxAttempts (10 by default)
  MaxAppendAttempts,  \* MAX_AUTOMATION_RUN_APPEND_ATTEMPTS (5 in the code)
  MaxDepth,           \* DEFAULT_AUTOMATION_MAX_DEPTH
  MaxPathRepeats,     \* DEFAULT_AUTOMATION_MAX_PATH_REPEATS
  EditBound,          \* bound: updates and deletions by users
  FaultBound,         \* bound: crashes and store errors
  ExpiryBound         \* bound: claims of a run whose lease a live drain outlasts

ASSUME DocsAssumption ==
  /\ RulesOn \in [Docs -> Seq(Rules)]
  /\ Target \in [Rules -> Docs]
ASSUME ValuesAssumption ==
  /\ Deleted \notin EditValues \cup {Initial}
  /\ \A rule \in Rules : Patch[rule] # Deleted
ASSUME ClaimsAssumption == NoClaim \notin ClaimIds
ASSUME NumbersAssumption ==
  /\ ClaimLimit \in Nat \ {0}
  /\ MaxAttempts \in Nat \ {0}
  /\ MaxAppendAttempts \in Nat \ {0}
  /\ MaxDepth \in Nat \ {0}
  /\ MaxPathRepeats \in Nat \ {0}
  /\ EditBound \in Nat
  /\ FaultBound \in Nat
  /\ ExpiryBound \in Nat

VARIABLES
  docs,       \* each document's stream; an event's sequence is its index
  runs,       \* the run records, in the order (enqueuedAt, id)
  pc,         \* what each worker does next
  drain,      \* the drain it is in
  satisfied,  \* observer: runs whose target already was as the patch wants it
  edits,      \* updates and deletions by users so far
  faults      \* faults so far

vars == <<docs, runs, pc, drain, satisfied, edits, faults>>

-----------------------------------------------------------------------------
(* Documents, and the runs their commits enqueue.                          *)

\* The action id of an event that no run wrote.
NoAction == 0

Event(value, action, path) ==
  [value |-> value, action |-> action, path |-> path]

Value(d) == docs[d][Len(docs[d])].value

Occurrences(key, path) == Cardinality({i \in 1..Len(path) : path[i] = key})

\* Mutant: only the depth is looked at.
SuppressedByDepthOnly(sourcePath, key) == Len(sourcePath) + 1 > MaxDepth

\* automationLoopSuppressionError for a run at the end of sourcePath.
Suppressed(sourcePath, key) ==
  \/ Len(sourcePath) + 1 > MaxDepth
  \/ Occurrences(key, sourcePath) >= MaxPathRepeats

\* A run as foldAutomationRun gives it from its enqueue commit, which holds the
\* Suppressed event too when the chain is cut off there.
NewRun(rule, sourcePath) ==
  LET cut == Suppressed(sourcePath, rule)
  IN  [rule |-> rule, path |-> Append(sourcePath, rule),
       status |-> IF cut THEN "dead" ELSE "pending", attempts |-> 0,
       claim |-> NoClaim, version |-> IF cut THEN 2 ELSE 1, due |-> FALSE]

\* commitBatch of an update of document d: the event and its runs, together.
CommitUpdate(d, event) ==
  /\ docs' = [docs EXCEPT ![d] = Append(@, event)]
  /\ runs' = runs \o [k \in 1..Len(RulesOn[d]) |->
                        NewRun(RulesOn[d][k], event.path)]

-----------------------------------------------------------------------------
(* Run records.                                                            *)

RunIds == 1..Len(runs)

TargetOf(r) == Target[runs[r].rule]

\* Mutant: claims have no lease.
ClaimableWithoutLease(r, now) ==
  \/ runs[r].status = "pending"
  \/ runs[r].status = "failed" /\ <<r, runs[r].version>> \in now

\* claimableAutomationRuns at the time `now` of a drain, which is given as the
\* <<run, version>> whose retry or lease had run out by then.
ClaimableAt(r, now) ==
  \/ runs[r].status = "pending"
  \/ /\ runs[r].status \in {"failed", "claimed"}
     /\ <<r, runs[r].version>> \in now

DueNow == {<<r, runs[r].version>> : r \in {q \in RunIds : runs[q].due}}

\* ensureAutomationRunClaimed
ClaimedBy(record, claimId) ==
  record.status = "claimed" /\ record.claim = claimId

\* applyAutomationRunEvent for the event that operation op appends.
ApplyOp(record, op, claimId) ==
  [record EXCEPT
     !.status = CASE op = "claim" -> "claimed"
                  [] op = "deliver" -> "delivered"
                  [] op = "fail" -> "failed"
                  [] op = "deadLetter" -> "dead",
     !.attempts = IF op = "claim" THEN @ + 1 ELSE @,
     !.claim = claimId,
     !.version = @ + 1,
     !.due = FALSE]

Oldest(S, limit) ==
  {r \in S : Cardinality({q \in S : q < r}) < limit}

-----------------------------------------------------------------------------
(* A drain: its claim id and `now`, the selected runs not yet claimed, the  *)
(* claimed runs not yet finished (with the attempts they were claimed at),  *)
(* the operation of appendRunEvent, its attempt, the version it has read,   *)
(* and the version of the target an update expects.                         *)

NoDrain ==
  [claim |-> NoClaim, now |-> {}, selected |-> {}, claimed |-> {},
   op |-> "none", attempt |-> 0, version |-> 0, expected |-> 0]

First(S) == CHOOSE r \in S : \A q \in S : r <= q

ClaimedRuns(w) == {c[1] : c \in drain[w].claimed}

\* The run the worker is on.
Current(w) ==
  IF drain[w].op = "claim" THEN First(drain[w].selected)
  ELSE First(ClaimedRuns(w))

ClaimedAttempts(w) ==
  (CHOOSE c \in drain[w].claimed : c[1] = Current(w))[2]

Go(w, place, next) ==
  /\ pc' = [pc EXCEPT ![w] = place]
  /\ drain' = [drain EXCEPT ![w] = next]

EndDrain(w) == Go(w, "idle", NoDrain)

\* Enter appendRunEvent, or its next attempt.
StartAttempt(w, op, n) ==
  Go(w, "read", [drain[w] EXCEPT !.op = op, !.attempt = n, !.version = 0])

\* claimPending's loop, then drain's loop over what was claimed.
GoOn(w, selected, claimed) ==
  LET next == [drain[w] EXCEPT !.selected = selected, !.claimed = claimed,
                               !.op = "none", !.attempt = 0, !.version = 0,
                               !.expected = 0]
  IN  CASE selected # {} ->
             Go(w, "read", [next EXCEPT !.op = "claim", !.attempt = 1])
        [] selected = {} /\ claimed # {} -> Go(w, "applied", next)
        [] OTHER -> EndDrain(w)

\* The operation has its result.
Return(w, newlyClaimed) ==
  IF drain[w].op = "claim"
  THEN GoOn(w, drain[w].selected \ {Current(w)},
            drain[w].claimed \cup newlyClaimed)
  ELSE GoOn(w, {}, {c \in drain[w].claimed : c[1] # Current(w)})

\* deliver()'s catch: fail() under the attempts the run was claimed with.
Fail(w) ==
  StartAttempt(w, IF ClaimedAttempts(w) >= MaxAttempts THEN "deadLetter"
                  ELSE "fail", 1)

\* An exception: deliver() turns it into a failure, anything else ends the
\* drain, whose claims are left to their leases.
Throw(w) == IF drain[w].op \in {"none", "deliver"} THEN Fail(w) ELSE EndDrain(w)

Init ==
  /\ docs = [d \in Docs |-> <<Event(Initial, NoAction, <<>>)>>]
  /\ runs = <<>>
  /\ pc = [w \in Workers |-> "idle"]
  /\ drain = [w \in Workers |-> NoDrain]
  /\ satisfied = {}
  /\ edits = 0
  /\ faults = 0

-----------------------------------------------------------------------------
(* What happens around the drains.                                         *)

\* A user updates a document.
Edit(d, value) ==
  /\ edits < EditBound
  /\ Value(d) \notin {Deleted, value}
  /\ CommitUpdate(d, Event(value, NoAction, <<>>))
  /\ edits' = edits + 1
  /\ UNCHANGED <<pc, drain, satisfied, faults>>

\* A user deletes a document; the rules are triggered by updates.
Delete(d) ==
  /\ edits < EditBound
  /\ Value(d) # Deleted
  /\ docs' = [docs EXCEPT ![d] = Append(@, Event(Deleted, NoAction, <<>>))]
  /\ edits' = edits + 1
  /\ UNCHANGED <<runs, pc, drain, satisfied, faults>>

Holds(w, r) == r \in ClaimedRuns(w) /\ runs[r].claim = drain[w].claim

\* Time passes the retryAt or the claimExpiresAt of a run.  A drain that is
\* still at work outlasts its lease only ExpiryBound times.
FallDue(r) ==
  /\ runs[r].status \in {"failed", "claimed"}
  /\ ~ runs[r].due
  /\ \/ runs[r].status = "failed"
     \/ runs[r].attempts <= ExpiryBound
     \/ \A w \in Workers : ~ Holds(w, r)
  /\ runs' = [runs EXCEPT ![r].due = TRUE]
  /\ UNCHANGED <<docs, pc, drain, satisfied, edits, faults>>

-----------------------------------------------------------------------------
(* claimPending.                                                           *)

Unchanging == UNCHANGED <<docs, runs, satisfied, edits, faults>>

\* drain(): `now` is taken once, before anything is read.
StartDrain(w, claimId) ==
  /\ pc[w] = "idle"
  /\ Go(w, "list", [NoDrain EXCEPT !.claim = claimId, !.now = DueNow])
  /\ Unchanging

\* listClaimCandidates and the selection from them.
List(w) ==
  /\ pc[w] = "list"
  /\ GoOn(w, Oldest({r \in RunIds : ClaimableAt(r, drain[w].now)}, ClaimLimit),
          {})
  /\ Unchanging

-----------------------------------------------------------------------------
(* appendRunEvent.                                                         *)

\* Mutant: a failure is recorded whoever holds the run.
ReadRunUnclaimed(w) ==
  LET record == runs[Current(w)]
      op == drain[w].op
      plans == CASE op = "claim" -> ClaimableAt(Current(w), drain[w].now)
                 [] op = "fail" -> TRUE
                 [] OTHER -> ClaimedBy(record, drain[w].claim)
      done == \/ op = "claim"
              \/ op = "deliver" /\ record.status = "delivered"
              \/ op = "deadLetter" /\ record.status = "dead"
  IN  /\ pc[w] = "read"
      /\ \/ /\ plans
            /\ Go(w, "append", [drain[w] EXCEPT !.version = record.version])
         \/ ~ plans /\ done /\ Return(w, {})
         \/ ~ plans /\ ~ done /\ Throw(w)
      /\ Unchanging

\* Read the run's stream and plan: an event to append, a result that needs
\* none, or an exception.
ReadRun(w) ==
  LET record == runs[Current(w)]
      op == drain[w].op
      plans == IF op = "claim" THEN ClaimableAt(Current(w), drain[w].now)
               ELSE ClaimedBy(record, drain[w].claim)
      done == \/ op = "claim"
              \/ op = "deliver" /\ record.status = "delivered"
              \/ op = "deadLetter" /\ record.status = "dead"
  IN  /\ pc[w] = "read"
      /\ \/ /\ plans
            /\ Go(w, "append", [drain[w] EXCEPT !.version = record.version])
         \/ ~ plans /\ done /\ Return(w, {})
         \/ ~ plans /\ ~ done /\ Throw(w)
      /\ Unchanging

Written(w) == ApplyOp(runs[Current(w)], drain[w].op, drain[w].claim)

AppendCommit(w) ==
  /\ pc[w] = "append"
  /\ runs[Current(w)].version = drain[w].version
  /\ runs' = [runs EXCEPT ![Current(w)] = Written(w)]
  /\ Return(w, {<<Current(w), Written(w).attempts>>})
  /\ UNCHANGED <<docs, satisfied, edits, faults>>

\* Another event came first: read again, up to the last attempt.
AppendConflict(w) ==
  /\ pc[w] = "append"
  /\ runs[Current(w)].version # drain[w].version
  /\ IF drain[w].attempt < MaxAppendAttempts
     THEN StartAttempt(w, drain[w].op, drain[w].attempt + 1)
     ELSE Throw(w)
  /\ Unchanging

\* commitBatch fails otherwise, with or without its event in the stream.
AppendError(w) ==
  /\ pc[w] = "append"
  /\ faults < FaultBound
  /\ \/ runs' = runs
     \/ /\ runs[Current(w)].version = drain[w].version
        /\ runs' = [runs EXCEPT ![Current(w)] = Written(w)]
  /\ Throw(w)
  /\ faults' = faults + 1
  /\ UNCHANGED <<docs, satisfied, edits>>

-----------------------------------------------------------------------------
(* deliverUpdateDocument.                                                  *)

\* hasAppliedAction
HasApplied(r) ==
  \E i \in 1..Len(docs[TargetOf(r)]) : docs[TargetOf(r)][i].action = r

\* Has an earlier delivery applied the action already?
CheckApplied(w) ==
  /\ pc[w] = "applied"
  /\ IF HasApplied(Current(w)) THEN StartAttempt(w, "deliver", 1)
     ELSE Go(w, "target", drain[w])
  /\ Unchanging

\* The target's snapshot: missing, as the patch wants it, or to be updated.
ReadTarget(w) ==
  LET d == TargetOf(Current(w))
  IN  /\ pc[w] = "target"
      /\ \/ /\ Value(d) = Deleted
            /\ Throw(w)
            /\ UNCHANGED satisfied
         \/ /\ Value(d) = Patch[runs[Current(w)].rule]
            /\ StartAttempt(w, "deliver", 1)
            /\ satisfied' = satisfied \cup {Current(w)}
         \/ /\ Value(d) \notin {Deleted, Patch[runs[Current(w)].rule]}
            /\ Go(w, "update", [drain[w] EXCEPT !.expected = Len(docs[d])])
            /\ UNCHANGED satisfied
      /\ UNCHANGED <<docs, runs, edits, faults>>

ActionEvent(r) == Event(Patch[runs[r].rule], r, runs[r].path)

\* Mutant: documents.update without its expectedVersion.
UpdateAnyVersion(w) ==
  /\ pc[w] = "update"
  /\ CommitUpdate(TargetOf(Current(w)), ActionEvent(Current(w)))
  /\ StartAttempt(w, "deliver", 1)
  /\ UNCHANGED <<satisfied, edits, faults>>

\* documents.update commits at the version that was read.
Update(w) ==
  /\ pc[w] = "update"
  /\ Len(docs[TargetOf(Current(w))]) = drain[w].expected
  /\ CommitUpdate(TargetOf(Current(w)), ActionEvent(Current(w)))
  /\ StartAttempt(w, "deliver", 1)
  /\ UNCHANGED <<satisfied, edits, faults>>

UpdateConflict(w) ==
  /\ pc[w] = "update"
  /\ Len(docs[TargetOf(Current(w))]) # drain[w].expected
  /\ Go(w, "recheck", drain[w])
  /\ Unchanging

\* The update is refused or its reply lost: it may or may not have committed.
UpdateError(w) ==
  LET d == TargetOf(Current(w))
  IN  /\ pc[w] = "update"
      /\ faults < FaultBound
      /\ \/ UNCHANGED <<docs, runs>>
         \/ /\ Len(docs[d]) = drain[w].expected
            /\ CommitUpdate(d, ActionEvent(Current(w)))
      /\ Go(w, "recheck", drain[w])
      /\ faults' = faults + 1
      /\ UNCHANGED <<satisfied, edits>>

\* Mutant: an update error is not looked into and counts as success.
RecheckSwallowed(w) ==
  /\ pc[w] = "recheck"
  /\ StartAttempt(w, "deliver", 1)
  /\ Unchanging

\* After an error: was it applied all the same?
Recheck(w) ==
  /\ pc[w] = "recheck"
  /\ IF HasApplied(Current(w)) THEN StartAttempt(w, "deliver", 1) ELSE Throw(w)
  /\ Unchanging

\* The invocation is gone; what it claimed is left to its leases.
Crash(w) ==
  /\ pc[w] # "idle"
  /\ faults < FaultBound
  /\ EndDrain(w)
  /\ faults' = faults + 1
  /\ UNCHANGED <<docs, runs, satisfied, edits>>

Step(w) ==
  \/ List(w)
  \/ ReadRun(w)
  \/ AppendCommit(w)
  \/ AppendConflict(w)
  \/ CheckApplied(w)
  \/ ReadTarget(w)
  \/ Update(w)
  \/ UpdateConflict(w)
  \/ Recheck(w)

Start(w) == \E claimId \in ClaimIds : StartDrain(w, claimId)

Fault(w) == AppendError(w) \/ UpdateError(w) \/ Crash(w)

Next ==
  \/ \E w \in Workers : Start(w) \/ Step(w) \/ Fault(w)
  \/ \E d \in Docs : Delete(d) \/ \E value \in EditValues : Edit(d, value)
  \/ \E r \in RunIds : FallDue(r)

Spec == Init /\ [][Next]_vars

\* A drain that has started runs on, the schedule keeps starting drains, and
\* time passes every retryAt and claimExpiresAt.
FairSpec ==
  /\ Spec
  /\ \A w \in Workers : WF_vars(Step(w)) /\ WF_vars(Start(w))
  /\ WF_vars(\E r \in RunIds : FallDue(r))

-----------------------------------------------------------------------------
(* Properties.                                                             *)

WithinLimits(path) ==
  /\ Len(path) <= MaxDepth
  /\ \A rule \in Rules : Occurrences(rule, path) <= MaxPathRepeats

\* Chains of automations are cut off: no run that is to be delivered, and no
\* event in any document, is at the end of a chain deeper than the limit or
\* one that repeats an action.
LoopsBounded ==
  /\ \A r \in RunIds : runs[r].status # "dead" => WithinLimits(runs[r].path)
  /\ \A d \in Docs : \A i \in 1..Len(docs[d]) : WithinLimits(docs[d][i].path)

\* A run is delivered only if its action was applied, or its target was found
\* to be as the patch wants it.
DeliveredTookEffect ==
  \A r \in RunIds : runs[r].status = "delivered" =>
    HasApplied(r) \/ r \in satisfied

\* However many drains work on a run, after crashes, lost replies and expired
\* leases, its action is applied a second time only over a change that was
\* made since the first: it never writes twice in a row, and never writes
\* over a version it has not seen.
NoBlindReapply ==
  \A d \in Docs : \A i, j \in 1..Len(docs[d]) :
    (i < j /\ docs[d][i].action # NoAction
           /\ docs[d][i].action = docs[d][j].action) =>
      docs[d][j - 1].value # docs[d][j].value

\* Delivered and dead are final: no late answer of a drain that lost its lease
\* takes a finished run back.
TerminalIsFinal ==
  [][\A r \in RunIds :
       runs[r].status \in {"delivered", "dead"} => runs'[r] = runs[r]]_vars

\* Once users leave the documents alone (EditBound), every run is delivered or
\* dead in the end and stays so, also when drains crash while they hold it:
\* the lease gives it back, and the chains of runs end.
EveryRunEnds ==
  <>[](\A r \in RunIds : runs[r].status \in {"delivered", "dead"})

\* The action of a run takes effect at most once ("Duplicate queue delivery:
\* no duplicate effect").
AppliedOnce ==
  \A d \in Docs : \A i, j \in 1..Len(docs[d]) :
    (docs[d][i].action # NoAction /\ docs[d][i].action = docs[d][j].action)
      => i = j

=============================================================================
