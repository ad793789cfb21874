---------------------------- MODULE DataPatches ----------------------------
(***************************************************************************)
(* Data patches: one-off migrations of tenant data, run in the order the   *)
(* apps register them and journalled in a D1 table.  Several operators     *)
(* (API, Desk, CLI) and queued jobs may drive the same journal at once, so *)
(* every claim is a conditional write on the patch's row, and the patch    *)
(* code only runs between a won claim and the write that ends it.          *)
(*                                                                         *)
(* Every statement sent to D1 is one await, hence one action.  Checksums   *)
(* always agree (the registry does not change during a behaviour), the     *)
(* patches' results are not kept, and a request without patch ids is the   *)
(* request for all of them, whose predecessor check cannot fail.           *)
(***************************************************************************)
EXTENDS Integers, FiniteSets

CONSTANTS
    PatchCount,     \* patches in the registry, numbered in registry order
    Reversible,     \* the patches that declare a rollback
    Workers,        \* requests and jobs being served
    MaxClaims       \* bound: claim ids handed out in a behaviour

ASSUME PatchCountAssumption == PatchCount \in Nat
ASSUME ReversibleAssumption == Reversible \subseteq 1 .. PatchCount
ASSUME MaxClaimsAssumption == MaxClaims \in Nat

VARIABLES
    journal,    \* the row of each patch; status "none" when there is no row
    data,       \* what the patch's code has done to the tenant's data
    pc,         \* the statement each worker is about to send
    todo,       \* the patches a worker selected and has not dealt with
    limit,      \* the request's limit, 0 for none
    claim,      \* the claim id a worker holds, or read in a failed row
    issued      \* claim ids handed out so far

vars == <<journal, data, pc, todo, limit, claim, issued>>

Patches == 1 .. PatchCount

Statuses == {"none", "pending", "applied", "failed",
             "rollback_pending", "rolled_back", "rollback_failed"}

(* One claim column stands for claim_id and rollback_claim_id: a rollback  *)
(* starts from an applied row, whose claim_id is never compared again.     *)
Row == [status : Statuses, claim : Nat]

NoRow == [status |-> "none", claim |-> 0]

(* "dirty": the patch's code or its rollback was entered and has not       *)
(* succeeded, so any part of its effect may be there.                      *)
Effects == {"clean", "dirty", "done"}

Steps == {"idle", "predecessors", "pending", "recorded", "claim", "claimed",
          "run", "complete", "fail",
          "retryPredecessors", "readFailed", "clear",
          "plan", "planAutomatic", "readRollback", "claimRollback", "reread",
          "planRetry", "readRollbackFailed", "claimRetry",
          "undo", "completeRollback", "failRollback"}

Status(p) == journal[p].status

-----------------------------------------------------------------------------
(* Plans over the registry order. *)

IsFirst(p, S) == p \in S /\ \A q \in S : p <= q

IsLast(p, S) == p \in S /\ \A q \in S : q <= p

(* pending.slice(0, limit), and its mirror image for a reversed list. *)
FirstOf(S, n) ==
    {p \in S : n = 0 \/ Cardinality({q \in S : q < p}) < n}

LastOf(S, n) ==
    {p \in S : n = 0 \/ Cardinality({q \in S : p < q}) < n}

\* Mutant: an earlier patch only has to be recorded.
PredecessorsRecorded(S) ==
    \A p \in S, q \in Patches \ S : q < p => Status(q) # "none"

(* No patch outside S that comes before one of S is in another state than  *)
(* applied.                                                                *)
PredecessorsApplied(S) ==
    \A p \in S, q \in Patches \ S : q < p => Status(q) = "applied"

(* No patch outside S that comes after the first of S still has effects. *)
SuccessorsRolledBack(S) ==
    \A p \in S, q \in Patches \ S :
        p < q => Status(q) \in {"none", "rolled_back"}

(* pendingPatches throws when a selected patch is recorded and not applied. *)
PendingReadable(S) == \A p \in S : Status(p) \in {"none", "applied"}

PendingPatches(S) == {p \in S : Status(p) = "none"}

(* The patches apply() will claim: it skips the ones it read as applied    *)
(* and throws at the first one it read in another state.                   *)
ApplyPlan(S) ==
    {p \in S : /\ Status(p) = "none"
               /\ \A q \in S : q < p => Status(q) \in {"none", "applied"}}

SelectedRollback(S) ==
    /\ \A p \in S : Status(p) = "applied" /\ p \in Reversible
    /\ SuccessorsRolledBack(S)

(* Walking back from the last patch: absent and rolled-back patches are    *)
(* skipped, an applied patch without a rollback stops the walk.            *)
Reached ==
    {p \in Patches :
        \A q \in Patches \ Reversible : p <= q => Status(q) # "applied"}

AutomaticRollback(n) == LastOf({p \in Reached : Status(p) = "applied"}, n)

(* The walk ends at the limit-th patch, and throws at an unsettled one. *)
AutomaticReadable(n) ==
    \A p \in Reached :
        \/ Status(p) \in {"none", "applied", "rolled_back"}
        \/ /\ n > 0
           /\ Cardinality({q \in Reached : p < q /\ Status(q) = "applied"}) >= n

RetryableRollback(p) ==
    Status(p) = "rollback_failed" /\ p \in Reversible /\ SuccessorsRolledBack({p})

-----------------------------------------------------------------------------
(* The loop of a worker. *)

Goto(w, step) == pc' = [pc EXCEPT ![w] = step]

(* The request ends, by returning or by throwing. *)
End(w) ==
    /\ Goto(w, "idle")
    /\ todo' = [todo EXCEPT ![w] = {}]
    /\ limit' = [limit EXCEPT ![w] = 0]
    /\ claim' = [claim EXCEPT ![w] = 0]

Throw(w) == End(w) /\ UNCHANGED <<journal, data, issued>>

(* On to the patches of S, the loop's next statement being step. *)
Continue(w, S, step) ==
    IF S = {} THEN End(w)
    ELSE /\ Goto(w, step)
         /\ todo' = [todo EXCEPT ![w] = S]
         /\ limit' = [limit EXCEPT ![w] = 0]
         /\ claim' = [claim EXCEPT ![w] = 0]

Write(p, status, id) ==
    journal' = [journal EXCEPT ![p] = [status |-> status, claim |-> id]]

\* Mutant: the claim id is not compared.
HoldsAny(w, p, status) == Status(p) = status

Holds(w, p, status) == journal[p] = [status |-> status, claim |-> claim[w]]

Init ==
    /\ journal = [p \in Patches |-> NoRow]
    /\ data = [p \in Patches |-> "clean"]
    /\ pc = [w \in Workers |-> "idle"]
    /\ todo = [w \in Workers |-> {}]
    /\ limit = [w \in Workers |-> 0]
    /\ claim = [w \in Workers |-> 0]
    /\ issued = 0

Accept(w, step, S, n) ==
    /\ pc[w] = "idle"
    /\ Goto(w, step)
    /\ todo' = [todo EXCEPT ![w] = S]
    /\ limit' = [limit EXCEPT ![w] = n]
    /\ UNCHANGED <<journal, data, claim, issued>>

-----------------------------------------------------------------------------
(* apply: check the selection, then claim, run and complete each patch. *)

StartApply(w) ==
    \E S \in SUBSET Patches \ {{}}, n \in 0 .. PatchCount :
        Accept(w, "predecessors", S, n)

ReadPredecessors(w) ==
    /\ pc[w] = "predecessors"
    /\ IF PredecessorsApplied(todo[w])
       THEN /\ Goto(w, IF limit[w] = 0 THEN "recorded" ELSE "pending")
            /\ UNCHANGED <<journal, data, todo, limit, claim, issued>>
       ELSE Throw(w)

ReadPending(w) ==
    /\ pc[w] = "pending"
    /\ IF PendingReadable(todo[w])
       THEN /\ Continue(w, FirstOf(PendingPatches(todo[w]), limit[w]), "recorded")
            /\ UNCHANGED <<journal, data, issued>>
       ELSE Throw(w)

ReadRecorded(w) ==
    /\ pc[w] = "recorded"
    /\ Continue(w, ApplyPlan(todo[w]), "claim")
    /\ UNCHANGED <<journal, data, issued>>

(* INSERT OR IGNORE under a fresh claim id. *)
Claim(w, p) ==
    /\ pc[w] = "claim" /\ IsFirst(p, todo[w])
    /\ issued < MaxClaims
    /\ issued' = issued + 1
    /\ claim' = [claim EXCEPT ![w] = issued + 1]
    /\ IF Status(p) = "none"
       THEN Write(p, "pending", issued + 1)
       ELSE UNCHANGED journal
    /\ Goto(w, "claimed")
    /\ UNCHANGED <<data, todo, limit>>

(* The row read back decides: ours, and the patch's code is entered; or    *)
(* already applied, and it is skipped; or the request throws.              *)
ReadClaim(w, p) ==
    /\ pc[w] = "claimed" /\ IsFirst(p, todo[w])
    /\ CASE Holds(w, p, "pending") ->
              /\ data' = [data EXCEPT ![p] = "dirty"]
              /\ Goto(w, "run")
              /\ UNCHANGED <<journal, todo, limit, claim, issued>>
         [] Status(p) = "applied" ->
              /\ Continue(w, todo[w] \ {p}, "claim")
              /\ UNCHANGED <<journal, data, issued>>
         [] OTHER -> Throw(w)

RunSucceeds(w, p) ==
    /\ pc[w] = "run" /\ IsFirst(p, todo[w])
    /\ data' = [data EXCEPT ![p] = "done"]
    /\ Goto(w, "complete")
    /\ UNCHANGED <<journal, todo, limit, claim, issued>>

\* Mutant: a run that throws is completed all the same.
RunFailureSwallowed(w) ==
    /\ pc[w] = "run"
    /\ Goto(w, "complete")
    /\ UNCHANGED <<journal, data, todo, limit, claim, issued>>

(* The code throws, or returns something that is not JSON. *)
RunFails(w) ==
    /\ pc[w] = "run"
    /\ Goto(w, "fail")
    /\ UNCHANGED <<journal, data, todo, limit, claim, issued>>

Complete(w, p) ==
    /\ pc[w] = "complete" /\ IsFirst(p, todo[w])
    /\ IF Holds(w, p, "pending")
       THEN /\ Write(p, "applied", claim[w])
            /\ Continue(w, todo[w] \ {p}, "claim")
            /\ UNCHANGED <<data, issued>>
       ELSE Throw(w)

Fail(w, p) ==
    /\ pc[w] = "fail" /\ IsFirst(p, todo[w])
    /\ IF Holds(w, p, "pending")
       THEN Write(p, "failed", claim[w]) /\ End(w) /\ UNCHANGED <<data, issued>>
       ELSE Throw(w)

-----------------------------------------------------------------------------
(* retryFailed: delete the failed row that was read, then apply the patch. *)

StartRetry(w) ==
    \E p \in Patches : Accept(w, "retryPredecessors", {p}, 0)

ReadRetryPredecessors(w) ==
    /\ pc[w] = "retryPredecessors"
    /\ IF PredecessorsApplied(todo[w])
       THEN /\ Goto(w, "readFailed")
            /\ UNCHANGED <<journal, data, todo, limit, claim, issued>>
       ELSE Throw(w)

ReadFailed(w, p) ==
    /\ pc[w] = "readFailed" /\ p \in todo[w]
    /\ IF Status(p) = "failed"
       THEN /\ claim' = [claim EXCEPT ![w] = journal[p].claim]
            /\ Goto(w, "clear")
            /\ UNCHANGED <<journal, data, todo, limit, issued>>
       ELSE Throw(w)

\* Mutant: DELETE by patch id alone.
ClearAny(w, p) ==
    /\ pc[w] = "clear" /\ p \in todo[w]
    /\ Write(p, "none", 0)
    /\ Continue(w, todo[w], "recorded")
    /\ UNCHANGED <<data, issued>>

ClearFailed(w, p) ==
    /\ pc[w] = "clear" /\ p \in todo[w]
    /\ IF Holds(w, p, "failed")
       THEN /\ Write(p, "none", 0)
            /\ Continue(w, todo[w], "recorded")
            /\ UNCHANGED <<data, issued>>
       ELSE Throw(w)

-----------------------------------------------------------------------------
(* rollback: plan on one read of the journal, then claim and undo each     *)
(* patch from the last to the first.                                       *)

StartRollback(w) ==
    \/ \E S \in SUBSET Patches \ {{}}, n \in 0 .. PatchCount :
            Accept(w, "plan", S, n)
    \/ \E n \in 0 .. PatchCount : Accept(w, "planAutomatic", Patches, n)

PlanRollback(w) ==
    \/ /\ pc[w] = "plan"
       /\ IF SelectedRollback(todo[w])
          THEN /\ Continue(w, LastOf(todo[w], limit[w]), "readRollback")
               /\ UNCHANGED <<journal, data, issued>>
          ELSE Throw(w)
    \/ /\ pc[w] = "planAutomatic"
       /\ IF AutomaticReadable(limit[w])
          THEN /\ Continue(w, AutomaticRollback(limit[w]), "readRollback")
               /\ UNCHANGED <<journal, data, issued>>
          ELSE Throw(w)

(* The row before the claim, and the row again when the claim changed      *)
(* nothing: only a rolled-back patch lets the loop go on.                  *)
ReadRollback(w, p) ==
    /\ pc[w] \in {"readRollback", "reread"} /\ IsLast(p, todo[w])
    /\ CASE Status(p) = "rolled_back" ->
              /\ Continue(w, todo[w] \ {p}, "readRollback")
              /\ UNCHANGED <<journal, data, issued>>
         [] Status(p) = "applied" /\ pc[w] = "readRollback" ->
              /\ Goto(w, "claimRollback")
              /\ UNCHANGED <<journal, data, todo, limit, claim, issued>>
         [] OTHER -> Throw(w)

(* A won claim enters the rollback's code. *)
BeginUndo(w, p) ==
    /\ issued < MaxClaims
    /\ issued' = issued + 1
    /\ claim' = [claim EXCEPT ![w] = issued + 1]
    /\ Write(p, "rollback_pending", issued + 1)
    /\ data' = [data EXCEPT ![p] = "dirty"]
    /\ Goto(w, "undo")
    /\ UNCHANGED <<todo, limit>>

ClaimRollback(w, p) ==
    /\ pc[w] = "claimRollback" /\ IsLast(p, todo[w])
    /\ IF Status(p) = "applied" THEN BeginUndo(w, p)
       ELSE /\ Goto(w, "reread")
            /\ UNCHANGED <<journal, data, todo, limit, claim, issued>>

UndoSucceeds(w, p) ==
    /\ pc[w] = "undo" /\ IsLast(p, todo[w])
    /\ data' = [data EXCEPT ![p] = "clean"]
    /\ Goto(w, "completeRollback")
    /\ UNCHANGED <<journal, todo, limit, claim, issued>>

UndoFails(w) ==
    /\ pc[w] = "undo"
    /\ Goto(w, "failRollback")
    /\ UNCHANGED <<journal, data, todo, limit, claim, issued>>

CompleteRollback(w, p) ==
    /\ pc[w] = "completeRollback" /\ IsLast(p, todo[w])
    /\ IF Holds(w, p, "rollback_pending")
       THEN /\ Write(p, "rolled_back", claim[w])
            /\ Continue(w, todo[w] \ {p}, "readRollback")
            /\ UNCHANGED <<data, issued>>
       ELSE Throw(w)

FailRollback(w, p) ==
    /\ pc[w] = "failRollback" /\ IsLast(p, todo[w])
    /\ IF Holds(w, p, "rollback_pending")
       THEN /\ Write(p, "rollback_failed", claim[w])
            /\ End(w)
            /\ UNCHANGED <<data, issued>>
       ELSE Throw(w)

-----------------------------------------------------------------------------
(* retryRollbackFailed: claim the failed rollback that was read. *)

StartRollbackRetry(w) ==
    \E p \in Patches : Accept(w, "planRetry", {p}, 0)

PlanRollbackRetry(w, p) ==
    /\ pc[w] = "planRetry" /\ IsLast(p, todo[w])
    /\ IF RetryableRollback(p)
       THEN /\ Goto(w, "readRollbackFailed")
            /\ UNCHANGED <<journal, data, todo, limit, claim, issued>>
       ELSE Throw(w)

ReadRollbackFailed(w, p) ==
    /\ pc[w] = "readRollbackFailed" /\ IsLast(p, todo[w])
    /\ IF Status(p) = "rollback_failed"
       THEN /\ claim' = [claim EXCEPT ![w] = journal[p].claim]
            /\ Goto(w, "claimRetry")
            /\ UNCHANGED <<journal, data, todo, limit, issued>>
       ELSE Throw(w)

ClaimRollbackRetry(w, p) ==
    /\ pc[w] = "claimRetry" /\ IsLast(p, todo[w])
    /\ IF Holds(w, p, "rollback_failed") THEN BeginUndo(w, p) ELSE Throw(w)

-----------------------------------------------------------------------------
(* The request ends between two statements: D1 refuses one, its answer is  *)
(* lost after it took effect, or the isolate goes away.                    *)
Abort(w) == pc[w] # "idle" /\ Throw(w)

Start(w) ==
    StartApply(w) \/ StartRetry(w) \/ StartRollback(w) \/ StartRollbackRetry(w)

Step(w) ==
    \/ ReadPredecessors(w) \/ ReadPending(w) \/ ReadRecorded(w)
    \/ RunFails(w) \/ UndoFails(w)
    \/ ReadRetryPredecessors(w)
    \/ PlanRollback(w)
    \/ \E p \in Patches :
        \/ Claim(w, p) \/ ReadClaim(w, p)
        \/ RunSucceeds(w, p) \/ Complete(w, p) \/ Fail(w, p)
        \/ ReadFailed(w, p) \/ ClearFailed(w, p)
        \/ ReadRollback(w, p) \/ ClaimRollback(w, p)
        \/ UndoSucceeds(w, p) \/ CompleteRollback(w, p) \/ FailRollback(w, p)
        \/ PlanRollbackRetry(w, p) \/ ReadRollbackFailed(w, p)
        \/ ClaimRollbackRetry(w, p)

Next == \E w \in Workers : Start(w) \/ Step(w) \/ Abort(w)

Spec == Init /\ [][Next]_vars

-----------------------------------------------------------------------------
(* Properties. *)

(* Every row, effect and worker is of its type, and no claim id is used    *)
(* before it is handed out (data-patch-log.ts rows, DataPatchRunner).      *)
TypeOK ==
    /\ journal \in [Patches -> Row]
    /\ \A p \in Patches : journal[p].claim <= issued
    /\ data \in [Patches -> Effects]
    /\ pc \in [Workers -> Steps]
    /\ todo \in [Workers -> SUBSET Patches]
    /\ limit \in [Workers -> 0 .. PatchCount]
    /\ claim \in [Workers -> 0 .. issued]
    /\ issued \in 0 .. MaxClaims

(* The journal tells the truth about the data: an applied row means the    *)
(* patch's code ran to its end and nothing touched its effect since, a     *)
(* rolled-back row that the rollback did, a failed row of either kind that *)
(* the effect is partial, and a patch without a row was never completed.   *)
JournalTrue ==
    \A p \in Patches :
        /\ Status(p) = "applied" => data[p] = "done"
        /\ Status(p) = "rolled_back" => data[p] = "clean"
        /\ Status(p) \in {"failed", "rollback_failed"} => data[p] = "dirty"
        /\ Status(p) = "none" => data[p] # "done"

Running(w, p) ==
    \/ pc[w] \in {"run", "complete", "fail"} /\ IsFirst(p, todo[w])
    \/ pc[w] \in {"undo", "completeRollback", "failRollback"} /\ IsLast(p, todo[w])

(* Two workers are never inside the code of the same patch, whichever of   *)
(* apply, retry, rollback and rollback retry brought them there.           *)
Exclusive ==
    \A v, w \in Workers, p \in Patches :
        Running(v, p) /\ Running(w, p) => v = w

(* No patch gets a row before every earlier one was applied at some time:  *)
(* the order of the registry is the order of first application, whatever   *)
(* the interleaving of selected, limited and retried applies.              *)
AppliesInOrder ==
    \A p, q \in Patches :
        q < p /\ Status(p) # "none" =>
            Status(q) \in {"applied", "rollback_pending", "rolled_back", "rollback_failed"}

(* A completed effect is disturbed only by the claimed rollback of its     *)
(* patch, and what was rolled back is never touched again: no crash, retry *)
(* or race makes a patch's code run twice over its own result.             *)
EffectsProtected ==
    [][\A p \in Patches :
        /\ data[p] = "done" /\ data'[p] # "done" =>
                Status(p) = "applied" /\ journal'[p].status = "rollback_pending"
        /\ Status(p) = "rolled_back" =>
                journal'[p] = journal[p] /\ data'[p] = data[p]]_vars

(* "Data patch '...' cannot run before earlier patch '...' is applied": a  *)
(* patch's code is entered only while every earlier patch is applied.      *)
RunsInOrder ==
    [][\A w \in Workers, p, q \in Patches :
        pc[w] = "claimed" /\ pc'[w] = "run" /\ IsFirst(p, todo[w]) /\ q < p =>
            Status(q) = "applied"]_vars
=============================================================================
