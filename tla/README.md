# TLA+ specifications of cf-frappe

cf-frappe is a Frappe-style application framework on Cloudflare Workers. Its core
is event sourced: every change is an event in a stream kept in D1, a command reads
the streams it needs, plans events, and appends them under the versions it read.
Workers have no memory between invocations and no locks between them. Two requests,
queue messages or cron ticks may interleave at every `await`, an invocation may end
at any of them, and the reply to a write may be lost although the write took place.
This directory models the parts whose correctness depends on getting that right.

Contents: 1 inventory, 2 modules and code, 3 runs, 4 fairness and bounds, 5 proofs,
6 findings, 7 what is not modelled, 8 plan, 9 how to run.

## 1. Inventory

### Components with concurrent state

| Component | State | Operations | What makes it correct |
|---|---|---|---|
| Document commands (`document-service.ts`) | one stream per document | create, duplicate, amend, update, merge, transition, execute, comment and the other collaboration commands, submit, cancel, delete | a command planned from reads made one by one is still right when its batch commits; the lifecycle is respected |
| Unique-value reservations (`document-unique-values.ts`) | one stream per (field, value) | reserve, take over, skip, release | two live documents never share a unique value; nothing stays reserved without an owner |
| Naming series (`document-naming.ts`, `core/naming.ts`, `naming-service.ts`) | counter stream per scope, strategy | take a number, retry after a conflict, adjust, save and clear the strategy | the counter only moves forward, a failed create consumes no number, the retry loop ends |
| Delivery outbox (`document-delivery-outbox-*.ts`) | one stream per tenant, with checkpoints | enqueue, claim, markDelivered, markFailed, state, drain | each intent is delivered under one claim at a time and in the end; compaction loses nothing |
| Automation runs (`automation-run-*.ts`) | one stream per run, plus the target documents | enqueue with the commit, claim under a lease, apply, deliver, fail, dead-letter | runs end, actions take effect and are not repeated, chains are cut off |
| Data patches (`data-patch-*.ts`) | a journal row per patch | apply, retryFailed, rollback, retryRollbackFailed | the journal is true, a patch's code runs in one place at a time, order is kept |
| Event and document store (`adapters/d1/document-store.ts`, `event-store.ts`) | the events table and projections | append, commit, commitBatch, reads | comparing all versions and writing are one step, and a caller told of a conflict was not stored |
| Fold snapshots (`document-fold-snapshots.ts`) | a cache of folds | load, save | a fold from a snapshot equals the fold from nothing |
| Job execution (`job-executor.ts`, `job-execution-log.ts`, `job-consumer.ts`) | a row per idempotency key | claim, complete, fail, retry | a redelivered message neither runs a job twice nor loses it |
| Projection rebuild (`projection-rebuild-service.ts`, `projection-targets.ts`) | the run's stream, the tables, failed follower writes | start, advance, abort, promote; commit with followers and their retry | a completed scan lost no document, and the swap finds the new table equal to the streams |
| File service (`file-service.ts`, `file-policy.ts`) | R2 objects and uploads, file documents | buffered, direct and multipart upload, completion, abort, metadata, renditions, delete | object and document agree after a race or a failure between the two |
| Accounts and sessions (`user-account-service.ts`, `core/user-accounts.ts`) | account streams, sessions, tokens on their way | create, password, roles, status, provider sync, login with rehash, recovery | a session is good exactly until the account changes; a token works once |
| Realtime hub (`cloudflare/realtime-hub.ts`) | sockets, a bounded replay log | connect, replay, publish, collaborate, close | a client can tell that it missed events; presence is what it is told |
| Email notifications (`email-notification-service.ts`) | a stream per message | queue, claim with a timeout, send, record the outcome | records are true; a mail goes out once |

The remaining parts (job schedules, permissions, workflow and rule definitions, metadata, queries,
reports, import, web forms, Desk, HTTP, CLI, migrations) are sequential decisions over
data already read, single-stream edits or rendering. `PROJECT.json` lists each with the
reason it has no module.

### How they interact

    request ──> DocumentService ──commitBatch──> streams: document, reservations,
                     │                                    counter, automation runs
                     │ after-commit hook
                     ▼
               delivery outbox ──drain──> handlers: email, notifications, realtime
               automation runs ──drain──> DocumentService.update ──> further runs
    operator, CLI, queued job ──> data patches ──> the patch's code ──> tenant data
    queue, cron ──> job consumer ──> job executor ──> drains, data patches, emails
    request ──> FileService ──> R2, then DocumentService
    commit ──> active projection in the batch, then the followers of a rebuild
    realtime handler ──> hub of the topic ──> sockets

Everything is a call through the event store or D1. Nothing is shared in memory. The
Durable Object that serialises the commands of one document
(`cloudflare/aggregate-coordinator.ts`) is *not* relied on by any module: uniqueness and
naming cross documents, so the version checks must suffice alone.

### What is hard here

- State read before an `await` and used after it: owners of reservations, the counter,
  the registry order of patches, the attempts of a run.
- A state assembled from several reads while others append (`state()` of the outbox).
- Claims: without a lease (outbox, patches) or with one that its holder may outlast
  (automation).
- Writes whose reply is lost, handlers that succeed and whose success cannot be recorded.
- Retry loops with a budget (5 append attempts, `maxAttempts` of a series).
- Rules that trigger each other.
- Two stores and no transaction over both: R2 or the email provider, and the events.
- A second read for the expected version, made after the decision it should protect.
- Cursors: of a rebuild that documents change behind, of a client whose events are pruned.

`PROJECT.json` lists these at their lines under "hazards", with the properties that
would catch each going wrong.

## 2. Modules and the code they model

A *worker* is one running invocation; `pc` says which await it is at. Each read and
each write of a store is one action. Definitions named after a plausible bug
(`...Always`, `...Any`, `...Afresh` and so on, each marked "Mutant") are used only to
confirm that a property can fail.

**DeliveryOutbox** (with the abstract **DeliveryLifecycle**) is the outbox stream of one
tenant. `stream` is the sequence of events; `Record` is the fold of one record's events
and `WorkingSetAt(n)` the working set at version `n`. `ReadCheckpoint`, `ReadHistory` and
`ReadTail` are the separate awaits of `state()`. `Planned` is what enqueue, claim,
markDelivered and markFailed would append, including the checkpoint that a terminal event
may bring along. `AppendCommit`, `AppendConflict` and `AppendError` are the outcomes of
the append loop; `HandlerSucceeds` and `HandlerFails` those of the consumer's handler.
`StartRedelivery` is a markDelivered that arrives again. `Crash` ends an invocation
anywhere, `AppendError` before or after the write. `runs` and `completed` only observe.

**AutomationRuns** models documents with rules, run records and drains. `CommitUpdate` is
a document commit together with the runs it enqueues (one batch in the code). `List`,
`ReadRun`, `AppendCommit`, `CheckApplied`, `ReadTarget`, `Update` and `Recheck` are the
awaits of a drain. Time is one flag per record, "its lease or retry time has passed",
raised by `FallDue`. Users change and delete documents in between (`Edit`, `Delete`). Rule
matching is reduced to "an update of this document triggers these rules".

**DocumentCommands** (with the abstract **UniqueDocuments**) models the commands of one
DocType. A document is its status, its version and the set of unique values it has; the
rest of its data never decides a conflict. `ReadCounter` and `ReadName` look for a free
number, `ReadSource` is the document a copy is made from, `ReadDocument` the one being
changed, `ReadReservation`, `ReadOwner` and `ReadRelease` the reservation plan. `Commit`
is `commitBatch`: it compares every version that was read and writes everything, or
`CommitConflict` sends a create in a series through `CheckCounter` and `CheckName` to its
next attempt. `Refuse` stands for every way to end without a commit: a permission, a
validation, an expectedVersion, a hook, a crash. A lost reply is a `Commit` as far as the
streams are concerned. `SaveNaming` changes the strategy under running creates;
`ReadAdjust` and `CommitAdjust` are an administrator's adjustment of the counter.

**DataPatches** models the journal. `journal` has the row of each patch in registry order
and `data` what its code really did to the tenant ("dirty" once entered and not
finished). Every D1 statement is an action; `Abort` is a D1 error, a lost reply or a
crash at any of them. One claim column stands for `claim_id` and `rollback_claim_id`.
Checksums agree, since the registry does not change within a deployment.

**JobExecution** models the messages of the job queue, the deliveries that process them
and the row of the execution log for each idempotency key. `Dispatch` and
`RetryLookup`/`RetrySend` are the producers: a dispatch may reuse a key, and an operator's
retry reads the row and sends a message in two steps. `Deliver` is one entry of a batch;
`DeliverAgain` is the queue's at-least-once delivery of a message still being processed.
`Claim` and `SkipDuplicate` are the two results of `begin`; the handler succeeds, throws a
retryable or a permanent error, or returns a result that is no JSON (`ResultInvalid`).
`Complete` and `Fail` write the row without looking at it, as the code does. `ClaimError`,
`CompleteError` and `FailError` are errors of D1, with or without the write having taken
place; `Crash` ends the invocation anywhere and the message is delivered again. `Settle` is
the ack or retry of `processJobMessage`. `done`, `unrecorded` and `stranded` only observe.
Lanes and their concurrency are not limited: any number of workers may run.

**DocumentStore** (with the abstract **AtomicStore**) is what the modules above take as one
step. `ReadSnapshot` and `Resume` are the cached fold and the tail after it, `ReadEntry` the
reads of the other streams, `CheckVersion` and `VersionConflict` the version read of each
stream, `CommitBatch` and `AppendBatch` the D1 batch, `ConstraintError` the unique index on
(stream, sequence), `RecordSnapshot` the save that a slower command may make after a newer
one. `ReadSnapshotFails`, `IgnoreSnapshot` and `RecordSnapshotFails` are failures the cache
swallows; `CallFails`, `BatchAnswerLost` and `WriterDies` those the caller meets. An event is
its command's number, a folded state the sequence of those folded into it, so that a fold
that skips or repeats an event is a different value.

**FileService** is one file: its document, the object under its key, its multipart upload and
its rendition objects. Each call to R2, the scanner, the transformer or the document commands
is one action, and so is each compensation (`CleanupObject`, `AbandonMultipartUpload`,
`DiscardRendition`, `OnError`). A document command answers with a document read after its
commit, which may already contain later commits (`RereadDocument`). `Refuse` is a command that
another request's commit came before; `CallFails`, `RequestDies` and `CommitThenFail` are the
faults. A client may use its upload URL again (`ClientPut`); that the URL expires only ends
this. A rendition is made of the file and of an overlay, another File whose content may change
(`ReplaceOverlay`). Its entry carries the etag it was made of, and only an entry of the same
etag is reused or keeps others out (`renditionSourcesMatch`). The file's own content does not
change, so the etag of the overlay stands for both. `overtaken`, `late` and `replaced` only
observe: a completion whose last command was refused, a put after the upload was closed, and
the keys of available entries that another attempt replaced. Sizes, types and names are left
out; `infected` is what the scanner says of the content.

**EmailNotifications** is one message. `Lookup` and `Resolve` are queueFromDomainEvent, `Load`
the read from which a delivery decides to claim, `ReadVersion` the second read that `append`
makes, `ReadClaim` that of a completion. `ClaimTimesOut` makes the active claim stale.
`SendUnanswered` is a mail the provider took although the call threw.

**ProjectionRebuild** is one run over the tables of one DocType. `Commit` and `SaveFollowers`
are the two halves of a commit, under the router's barrier; `ListStreams`, `ReadStream`,
`SaveRow`, `AppendAdvanced`, `RereadRun` and `AppendCompleted` the awaits of an advance;
`EnterBarrier` to `Promote` those of a promotion. `failed` are follower writes to be retried.
`CommitThrows` is a commit that throws although D1 took its batch: the barrier is released and
no follower is written. `Restart` replaces the instance at any point, between a commit and its
follower write too. The router's memory goes with it: the barrier, the failed writes and the
calls under way. The targets may be mounted afresh (`Mounted`) or as they were. A
request that hangs in a living instance keeps the barrier, which is no further step. A document
is the version it is at. `raced` records that an advance wrote after its target was promoted
(see section 6), `unfollowed` the documents with a commit whose follower write was neither made nor kept.

**RealtimeHub** is the Durable Object of one topic. A handler awaits nothing between its reads
and its sends, so each is one action. Sockets may be lost or broken without the runtime
knowing and are still listed until it forgets them. `Replay` is a page of the replay
endpoint, `Connect` with `replay` the one sent over a new socket. The hub names no cursor when a
client connects, so one that has got no event yet asks from the beginning (`Known`). The filter
of rows that do not parse (`realtime-hub.ts:407`) is left out, since `publish` stores checked
events and such a row would be a corrupted one.

**UserAccounts** is one account. Commands read the account, plan an event and append it at the
version they read; `Rehash` and `FinishLogin` are the login's second half; `Send` and
`SendFails` the notifier, and `MarkRecoveryDeliveryFailed` what a failure takes back. `cost`
is the work factor of hashes, which a deployment may raise, `expired` the tokens past their time.
An account may be created disabled.

**Services** and **SideEffects** put several of these modules into one specification each,
which MCServices and MCSideEffects give their constants. The parts share no state, so steps of two of them commute and a behaviour that mixes them shows nothing
the parts' own behaviours do not. A variable `service` picks the part that moves; the others
stay at their initial states. The states explored are the sum of the parts', not the product.
Where parts do interact, it is through the store, whose atomic step DocumentStore justifies.

**InductionLemmas** holds the induction and fold-existence facts the proofs need.
**DeliveryOutboxProofs**, **AutomationRunsProofs**, **DocumentCommandsProofs**,
**DataPatchesProofs**, **JobExecutionProofs**, **ServicesProofs** and **SideEffectsProofs** hold
the theorems. The other **MC...** modules give the constants of the runs.

## 3. Runs

| Run | Instance | Shows |
|---|---|---|
| `side_effects`, outbox | 2 records of one event, 2 workers, 2 claim ids, 2 append attempts, stream up to 8 when a call starts, 1 fault, 1 handler failure per record | `ResumedIsFullFold`: what `state()` pieces together is the fold of the whole stream at the version it reports; `CheckpointsTrue`: each checkpoint sits right after what it summarises and carries exactly what is in flight; `SoleClaimant`: two drains never hold the same record; `RunsArePaidFor`: a handler runs at most once per claim; `DeliveredWasHandled`; `LifecycleSpec`: refinement of `DeliveryLifecycle` |
| `side_effects`, files | 3 concurrent requests of 4, 1 fault, clean or infected content, 2 contents of the overlay | `ContentKept`: an available file has its content; `InfectedRemoved`: rejected content is never available, and without faults it stays only under a reservation nobody completed, behind a completion that another commit made fail, or because the client put it again; `RenditionsOwned`: rendition objects are named by the manifest or were replaced after the overlay changed, and an available entry has its object |
| `side_effects`, emails | 2 workers, 3 requests, 1 timeout, 1 fault | `MailsAccounted`: sent and failed are true, and only overlap, timeout or a fault sends a mail twice |
| `outbox_liveness` | as the outbox above, no faults, 5 append attempts | `EveryRecordDelivered` |
| `automation` | two rules that trigger each other, user edits, 2 drains, 1 fault, a lease outlasted once per run | `LoopsBounded`: depth and repeat limits hold for every event written; `DeliveredTookEffect`; `NoBlindReapply`: an action is applied a second time only over a change made since the first; `TerminalIsFinal`; `EveryRunEnds`: the lease gives back what a dead drain held, and chains end |
| `automation_duplicate_effect` | without faults | finding: `AppliedOnce` is violated |
| `documents` | names, values and numbers with an exclusion, 2 attempts, 3 commands of 2 workers | `UniqueValues`; `ReservationsExact`: reserved exactly while the document is live and has the value; `PlansSound`; `NoNumberConsumed`; `CounterForward`; `EveryCommandEnds`; `Lifecycle`: refinement of `UniqueDocuments` |
| `documents_deleted_name` | 1 worker, 3 numbers | finding: `TakenNamesAreSkipped` is violated |
| `job_execution` | 1 key, 2 messages, 2 workers, 1 operator, 2 attempts, 1 duplicate delivery, 2 faults | `SoleRunner`: one delivery at a time executes a key; `RerunsUnrecordedOnly`: a recorded success is never repeated; `NoSilentLoss`: what was sent is attended to or has an outcome, unless the log failed or the invocation died; `QueueDrains` |
| `services`, patches | 2 reversible patches, 2 workers, 3 claims | `JournalTrue`; `Exclusive`; `AppliesInOrder`; `EffectsProtected`: a finished effect is only undone by its claimed rollback, and a rolled-back patch is never touched again |
| `services`, store | 1 document, 1 unique value, 1 log, 2 writers, 3 commands, 1 fault | `StoreIsAtomic`: refinement of `AtomicStore`; `CacheIgnorable`: what a command resumes from the cache is the fold of the stream |
| `services`, rebuild | 2 documents, batches of 1, 2 drivers, 2 commits, 4 calls, 1 fault (a failed write, a commit that throws, a dead call or a restart) | `CompletedCovers`: a completed scan lost no document, apart from those whose commit left the target nothing; `PromotedIsCurrent`: the swap finds the table equal to the streams, those documents included |
| `services`, hub | 2 clients, 3 connections, 3 events, 2 retained, pages of 1 | `LossIsVisible`: a missed event shows as a jump in the client's cursor; `PresenceTrue`: every reachable socket has been told who is there |
| `services`, accounts | 1 account, 2 requests at a time, 4 commands, 1 fault, a provider, a raised hashing cost | `SessionsExact`: a session is good exactly until somebody else changes the account; `TokensSpentOnce`: only the newest token works, and once; `FailureRevokesOwn`: a late failure takes back no token but its own |
| `files_delete` | 2 requests, no fault | finding: `ContentGoesWithMetadata` is violated |
| `emails_once` | 2 workers | finding: `SendsOnce` is violated |
| `patches_order` | 2 reversible patches | finding: `RunsInOrder` is violated |
| `rebuild_active` | 2 documents, 1 driver, 1 commit, no fault | finding: `ActiveIsCurrent` is violated |

Each property of a passing run has a mutant in `PROJECT.json`: a definition changed the
way a plausible bug would change it, under which TLC finds the property violated.

## 4. Bounds and fairness

*Bounds.* Two workers are enough for every race of this code, because each conflict is
between one invocation and one that overtakes it; where three matter (a lease taken over
while a user edits) the third is a user action, not a worker. Two records, names, values
or claim ids suffice to tell "mine" from "another's". `StreamBound` 8 leaves room for two
records to be enqueued, claimed, failed, claimed again and delivered with a checkpoint.
`MaxAttempts` and `MaxAppendAttempts` of 2 reach both the retry and its exhaustion.
`PatchCount` 2 has an earlier and a later patch; 3 claims allow a race and
a retry after it. A file has 3 requests at a time because the worst cases take an upload, a
second completion and a deletion, and 4 in all; mails, accounts and stores need 2. With 5
requests in all the files alone were checked once too (1.8 million states), and the rebuild alone with 2
faults (840 thousand). Two contents of the overlay tell an entry of the same sources from one of others. A retention of 2 with 3
events prunes one that some client has not seen. One key suffices for jobs, since deliveries of different keys share nothing; two
messages of it, a duplicate and two faults give an operator's retry that meets a late
redelivery after a crash. `MessageBound`, `DuplicateBound`, `CommandBound`, `RequestBound`, `CommitBound`, `CallBound`,
`ConnectionBound`, `PublishBound`, `OverlayBound`, `EditBound`, `FaultBound`, `FailureBound`, `ExpiryBound` and `MaxClaims` bound what the environment does, and are guards of the environment's actions.
The safety theorems below hold for every value of all of them.

*Symmetry* over workers, claim ids and request slots is used in safety runs only.

*Deadlock.* The outbox liveness run and the automation run check it. The others do not:
when the bounded environment has nothing left to ask for, the system is idle.

*Fairness.*
- Outbox: weak fairness of every worker's `Step` (awaits are answered); strong fairness
  of `StartDrain` (the schedule keeps starting drains, and a failed record falls due);
  strong fairness of `AppendCommit`: an append that can commit again and again does in
  the end. The last is what five attempts give as long as the contention stays below the
  budget. It is an assumption: `markFailed` that loses five appends in a row throws and
  its record stays claimed.
- Automation: weak fairness of `Step` and `Start` of every worker and of `FallDue` (time
  passes).
- Jobs: weak fairness of every worker's `Step` (awaits are answered and handlers end) and
  of some `Deliver` (the queue delivers what it has). None for producers, duplicates and
  faults.
- Documents: weak fairness of `Step` only. No fairness for starting commands or for
  `Refuse`.

## 5. Proofs

TLAPS checks these for every value of the constants. The assumptions are the ASSUMEs of
the modules: finite sets of records, positive limits, page, batch and retention sizes,
distinct null values, and that a provider's account patch has only the fields of its type.
Every safety property of a passing run is a theorem.

**DeliveryOutboxProofs**: `TypeCorrect`, `CheckpointsAreTrue`, `ResumeIsCorrect`.
`ResumedIsFullFold` is not inductive: a worker between two reads of `state()` has only
part of the answer. The invariant is
`IInv == TypeOK /\ CheckpointsTrue /\ WorkersOK`, where `WorkersOK` says for each place of
each worker what its locals already are: the checkpoint read is one of the stream's, each
history read so far is the fold of that record up to the checkpoint, the version is at
most the length of the stream. Folding is a recursive function defined by `CHOOSE`;
`InductionLemmas` proves that such a function exists on an interval (`FoldExists`), by
induction from the least natural not in a set, because the prover cannot instantiate
library theorems with an operator parameter. The central lemmas say that appending leaves
earlier folds alone, that a fold splits at any point, and that a record not carried by a
true checkpoint starts again from nothing after it.

The claims are a second layer: `ClaimsAreExclusive`, `HandlerRunsArePaidFor`,
`DeliveriesWereHandled` and `ImplementsLifecycle`. `JInv`, inductive together with `IInv`,
says what a planned append does to the records it names while the version it was planned at
stands (`PlansOK`), that what a drain works on is claimed in the stream under its claim id
and by nobody else (`ClaimsHeld`, `ClaimsDisjoint`), and that the runs of a handler are at
most the claims, strictly fewer while a claimed record is still to be handled (`RunsPaid`,
`RunsLeft`), and that a delivery was handled (`Handled`). A drain's claim is its own before it knows
that the append went through, so `Held` and `Unpaid` are defined per place of the call.
The refinement follows: a commit moves each record it names along an edge of
`DeliveryLifecycle`, and everything else stutters.

**AutomationRunsProofs**: `TypeCorrect`, `ChainsAreCutOff`, `DeliveriesTookEffect`,
`ActionsSeeTheirTarget`, `FinishedRunsStay`. The limits are checked when a run is planned and
its event is written much later, so the invariant carries them along the way: every run that
may still act is within them (`RunsOK`), hence every event is (`StreamOK`). `EffectsOK` says a
delivered run took effect, and `DrainOK` what a drain has established at each of its places:
it read the target at that version, the action was applied or found satisfied, the claim it
writes under. That paths end needs a counting lemma: a key occurs once more in the path it is
appended to.

**DocumentCommandsProofs**: `TypeCorrect`, `PlansStaySound`, `ReservationsAreExact`,
`UniqueFieldsAreUnique`, `NumbersNotConsumed`, `CounterOnlyForward`,
`ImplementsLifecycle`. `UniqueValues` follows from `ReservationsExact`, since a
reservation has one owner. `ReservationsExact` needs `PlansSound`: what a command planned
stays right *while the versions it will expect stand*. This includes the values a
document keeps without expecting their reservation's version: only the document's own
version vouches for them. The invariant is
`TypeOK /\ StreamsStart /\ ReservationsExact /\ PlansSound /\ NoNumberConsumed`.
The refinement follows step by step: a `Commit` is the abstract step of its operation,
by `LegalChange` and `UniqueValues'`; every other action stutters.

**DataPatchesProofs**: `TypeCorrect`, `JournalIsTrue`, `RunsExclusively`,
`AppliedInOrder`, `EffectsAreProtected`. The invariant adds to the checked properties that
claims in rows and workers are distinct and, for each worker, what the statement it is
about to send may rely on: inside the code it holds the row of the patch it is at
(`RunOK`, `UndoOK`), having claimed it owns what it claimed (`ClaimedOK`), and before a
claim all earlier patches have been applied at some time (`ReadyOK`). That "at some time" cannot be
sharpened to "now" is the finding below.

**JobExecutionProofs**: `TypeCorrect`, `OneRunner`, `RecordedSuccessIsFinal`,
`NothingElseIsLost`. No property is inductive alone: that a row is claimed by one delivery
depends on which rows a delivery in the handler can leave behind, and that nothing is lost
depends on who still attends to the key. The invariant is `TypeOK` and, for each key,
`KeyOK`: at most one runner, and its row is not claimable (`RunnerAt`); successes are
counted against what could not be recorded and what the row says (`CountedAt`); a running
row has its runner or is stranded (`AttendedAt`); a key without a row has a message
under way or is stranded (`UnclaimedAt`). Steps on one key leave the others' parts
alone (`SameStays`), and a step that moves no message changes only its own key's
(`InPlaceStep`).

**ServicesProofs** has an inductive invariant for each of the other database services. It is
proved for the service alone and carried over to Services, where the others stutter.

- *Hub*: `EveryoneKnowsWhoIsPresent`, `MissedEventsShow`. A broadcast closes the sockets it
  cannot reach, repeats itself for the rest, and leaves everyone with the same list. `LossInv`
  says that the retained events are the newest ones without a gap, that a client whose cursor
  never jumped has everything up to its cursor, and that a connected client which never jumped
  and whose last replay was short is at the end of what was published.
- *Accounts*: `SessionsLastUntilAChange`, `TokensWorkOnce`, `FailuresRevokeTheirOwn`.
  `AccountTrue` relates the folded account to the log of its changes, `CallsTrue` each
  request's copy to a prefix of that log, `SessionsTrue` the version in a session to the
  version its login read and the one change the login may have made.
- *Rebuild*: `CompletedScansCover`, `PromotionIsCurrent`. `RebuildInv` says who
  is inside the barrier (`BarrierTrue`), that a promotion which found no difference has none
  while it decides (`SameTrue`), that a call of advance has the run as it is while the run's
  version stands (`DriversTrue`), and that a document without a row, with none to come and with
  no lost follower write, is ahead of the cursor or among the errors, for the run and for every
  call's plan (`ScanTrue`). A restart ends every plan and keeps the run, so it keeps all of it.
- *Store*: `SnapshotsMayBeIgnored`, and `StoreImplementsAtomic`, the refinement of
  `AtomicStore`. `StoreInv` says that the rows of a stream are numbered without a gap, that
  a snapshot is the fold of the prefix at its version, what each command has read
  (`RequestTrue`), and that command ids are given out once and an unfinished one is unanswered
  (`IdsTrue`). With these, a batch that passes the unique index is one compare-and-append.

**SideEffectsProofs** does the same for mails and files.

- *Mails*: `MailsAreAccounted`. `MailsInv` says that a claim is of one delivery and what that
  delivery knows of its acceptance (`ClaimsOwned`), that the record's status is true of what the
  provider accepted (`RecordTrue`), and that without overlap, timeout or fault requests run in
  turn and the only claim the provider may have accepted is the record's (`CalmTrue`).
- *Files*: `ContentIsKept`, `InfectedIsRemoved`, `RenditionsAreOwned`. None is inductive.
  `FileInv` says what a request may rely on. Its copy of the document is current while the
  version stands (`ReadTrue`). An object it saw is still there and no upload can replace
  it, unless the content may have been removed (`ContentTrue`). The pending entry of a
  rendition is the manifest's (`RenditionTrue`). Requests of a file without a document, and
  keys of renditions, do not meet (`RequestsApart`); the document is true of the objects
  (`FileTrue`, `ManifestTrue`). Without faults, a rendition object is named, was replaced under
  a changed overlay, or belongs to an attempt still under way (`Kept`), and rejected content
  outside a reservation is behind a refused completion, put late, or has a request that will
  remove it (`Cleaned`). These two carry "once all requests are through" across steps in which
  they are not.

`TypeOK` of the five modules that have a `TypeCorrect` is proved and therefore in no run; the
types of the services' variables are the first conjuncts of their invariants.

*Only model-checked*, because the prover does not do it: liveness (`EveryRecordDelivered`,
`EveryRunEnds`, `EveryCommandEnds`, `QueueDrains`), which needs fairness and ENABLED.

## 6. Findings

1. `automation_duplicate_effect`: the consumer checks whether a run's action was applied
   and then reads the target's version in a second read
   (`automation-run-consumer.ts:174`). A drain that outlasted its lease applies the
   action between the two; if a user then changes the target, the second drain applies it
   again over the user's change. The blueprint says there is no duplicate effect.
   `NoBlindReapply` is what does hold.
2. `documents_deleted_name`: the name of a deleted document counts as available
   (`document-command-policy.ts:104`), but create expects version 0 of a stream that is
   not empty, and the conflict is not recognised as a naming conflict. A series that
   reaches such a name is stuck until the counter is moved. The docs say such names are
   skipped.
3. `patches_order`: apply checks the registry order once and then claims patch by patch
   (`data-patch-runner.ts:93`). A rollback of an earlier patch, planned while the later
   one has no row, passes its own check, and the later patch runs while the earlier one is
   being rolled back. `AppliesInOrder` is what does hold.

4. `files_delete`: a completion reads the file as pending and executes much later, without an
   expected version (`file-service.ts:604`). A delete that commits its request in between is
   overwritten with "available", removes the object, and fails to remove the document. The
   tests say that metadata and content are deleted together.
5. `rebuild_active`: a commit writes the table its store was made with, and followers skip the
   active target (`projection-targets.ts:333`, `:268`). After a promotion no commit writes the
   table that reads are answered from. The comment above says the active projection is written
   in the commit's batch.
6. `emails_once`: `append` reads the version anew after the delivery decided to claim
   (`email-notification-service.ts:323`), so two deliveries that read the message as queued
   both claim and both send it. A test is named for the opposite; it makes both appends start
   from the same second read. `MailsAccounted` is what does hold.

Stated here because no property covers them:
- An advance checks its target when it starts. If the target is promoted before it writes, it
  writes rows of the active table, older ones included, although the comment at
  `projection-rebuild-service.ts:65` says it never does. `PromotedIsCurrent` is about the
  swap itself; `ActiveIsCurrent` leaves such a run aside (`raced`).
- A login whose rehash loses a race returns the account as it read it, so its session may be
  dead at once. `docs/passwords.md:60` says: "A failed upgrade never fails the login. The old
  hash still verifies, so a storage error or a concurrent write just means the account tries
  again next time." The login itself indeed succeeds; the session it returns does not last.
  `SessionsExact` shows that no session outlives a change.
- A rendition whose overlay changed is made again under a new key and its entry replaced
  (`tests/application/file-service.test.ts:1844`); nothing removes the old object, and a later
  deletion of the file only removes the one its manifest names. `RenditionsOwned` shows that
  this is the only way to leave one behind without a fault.
- Rejected content is removed after the `failScan` command (`file-service.ts:732`). When another
  request's commit makes that command fail, the object stays. If the file still exists it is
  `upload_completing` or `delete_requested`, and a completion or a deletion can be called again.
  If a deletion removed its object and document before R2 completed the upload, the object is
  one that no document names. `InfectedRemoved` shows that these are the only cases, and that
  rejected content is never left under `scan_failed`.
- A commit that threw after D1 took it, or whose instance went before the follower write, leaves
  no row in the table being built, no error and no kept write (`projection-targets.ts:347`), so
  a `completed` run need not have the document. `docs/projection-indexes.md:337` says "`advance`
  reaching `completed` means the historical scan is finished, not that the candidate is safe to
  serve"; `PromotedIsCurrent` shows that the promotion makes up for it.
- The default idempotency key of a scheduled job (`scheduled-jobs.ts:121`) has cron, time and
  job but no schedule id: of two schedules of a tenant with the same cron and job, which may
  differ in their payload, the second message is skipped as a duplicate.
- A delivery job that finds its email claimed by another ends as done. If that other delivery
  died, nothing delivers the message when the claim has timed out.
- A claim of the outbox has no lease. Records of an invocation that died, or whose
  `markFailed` could not be appended, stay claimed. The liveness run excludes faults for
  that reason.
- Likewise a patch whose worker died stays `pending` or `rollback_pending`, and every
  later apply throws at it. `EffectsProtected` shows that at least it never runs twice.
- Automation claims do not look at `maxAttempts`: a run whose drain dies each time is
  claimed again without bound. `EveryRunEnds` holds because the faults are bounded.
- A job whose invocation dies in the handler stays `running`: the redelivery is skipped as
  a duplicate and acknowledged, and operators may only retry failed executions. An error
  of D1 in `begin` or `fail` also acknowledges the message, because a plain `Error` is
  classified as permanent. `NoSilentLoss` shows that nothing else loses a job.

## 7. Not modelled

- Job schedules: edits of two streams by compare-and-append, and a pure match of definitions
  against a cron expression. What their messages meet is JobExecution.
- In-app notifications: one compare-and-append with the retry loop that DeliveryOutbox has.
- StreamFoldSnapshots: the protocol of the document fold snapshots; codecs are left out.
- Several runs, targets or instances of a projection rebuild at once; several tenants; clock skew.
- Patterns of names (dates, fields, hash), validation, permissions, formulas: a refusal
  or a model value, because no interleaving depends on how they decide.
- Contents of messages, emails and patches: a handler or a patch's code succeeds or fails.
- In-memory adapters, Desk, HTTP, CLI, rendering, migrations: see `PROJECT.json`.

The modules stand for a small part of the repository's lines. Most of the rest renders pages,
parses requests and command lines, shapes payloads, or decides by pure functions over data
already read. None of that has states a model checker would explore, and unit tests reach it.

## 8. Plan

1. Action properties stated and proved on top of the invariants of ServicesProofs and
   SideEffectsProofs: what a step of a file request or of a rebuild may never undo.
2. A composition of DocumentCommands' commit with the outbox's enqueue, for the gap between a
   commit and its after-commit hook, and of JobExecution with EmailNotifications.
3. The aggregate coordinator and job schedules, if a property beyond their single appends
   turns up.

## 9. How to run

    tlc -config MCSideEffects.cfg MCSideEffects           # likewise each run of PROJECT.json
    tlapm DeliveryOutboxProofs.tla                        # likewise each ...Proofs module
    tlapm InductionLemmas.tla
