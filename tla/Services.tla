------------------------------ MODULE Services ------------------------------
(***************************************************************************)
(* Services of one deployment that share no state: the data patches, the   *)
(* store of events and documents, the rebuild of a projection, the hub of  *)
(* a realtime topic and the accounts of users.  Steps of two of them       *)
(* commute, so a behaviour in which they mix shows nothing that behaviours *)
(* of each alone do not: `service` says whose behaviour this is, and the   *)
(* others stay where they begin.                                           *)
(***************************************************************************)
EXTENDS DataPatches

CONSTANTS
    Actors,                                     \* requests, drivers or clients
    Documents, Reservations, Logs,              \* streams of the store
    DocumentBound, BatchSize, CommitBound, CallBound,
    ConnectionBound, PublishBound, RetentionLimit, BatchLimit,
    Passwords, RoleSets, DefaultRoles, Emails, AccountPatches,
    CommandBound, AccountBound, FaultBound

\* boundedPositiveInteger takes no limit below one.
ASSUME HubAssumption ==
    /\ ConnectionBound \in Nat
    /\ RetentionLimit \in Nat \ {0}
    /\ BatchLimit \in Nat \ {0}

\* The bound on commands is a number.
ASSUME CommandBoundAssumption == CommandBound \in Nat

\* SyncAuthProviderAccountCommand has no other field that an account keeps.
ASSUME PatchAssumption ==
    \A patch \in AccountPatches :
        DOMAIN patch \subseteq {"email", "roles", "enabled", "emailVerified"}

\* assertBatchSize
ASSUME RebuildAssumption ==
    /\ DocumentBound \in Nat
    /\ BatchSize \in Nat \ {0}

VARIABLES
    service,
    \* DocumentStore
    eventRows, documentRows, snapshots, writer, answers, given, storeFaults,
    \* ProjectionRebuild
    stream, table, state, barrier, failed, following, run, driver, promoter, counts, raced,
    unfollowed,
    \* RealtimeHub
    newest, replayRows, socket, presence, client,
    \* UserAccounts
    account, log, cost, tokens, mailbox, expired, sessions, request, call, commands, accountFaults

Store == INSTANCE DocumentStore WITH
    rows <- eventRows, table <- documentRows, faults <- storeFaults, Writers <- Actors

Rebuild == INSTANCE ProjectionRebuild WITH Drivers <- Actors

Hub == INSTANCE RealtimeHub WITH rows <- replayRows, Clients <- Actors

Accounts == INSTANCE UserAccounts WITH
    pc <- request, faults <- accountFaults,
    Workers <- Actors, Patches <- AccountPatches, CommandBound <- AccountBound

ServicesInit ==
    /\ service \in {"patches", "store", "rebuild", "hub", "accounts"}
    /\ Init
    /\ Store!Init
    /\ Rebuild!Init
    /\ service # "rebuild" => stream = [d \in 1..DocumentBound |-> 1]
    /\ Hub!Init
    /\ Accounts!Init

patchVars == <<journal, data, pc, todo, limit, claim, issued>>
storeVars == <<eventRows, documentRows, snapshots, writer, answers, given, storeFaults>>
rebuildVars == <<stream, table, state, barrier, failed, following, run, driver, promoter, counts, raced,
                 unfollowed>>
hubVars == <<newest, replayRows, socket, presence, client>>
accountVars == <<account, log, cost, tokens, mailbox, expired, sessions, request, call, commands, accountFaults>>

ServicesNext ==
    /\ UNCHANGED service
    /\ \/ /\ service = "patches"
          /\ Next
          /\ UNCHANGED <<storeVars, rebuildVars, hubVars, accountVars>>
       \/ /\ service = "store"
          /\ Store!Next
          /\ UNCHANGED <<patchVars, rebuildVars, hubVars, accountVars>>
       \/ /\ service = "rebuild"
          /\ Rebuild!Next
          /\ UNCHANGED <<patchVars, storeVars, hubVars, accountVars>>
       \/ /\ service = "hub"
          /\ Hub!Next
          /\ UNCHANGED <<patchVars, storeVars, rebuildVars, accountVars>>
       \/ /\ service = "accounts"
          /\ Accounts!Next
          /\ UNCHANGED <<patchVars, storeVars, rebuildVars, hubVars>>

ServicesSpec ==
    ServicesInit /\ [][ServicesNext]_<<service, patchVars, storeVars, rebuildVars, hubVars, accountVars>>

-----------------------------------------------------------------------------
\* DocumentStore: a command that resumes from a cached fold sees what the
\* stream's own events give, and every snapshot covers what it claims.
CacheIgnorable == service = "store" => Store!CacheIgnorable

\* DocumentStore: version reads, unique index and batch are one atomic
\* compare-and-append, and a refused command is never stored.
StoreIsAtomic ==
    Store!Atomic!Init /\ [][service = "store" => Store!Atomic!Next]_(Store!Atomic!vars)

\* ProjectionRebuild: a completed scan has lost no document but one whose last
\* commit left the target nothing.
CompletedCovers == service = "rebuild" => Rebuild!CompletedCovers

\* ProjectionRebuild: the swap finds the new table equal to the streams.
PromotedIsCurrent == Rebuild!PromotedIsCurrent

\* RealtimeHub: an event a client missed shows as a jump of its cursor.
LossIsVisible == service = "hub" => Hub!LossIsVisible

\* RealtimeHub: every reachable socket has been told who is connected.
PresenceTrue == service = "hub" => Hub!PresenceTrue

\* UserAccounts: a session is good exactly until somebody changes the account.
SessionsExact == service = "accounts" => Accounts!SessionsExact

\* UserAccounts: a recovery token works once and only while it is the newest.
TokensSpentOnce == service = "accounts" => Accounts!TokensSpentOnce

\* UserAccounts: a failed delivery takes back no token but its own.
FailureRevokesOwn == service = "accounts" => Accounts!FailureRevokesOwn
=============================================================================
