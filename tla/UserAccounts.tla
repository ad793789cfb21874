---------------------------- MODULE UserAccounts ----------------------------
(***************************************************************************)
(* UserAccountService for one user: the account is folded from its stream, *)
(* every command reads it, does its hashing and checking, and appends at   *)
(* the version it read.  A session is a signed cookie that holds an        *)
(* account version; resolveSessionActor accepts it while that is still the *)
(* version of the account.  Recovery tokens live in the account as         *)
(* challenges and reach the user by a notifier that may fail.              *)
(*                                                                         *)
(* A hash is the password it verifies and the cost it was made with.       *)
(* Tokens are numbers, 0 is none, and the time of an event is its sequence *)
(* number.  Payloads and patches are records of the fields they set.       *)
(***************************************************************************)
EXTENDS Integers, Sequences

CONSTANTS
  Workers,       \* the requests that may be in flight at once
  Passwords,
  RoleSets,      \* "" is none
  DefaultRoles,  \* the roles of an account that a provider creates
  Emails,        \* the addresses accounts are created with; "" is none
  Patches,       \* the fields a provider may ask to be set
  CommandBound,  \* bound: commands
  FaultBound     \* bound: appends that answer with an error

VARIABLES
  account,   \* UserAccountState
  log,       \* observer: each event of the stream, and the command it is of
  cost,      \* the hashing parameters of the deployment
  tokens,    \* how many recovery tokens were made
  mailbox,   \* the tokens that reached the user
  expired,   \* the tokens whose time has run out
  sessions,  \* the session cookies issued
  pc,        \* where each request is
  call,      \* what it holds
  commands,  \* commands so far, against CommandBound
  faults     \* against FaultBound

vars == <<account, log, cost, tokens, mailbox, expired, sessions, pc, call,
          commands, faults>>

NoHash == [password |-> "", cost |-> 0]
NoChallenge == [token |-> 0, email |-> ""]
NoPayload == [none |-> {}]

NoAccount ==
  [exists |-> FALSE, version |-> 0, email |-> "", verifiedAt |-> 0,
   roles |-> "", hash |-> NoHash, reset |-> NoChallenge,
   verification |-> NoChallenge, enabled |-> FALSE,
   linked |-> FALSE, link |-> [verifiedAt |-> 0]]

-----------------------------------------------------------------------------
(* foldUserAccountFrom.                                                    *)

Event(kind, payload, token) ==
  [kind |-> kind, payload |-> payload, token |-> token]

\* The challenges an event takes out of the account.
Disables(event) ==
  "enabled" \in DOMAIN event.payload /\ ~event.payload.enabled

Revokes(event) ==
  (IF event.kind \in {"PasswordChanged", "ResetCompleted",
                      "ResetDeliveryFailed"}
   THEN {"reset"} ELSE {})
  \cup (IF event.kind \in {"EmailVerified", "VerificationDeliveryFailed"}
        THEN {"verification"} ELSE {})
  \cup (IF event.kind # "Created" /\ Disables(event)
        THEN {"reset", "verification"} ELSE {})

\* `old` with the fields that `new` sets.
Override(old, new) ==
  [f \in DOMAIN old \cup DOMAIN new |->
     IF f \in DOMAIN new THEN new[f] ELSE old[f]]

SetFields(old, new) ==
  [f \in DOMAIN old |-> IF f \in DOMAIN new THEN new[f] ELSE old[f]]

\* The account after one more event.
Fold(a, event) ==
  LET base == IF event.kind = "Created"
              THEN [NoAccount EXCEPT !.exists = TRUE] ELSE a
      patched == SetFields(base, event.payload)
      linked == IF event.kind \in {"Linked", "Synced"}
                THEN [patched EXCEPT !.linked = TRUE,
                                     !.link = Override(@, event.payload)]
                ELSE patched
  IN  [f \in DOMAIN a |->
         CASE f = "version" -> a.version + 1
           [] f \in Revokes(event) -> NoChallenge
           [] OTHER -> linked[f]]

-----------------------------------------------------------------------------
(* Requests.                                                               *)

Idle == [command |-> 0, op |-> "none", read |-> NoAccount, events |-> <<>>,
         password |-> "", expectedVersion |-> 0]

Go(w, label, c) ==
  /\ pc' = [pc EXCEPT ![w] = label]
  /\ call' = [call EXCEPT ![w] = c]

End(w) == Go(w, "idle", Idle)

\* A command reads the account (stateFor), passes its checks and has computed
\* the events to append.
Begin(w, op, label, events, password) ==
  /\ pc[w] = "idle"
  /\ commands < CommandBound
  /\ commands' = commands + 1
  /\ Go(w, label, [command |-> commands + 1, op |-> op, read |-> account,
                   events |-> events, password |-> password,
                   expectedVersion |-> account.version])

Plan(w, op, event) == Begin(w, op, "append", <<event>>, "")

Observed == <<cost, mailbox, expired, sessions, faults>>
Unchanging == UNCHANGED <<account, log, tokens, Observed>>

hash(password) == [password |-> password, cost |-> cost]

Create(w, password, roles, email, enabled) ==
  /\ ~account.exists
  /\ Plan(w, "change",
          Event("Created", [email |-> email, roles |-> roles,
                            hash |-> hash(password), enabled |-> enabled], 0))
  /\ Unchanging

ChangePassword(w, password) ==
  /\ account.exists
  /\ Plan(w, "change", Event("PasswordChanged", [hash |-> hash(password)], 0))
  /\ Unchanging

ChangeRoles(w, roles) ==
  /\ account.exists
  /\ account.roles # roles
  /\ Plan(w, "change", Event("RolesChanged", [roles |-> roles], 0))
  /\ Unchanging

ChangeEnabled(w, enabled) ==
  /\ account.exists
  /\ account.enabled # enabled
  /\ Plan(w, "change", Event("EnabledChanged", [enabled |-> enabled], 0))
  /\ Unchanging

-----------------------------------------------------------------------------
(* syncProvider.                                                           *)

\* The address a patch is about.
EffectiveEmail(patch) ==
  IF "email" \in DOMAIN patch THEN patch.email ELSE account.email

\* When a patch has the address verified; 0 takes the mark away.
emailVerificationPatch(patch) ==
  CASE ~patch.emailVerified -> 0
    [] account.email = EffectiveEmail(patch) /\ account.verifiedAt # 0 ->
         account.verifiedAt
    [] OTHER -> account.version + 1

ProviderPayload(patch) ==
  LET asked == DOMAIN patch \ {"emailVerified"}
      fields == IF "emailVerified" \in DOMAIN patch
                THEN asked \cup {"verifiedAt"} ELSE asked
  IN  [f \in fields |-> IF f = "verifiedAt" THEN emailVerificationPatch(patch)
                        ELSE patch[f]]

providerSyncChangesState(payload) ==
  \E f \in DOMAIN payload :
    \/ account[f] # payload[f]
    \/ f \in DOMAIN account.link => account.link[f] # payload[f]

Allowed(patch) ==
  "emailVerified" \in DOMAIN patch /\ patch.emailVerified =>
    EffectiveEmail(patch) # ""

\* A provider's account is created and linked, or linked, or brought up to date.
SyncProvider(w, patch) ==
  LET payload == ProviderPayload(patch)
      created == Override([roles |-> DefaultRoles, enabled |-> TRUE], payload)
  IN  /\ Allowed(patch)
      /\ \/ /\ ~account.exists
            /\ Begin(w, "change", "append",
                     <<Event("Created", created, 0),
                       Event("Linked", created, 0)>>, "")
         \/ /\ account.exists
            /\ ~account.linked
            /\ Plan(w, "change", Event("Linked", payload, 0))
         \/ /\ account.exists
            /\ account.linked
            /\ providerSyncChangesState(payload)
            /\ Plan(w, "change", Event("Synced", payload, 0))
      /\ Unchanging

-----------------------------------------------------------------------------
(* authenticateAccount.                                                    *)

\* Read the account and verify the password against it.
Login(w, password) ==
  /\ account.exists
  /\ account.enabled
  /\ account.hash # NoHash
  /\ account.hash.password = password
  /\ Begin(w, "login", "verified", <<>>, password)
  /\ Unchanging

\* The session cookie of a login, from the state the login returns.
Issue(w, version, lost) ==
  /\ sessions' = sessions \cup {[command |-> call[w].command,
                                 read |-> call[w].read.version,
                                 version |-> version, lost |-> lost]}
  /\ End(w)

\* rehashPasswordIfStale: the hash is up to date ...
FinishLogin(w) ==
  /\ pc[w] = "verified"
  /\ call[w].read.hash.cost = cost
  /\ Issue(w, call[w].read.version, FALSE)
  /\ UNCHANGED <<account, log, cost, tokens, mailbox, expired, commands,
                 faults>>

\* ... or is made anew and appended.
Rehash(w) ==
  /\ pc[w] = "verified"
  /\ call[w].read.hash.cost # cost
  /\ Go(w, "append",
        [call[w] EXCEPT !.events =
           <<Event("Rehashed", [hash |-> hash(call[w].password)], 0)>>])
  /\ UNCHANGED <<commands>>
  /\ Unchanging

-----------------------------------------------------------------------------
(* Recovery.                                                               *)

Challenge(token) == [token |-> token, email |-> account.email]

\* A request for an account that cannot have one is answered alike and does
\* nothing.
RequestPasswordReset(w) ==
  /\ account.exists
  /\ account.enabled
  /\ account.hash # NoHash
  /\ account.email # ""
  /\ tokens' = tokens + 1
  /\ Plan(w, "request", Event("ResetRequested",
                              [reset |-> Challenge(tokens + 1)], tokens + 1))
  /\ UNCHANGED <<account, log, Observed>>

RequestEmailVerification(w) ==
  /\ account.exists
  /\ account.enabled
  /\ account.email # ""
  /\ account.verifiedAt = 0
  /\ tokens' = tokens + 1
  /\ Plan(w, "request",
          Event("VerificationRequested",
                [verification |-> Challenge(tokens + 1)], tokens + 1))
  /\ UNCHANGED <<account, log, Observed>>

\* ensureValidRecoveryChallenge, for a token from the user's mail.
Usable(challenge, token) ==
  /\ token \in mailbox
  /\ account.exists
  /\ account.enabled
  /\ challenge.token = token
  /\ token \notin expired

ResetPassword(w, token, password) ==
  /\ account.hash # NoHash
  /\ Usable(account.reset, token)
  /\ Plan(w, "change",
          Event("ResetCompleted", [hash |-> hash(password)], token))
  /\ Unchanging

VerifyEmail(w, token) ==
  /\ Usable(account.verification, token)
  /\ Plan(w, "change",
          Event("EmailVerified", [verifiedAt |-> account.version + 1], token))
  /\ Unchanging

-----------------------------------------------------------------------------
(* appendEvents.                                                           *)

Entry(w, event) == [command |-> call[w].command, event |-> event]

\* The account and the log with the events of the request.
Written(w) ==
  LET events == call[w].events
  IN  /\ account' = IF Len(events) = 1 THEN Fold(account, events[1])
                    ELSE Fold(Fold(account, events[1]), events[2])
      /\ log' = log \o [i \in 1..Len(events) |-> Entry(w, events[i])]

\* Mutant: a token that was good when it was read is good at any version.
AcceptedAnyCompletion(w) ==
  \/ account.version = call[w].expectedVersion
  \/ call[w].events[1].kind \in {"ResetCompleted", "EmailVerified"}

\* The store takes an append at the expected version only.
Accepted(w) == account.version = call[w].expectedVersion

AppendCommit(w) ==
  /\ pc[w] = "append"
  /\ Accepted(w)
  /\ Written(w)
  /\ \/ /\ call[w].op = "change"
        /\ End(w)
        /\ UNCHANGED sessions
     \/ /\ call[w].op = "login"
        /\ Issue(w, account.version + 1, FALSE)
     \/ /\ call[w].op = "request"
        /\ Go(w, "send", call[w])
        /\ UNCHANGED sessions
  /\ UNCHANGED <<cost, tokens, mailbox, expired, commands, faults>>

\* Mutant: the account is read again for the session.
AppendConflictReread(w) ==
  /\ pc[w] = "append"
  /\ ~Accepted(w)
  /\ \/ /\ call[w].op = "login"
        /\ Issue(w, account.version, FALSE)
     \/ /\ call[w].op # "login"
        /\ End(w)
        /\ UNCHANGED sessions
  /\ UNCHANGED <<account, log, cost, tokens, mailbox, expired, commands,
                 faults>>

\* Another event came first.  A login goes on with the state it has; a request
\* says that nothing was delivered; other commands fail.
AppendConflict(w) ==
  /\ pc[w] = "append"
  /\ ~Accepted(w)
  /\ \/ /\ call[w].op = "login"
        /\ Issue(w, call[w].read.version, FALSE)
     \/ /\ call[w].op # "login"
        /\ End(w)
        /\ UNCHANGED sessions
  /\ UNCHANGED <<account, log, cost, tokens, mailbox, expired, commands,
                 faults>>

\* The store fails, with or without the events in the stream.
AppendError(w) ==
  /\ pc[w] = "append"
  /\ faults < FaultBound
  /\ faults' = faults + 1
  /\ \/ UNCHANGED <<account, log>>
     \/ Accepted(w) /\ Written(w)
  /\ \/ /\ call[w].op = "login"
        /\ Issue(w, call[w].read.version, TRUE)
     \/ /\ call[w].op # "login"
        /\ End(w)
        /\ UNCHANGED sessions
  /\ UNCHANGED <<cost, tokens, mailbox, expired, commands>>

-----------------------------------------------------------------------------
(* The notifier, and the record of its failure.                            *)

TokenOf(w) == call[w].events[1].token

Send(w) ==
  /\ pc[w] = "send"
  /\ mailbox' = mailbox \cup {TokenOf(w)}
  /\ End(w)
  /\ UNCHANGED <<account, log, cost, tokens, expired, sessions, commands,
                 faults>>

FailureKind(kind) ==
  IF kind = "ResetRequested" THEN "ResetDeliveryFailed"
  ELSE "VerificationDeliveryFailed"

\* The notifier throws; the mail may be on its way all the same.
SendFails(w) ==
  /\ pc[w] = "send"
  /\ \/ UNCHANGED mailbox
     \/ mailbox' = mailbox \cup {TokenOf(w)}
  /\ Go(w, "mark",
        [call[w] EXCEPT
           !.expectedVersion = call[w].read.version + 1,
           !.events = <<Event(FailureKind(call[w].events[1].kind), NoPayload,
                              TokenOf(w))>>])
  /\ UNCHANGED <<account, log, cost, tokens, expired, sessions, commands,
                 faults>>

\* Mutant: the failure is recorded at whatever version the account has.
MarkRecoveryDeliveryFailedNow(w) ==
  /\ pc[w] = "mark"
  /\ Written(w)
  /\ End(w)
  /\ UNCHANGED <<cost, tokens, mailbox, expired, sessions, commands, faults>>

\* markRecoveryDeliveryFailed: nothing is recorded after another event.
MarkRecoveryDeliveryFailed(w) ==
  /\ pc[w] = "mark"
  /\ IF Accepted(w) THEN Written(w) ELSE UNCHANGED <<account, log>>
  /\ End(w)
  /\ UNCHANGED <<cost, tokens, mailbox, expired, sessions, commands, faults>>

-----------------------------------------------------------------------------
(* Around the requests.                                                    *)

\* An invocation that dies is one that takes no further step: nobody waits for it.

Expire(token) ==
  /\ token \notin expired
  /\ expired' = expired \cup {token}
  /\ UNCHANGED <<account, log, cost, tokens, mailbox, sessions, pc, call,
                 commands, faults>>

\* A deployment raises the cost of hashing.
RaiseCost ==
  /\ cost = 1
  /\ cost' = 2
  /\ UNCHANGED <<account, log, tokens, mailbox, expired, sessions, pc, call,
                 commands, faults>>

Init ==
  /\ account = NoAccount
  /\ log = <<>>
  /\ cost = 1
  /\ tokens = 0
  /\ mailbox = {}
  /\ expired = {}
  /\ sessions = {}
  /\ pc = [w \in Workers |-> "idle"]
  /\ call = [w \in Workers |-> Idle]
  /\ commands = 0
  /\ faults = 0

AdminCommand(w) ==
  \/ \E password \in Passwords, roles \in RoleSets, email \in Emails, enabled \in BOOLEAN :
       Create(w, password, roles, email, enabled)
  \/ \E password \in Passwords : ChangePassword(w, password)
  \/ \E roles \in RoleSets : ChangeRoles(w, roles)
  \/ \E enabled \in BOOLEAN : ChangeEnabled(w, enabled)
  \/ \E patch \in Patches : SyncProvider(w, patch)

UserCommand(w) ==
  \/ \E password \in Passwords : Login(w, password)
  \/ RequestPasswordReset(w)
  \/ RequestEmailVerification(w)
  \/ \E token \in 1..tokens :
       \/ VerifyEmail(w, token)
       \/ \E password \in Passwords : ResetPassword(w, token, password)

Step(w) ==
  \/ FinishLogin(w)
  \/ Rehash(w)
  \/ AppendCommit(w)
  \/ AppendConflict(w)
  \/ AppendError(w)
  \/ Send(w)
  \/ SendFails(w)
  \/ MarkRecoveryDeliveryFailed(w)

Next ==
  \/ \E w \in Workers : AdminCommand(w) \/ UserCommand(w) \/ Step(w)
  \/ \E token \in 1..tokens : Expire(token)
  \/ RaiseCost

Spec == Init /\ [][Next]_vars

-----------------------------------------------------------------------------
(* Properties.                                                             *)

\* ensureUserAccountSessionCurrent
SessionCurrent(s) ==
  account.exists /\ account.enabled /\ account.version = s.version

\* A session is accepted exactly while nobody has changed the account since
\* the login read it, the login's own rehash aside: never after a change of
\* password, roles or status that came in while the password was verified, and
\* always, unless the store failed the login, before there is one.
SessionsExact ==
  \A s \in sessions :
    LET untouched == \A i \in s.read + 1..Len(log) :
                       log[i].command = s.command
    IN  /\ SessionCurrent(s) => untouched
        /\ untouched /\ ~s.lost => SessionCurrent(s)

Purpose(event) ==
  IF event.kind \in {"ResetRequested", "ResetCompleted", "ResetDeliveryFailed"}
  THEN "reset" ELSE "verification"

Requests(event) == event.kind \in {"ResetRequested", "VerificationRequested"}

\* The token that was requested last for a purpose before the i-th event.
IsNewest(token, purpose, i) ==
  \E j \in 1..i - 1 :
    /\ Requests(log[j].event)
    /\ Purpose(log[j].event) = purpose
    /\ log[j].event.token = token
    /\ \A k \in j + 1..i - 1 :
         ~(Requests(log[k].event) /\ Purpose(log[k].event) = purpose)

\* A recovery token works once, and only while it is the newest of its purpose:
\* after it was used, replaced, revoked by a change of password or by a
\* disabled account, no request that checked it earlier gets through with it.
TokensSpentOnce ==
  \A i \in 1..Len(log) :
    LET event == log[i].event
        purpose == Purpose(event)
    IN  event.kind \in {"ResetCompleted", "EmailVerified"} =>
          /\ IsNewest(event.token, purpose, i)
          /\ \A j \in 1..i - 1 :
               purpose \in Revokes(log[j].event) =>
                 \E k \in j + 1..i - 1 : log[k].event.token = event.token

\* A delivery that failed takes back its own token only, however late its
\* failure is recorded: never the token of a later request.
FailureRevokesOwn ==
  \A i \in 1..Len(log) :
    LET event == log[i].event
    IN  event.kind \in {"ResetDeliveryFailed", "VerificationDeliveryFailed"} =>
          IsNewest(event.token, Purpose(event), i)

=============================================================================
