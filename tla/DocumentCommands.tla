-------------------------- MODULE DocumentCommands --------------------------
(***************************************************************************)
(* The commands of DocumentService on the documents of one tenant and      *)
(* DocType: create, copies, update, status changes and delete, with the    *)
(* naming series that names new documents and the unique-value             *)
(* reservations that keep their values apart, and the counter adjustment   *)
(* of NamingService.                                                       *)
(*                                                                         *)
(* A command reads the streams it needs one await at a time and commits    *)
(* everything it planned in one commitBatch, which fails unless every      *)
(* stream it writes is still at the version that was read.  A stream is    *)
(* kept as the fold of its events and its version.  A document's data is   *)
(* reduced to the unique values it claims; a deleted one claims none.      *)
(***************************************************************************)
EXTENDS Naturals, FiniteSets

CONSTANTS
  Workers,
  MaxNumber,        \* bound: the largest number the series may reach
  Keys,             \* unique values: a field and a value of it
  DataSets,         \* the sets of unique values a document can have
  AllowOnSubmit,    \* the values of fields with allowOnSubmit
  Excluded,         \* the numbers strategy.exclusions skip
  MaxAttempts,      \* strategy.maxAttempts (10000 by default)
  CommandBound      \* bound: commands

\* The name of a document is its number in the series, rendered.
Names == 1..MaxNumber
NoName == 0

ASSUME NumbersAssumption ==
  /\ MaxNumber \in Nat
  /\ MaxAttempts \in Nat \ {0}
  /\ CommandBound \in Nat
ASSUME KeysAssumption ==
  /\ DataSets \subseteq SUBSET Keys
  /\ AllowOnSubmit \subseteq Keys
  /\ Excluded \subseteq Nat

VARIABLES
  documents,     \* the document streams
  reservations,  \* the unique-value streams
  counter,       \* the naming-series stream; current is undefined at version 0
  naming,        \* the naming strategy in force
  pc,            \* what each worker does next
  command,       \* the command it executes
  adjusted,      \* observer: the values administrators gave the counter
  started        \* commands so far

vars == <<documents, reservations, counter, naming, pc, command, adjusted,
          started>>
streams == <<documents, reservations, counter>>

-----------------------------------------------------------------------------
(* Streams, folded.                                                        *)

Document(status, keys, version) ==
  [status |-> status, keys |-> keys, version |-> version]

\* requireLiveDocumentSnapshot, ensureDocumentCreateAvailable
Live(n) == documents[n].status \in {"draft", "submitted", "cancelled"}

\* activeUniqueValueOwner
Owner(key) ==
  IF reservations[key].active THEN reservations[key].owner ELSE NoName

\* uniqueReservationOwnerStillOwnsValue
StillOwns(n, key) == Live(n) /\ key \in documents[n].keys

-----------------------------------------------------------------------------
(* A command: what it is to do, and what it has read and planned so far.    *)

NoCommand ==
  [op |-> "none", name |-> NoName,
   status |-> "absent",        \* what the document is to become
   keys |-> {}, version |-> 0, \* its new values; the version it was read at
   toReserve |-> {}, reserve |-> {},   \* reservations to look at; to write
   toRelease |-> {}, release |-> {},
   seen |-> [k \in Keys |-> 0],        \* the versions they were read at
   key |-> {}, owner |-> NoName,       \* the owner being looked up
   series |-> FALSE, number |-> 0,     \* the number taken from the series
   counterVersion |-> 0, occupied |-> 0, attempts |-> 0]

Go(w, place, next) ==
  /\ pc' = [pc EXCEPT ![w] = place]
  /\ command' = [command EXCEPT ![w] = next]

\* The command returns or throws.
End(w) == Go(w, "idle", NoCommand)

\* Reservations first, then releases, then the commit.
Plan(w, next) ==
  Go(w, CASE next.toReserve # {} -> "reserve"
          [] next.toReserve = {} /\ next.toRelease # {} -> "release"
          [] OTHER -> "commit",
     next)

Reading == UNCHANGED <<streams, naming, adjusted, started>>

\* create() resolves the DocType, and with it the naming strategy, first.  In
\* a series the name must not be given.
BeginCreate(w, name, keys) ==
  LET next == [NoCommand EXCEPT !.op = "create", !.status = "draft",
                                !.keys = keys]
  IN  \/ /\ naming = "provided"
         /\ Go(w, "name", [next EXCEPT !.name = name])
      \/ /\ naming = "series"
         /\ Go(w, "counter", [next EXCEPT !.series = TRUE,
                                          !.attempts = MaxAttempts])

Init ==
  /\ documents = [n \in Names |-> Document("absent", {}, 0)]
  /\ reservations =
       [k \in Keys |-> [active |-> FALSE, owner |-> NoName, version |-> 0]]
  /\ counter = [current |-> 0, version |-> 0]
  /\ naming = "provided"
  /\ pc = [w \in Workers |-> "idle"]
  /\ command = [w \in Workers |-> NoCommand]
  /\ adjusted = {}
  /\ started = 0

-----------------------------------------------------------------------------
(* Commands arrive.                                                        *)

Starting(w) ==
  /\ pc[w] = "idle"
  /\ started < CommandBound
  /\ started' = started + 1
  /\ UNCHANGED <<streams, naming, adjusted>>

StartCreate(w, name, keys) == Starting(w) /\ BeginCreate(w, name, keys)

\* duplicate and amend read their source and then create; the copy is given
\* these values and, outside a series, this name.
StartCopy(w, op, source, name, keys) ==
  /\ Starting(w)
  /\ Go(w, "source", [NoCommand EXCEPT !.op = op, !.name = source,
                                       !.owner = name, !.keys = keys])

\* The other commands first read the document they are about; keys are the
\* unique values it is to have.
StartChange(w, op, name, keys) ==
  /\ Starting(w)
  /\ Go(w, "document",
        [NoCommand EXCEPT !.op = op, !.name = name, !.keys = keys])

\* update, and merge, which applies its merged patch as an update
StartUpdate(w, name, keys) == StartChange(w, "update", name, keys)

\* A workflow transition and a domain command change the values of a draft
\* in the same way.
StartTransition(w, name, keys) == StartChange(w, "execute", name, keys)
StartExecute(w, name, keys) == StartChange(w, "execute", name, keys)

\* comment, assign, unassign, tag, follow, share, revokeShare
StartCollaboration(w, name) == StartChange(w, "comment", name, {})

StartDelete(w, name) == StartChange(w, "delete", name, {})

StartSubmit(w, name) == StartChange(w, "submit", name, {})
StartCancel(w, name) == StartChange(w, "cancel", name, {})

\* NamingService.adjust
StartAdjust(w, current) ==
  /\ Starting(w)
  /\ naming = "series"
  /\ Go(w, "adjust", [NoCommand EXCEPT !.op = "adjust", !.number = current])

\* NamingService.save and clear
SaveNaming(strategy) ==
  /\ naming # strategy
  /\ started < CommandBound
  /\ started' = started + 1
  /\ naming' = strategy
  /\ UNCHANGED <<streams, pc, command, adjusted>>

-----------------------------------------------------------------------------
(* Names.                                                                  *)

Latest(a, b) == IF a >= b THEN a ELSE b

\* scanNamingCandidates: the numbers after `from` it may return, the first of
\* which it does.  Excluded numbers use up attempts too.
Candidates(from, attempts) ==
  {n \in Names \ Excluded : n > from /\ n - from <= attempts}

\* Mutant: the number is taken from the counter at once, not in the batch.
ReadCounterTaking(w) ==
  LET c == command[w]
      from == Latest(counter.current, c.occupied)
      candidates == Candidates(from, c.attempts)
  IN  /\ pc[w] = "counter"
      /\ \E number \in candidates :
           /\ \A m \in candidates : number <= m
           /\ Go(w, "name",
                 [c EXCEPT !.name = number, !.number = number,
                           !.counterVersion = counter.version + 1,
                           !.attempts = @ - (number - from)])
           /\ counter' = [current |-> number, version |-> counter.version + 1]
      /\ UNCHANGED <<documents, reservations, naming, adjusted, started>>

\* planNamingSeriesWrite reads the counter and takes the first candidate after
\* it and after the last number found occupied; it throws if there is none.
ReadCounter(w) ==
  LET c == command[w]
      from == Latest(counter.current, c.occupied)
      candidates == Candidates(from, c.attempts)
  IN  /\ pc[w] = "counter"
      /\ \/ candidates = {} /\ End(w)
         \/ \E number \in candidates :
              /\ \A m \in candidates : number <= m
              /\ Go(w, "name",
                    [c EXCEPT !.name = number, !.number = number,
                              !.counterVersion = counter.version,
                              !.attempts = @ - (number - from)])
      /\ Reading

\* Mutant: a retry starts over, with all its attempts and nothing occupied.
NextCandidateAfresh(w, occupied) ==
  Go(w, "counter", [command[w] EXCEPT !.occupied = 0,
                                      !.attempts = MaxAttempts,
                                      !.reserve = {},
                                      !.seen = NoCommand.seen])

\* Take the number after `occupied`, unless the attempts are used up.  What
\* was planned is planned anew.
NextCandidate(w, occupied) ==
  IF command[w].attempts > 0
  THEN Go(w, "counter", [command[w] EXCEPT !.occupied = occupied,
                                           !.reserve = {},
                                           !.seen = NoCommand.seen])
  ELSE End(w)

\* Mutant: a deleted document's stream is continued.
ReadNameReusing(w) ==
  LET c == command[w]
  IN  /\ pc[w] = "name"
      /\ ~Live(c.name)
      /\ Plan(w, [c EXCEPT !.toReserve = c.keys,
                           !.version = documents[c.name].version])
      /\ Reading

\* ensureDocumentCreateAvailable on the stream of the chosen name; a document
\* that was deleted counts as available.
ReadName(w) ==
  LET c == command[w]
  IN  /\ pc[w] = "name"
      /\ \/ /\ Live(c.name) /\ c.series
            /\ NextCandidate(w, c.number)
         \/ /\ Live(c.name) /\ ~c.series
            /\ End(w)
         \/ /\ ~Live(c.name)
            /\ Plan(w, [c EXCEPT !.toReserve = c.keys])
      /\ Reading

-----------------------------------------------------------------------------
(* The document a command is about.                                        *)

\* duplicate and amend
ReadSource(w) ==
  LET c == command[w]
  IN  /\ pc[w] = "source"
      /\ \/ /\ Live(c.name)
            /\ c.op = "amend" => documents[c.name].status = "cancelled"
            /\ BeginCreate(w, c.owner, c.keys)
         \/ /\ \/ ~Live(c.name)
               \/ c.op = "amend" /\ documents[c.name].status # "cancelled"
            /\ End(w)
      /\ Reading

ChangeOps == {"update", "execute", "submit", "cancel", "delete", "comment"}

\* ensureDocumentUpdateStatus, ensureDocumentStatus
AllowedStatuses(op) ==
  CASE op = "update" -> {"draft", "submitted"}
    [] op = "execute" -> {"draft"}
    [] op = "submit" -> {"draft"}
    [] op = "cancel" -> {"submitted"}
    [] op = "delete" -> {"draft", "cancelled"}
    [] op = "comment" -> {"draft", "submitted", "cancelled"}

\* What the document's status is after the command.
NextStatus(op, status) ==
  CASE op = "submit" -> "submitted"
    [] op = "cancel" -> "cancelled"
    [] op = "delete" -> "deleted"
    [] OTHER -> status

\* Mutant: delete does not release the values.
NextKeysKept(op, old, new) == IF op \in {"update", "execute"} THEN new ELSE old

\* The unique values it has after the command: only updates and domain
\* commands change them.
NextKeys(op, old, new) ==
  CASE op \in {"update", "execute"} -> new
    [] op = "delete" -> {}
    [] OTHER -> old

\* allowOnSubmitIssues: what a submitted document's update may touch.
UpdateAllowed(document, keys) ==
  document.status = "submitted" =>
    (document.keys \ keys) \cup (keys \ document.keys) \subseteq AllowOnSubmit

\* requireExistingFromEvents, the status checks, and the list of reservations
\* to make and to release.  A change of values looks at every value it will
\* have and releases those it drops; delete releases them all.
ReadDocument(w) ==
  LET c == command[w]
      d == documents[c.name]
      keys == NextKeys(c.op, d.keys, c.keys)
      allowed == /\ d.status \in AllowedStatuses(c.op)
                 /\ c.op = "update" => UpdateAllowed(d, c.keys)
  IN  /\ pc[w] = "document"
      /\ \/ ~allowed /\ End(w)
         \/ /\ allowed
            /\ Plan(w, [c EXCEPT
                 !.status = NextStatus(c.op, d.status),
                 !.keys = keys,
                 !.version = d.version,
                 !.toReserve = IF c.op \in {"update", "execute"} THEN keys
                                                                 ELSE {},
                 !.toRelease = d.keys \ keys])
      /\ Reading

-----------------------------------------------------------------------------
(* planUniqueValueReservationWrites, planUniqueValueReleaseWrites.         *)

\* One value after another: our own reservation stands, a free one will be
\* written, and of one that is taken the owner is read.
ReadReservation(w, key) ==
  LET c == [command[w] EXCEPT !.toReserve = @ \ {key}]
  IN  /\ pc[w] = "reserve"
      /\ key \in command[w].toReserve
      /\ \/ /\ Owner(key) = c.name
            /\ Plan(w, c)
         \/ /\ Owner(key) = NoName
            /\ Plan(w, [c EXCEPT
                 !.reserve = @ \cup {key},
                 !.seen = [@ EXCEPT ![key] = reservations[key].version]])
         \/ /\ Owner(key) \notin {c.name, NoName}
            /\ Go(w, "owner", [c EXCEPT
                 !.key = {key}, !.owner = Owner(key),
                 !.seen = [@ EXCEPT ![key] = reservations[key].version]])
      /\ Reading

\* An owner that has the value is a conflict, which is not retried; a
\* reservation its owner has given up is taken over.
ReadOwner(w, key) ==
  LET c == command[w]
  IN  /\ pc[w] = "owner"
      /\ key \in c.key
      /\ \/ StillOwns(c.owner, key) /\ End(w)
         \/ /\ ~StillOwns(c.owner, key)
            /\ Plan(w, [c EXCEPT !.reserve = @ \cup {key},
                                 !.key = {}, !.owner = NoName])
      /\ Reading

\* Mutant: a value is released whoever has it reserved.
ReadReleaseAlways(w, key) ==
  /\ pc[w] = "release"
  /\ key \in command[w].toRelease
  /\ Plan(w, [command[w] EXCEPT
       !.toRelease = @ \ {key},
       !.release = @ \cup {key},
       !.seen = [@ EXCEPT ![key] = reservations[key].version]])
  /\ Reading

ReadRelease(w, key) ==
  LET c == [command[w] EXCEPT !.toRelease = @ \ {key}]
  IN  /\ pc[w] = "release"
      /\ key \in command[w].toRelease
      /\ \/ /\ Owner(key) # c.name
            /\ Plan(w, c)
         \/ /\ Owner(key) = c.name
            /\ Plan(w, [c EXCEPT
                 !.release = @ \cup {key},
                 !.seen = [@ EXCEPT ![key] = reservations[key].version]])
      /\ Reading

-----------------------------------------------------------------------------
(* commitBatch.                                                            *)

\* Mutant: only the document's version is expected.
MatchesDocument(c) == documents[c.name].version = c.version

\* Every stream of the batch is still at the version the command read.
Matches(c) ==
  /\ c.series => counter.version = c.counterVersion
  /\ \A k \in c.reserve \cup c.release : reservations[k].version = c.seen[k]
  /\ documents[c.name].version = c.version

\* documentAtomicCommitEntries: the whole batch, or nothing.
Write(c) ==
  /\ documents' = [documents EXCEPT
       ![c.name] = Document(c.status, c.keys, c.version + 1)]
  /\ reservations' =
       [k \in Keys |->
          CASE k \in c.reserve ->
                 [active |-> TRUE, owner |-> c.name, version |-> c.seen[k] + 1]
            [] k \in c.release \ c.reserve ->
                 [reservations[k] EXCEPT !.active = FALSE,
                                         !.version = c.seen[k] + 1]
            [] OTHER -> reservations[k]]
  /\ counter' = IF c.series
                THEN [current |-> c.number, version |-> c.counterVersion + 1]
                ELSE counter

\* If the reply is lost the caller sees an error instead; the streams are the
\* same.
Commit(w) ==
  /\ pc[w] = "commit"
  /\ Matches(command[w])
  /\ Write(command[w])
  /\ End(w)
  /\ UNCHANGED <<naming, adjusted, started>>

\* A conflict: only a create in a series looks further.
CommitConflict(w) ==
  /\ pc[w] = "commit"
  /\ ~Matches(command[w])
  /\ IF command[w].series THEN Go(w, "checkCounter", command[w]) ELSE End(w)
  /\ Reading

-----------------------------------------------------------------------------
(* namingConflictDisposition: the counter first, then the name.            *)

CheckCounter(w) ==
  LET c == command[w]
  IN  /\ pc[w] = "checkCounter"
      /\ \/ /\ counter.version # c.counterVersion
            /\ NextCandidate(w, c.occupied)
         \/ /\ counter.version = c.counterVersion
            /\ Go(w, "checkName", c)
      /\ Reading

CheckName(w) ==
  LET c == command[w]
  IN  /\ pc[w] = "checkName"
      /\ \/ Live(c.name) /\ NextCandidate(w, c.number)
         \/ ~Live(c.name) /\ End(w)
      /\ Reading

-----------------------------------------------------------------------------
(* NamingService.adjust.                                                   *)

\* Mutant: the counter may be put back.
ReadAdjustAnywhere(w) ==
  /\ pc[w] = "adjust"
  /\ Go(w, "commitAdjust", [command[w] EXCEPT !.counterVersion = counter.version])
  /\ Reading

\* The counter only moves forward; nothing is written if it is there already.
ReadAdjust(w) ==
  LET c == command[w]
      ahead == counter.version > 0 => c.number > counter.current
  IN  /\ pc[w] = "adjust"
      /\ \/ ~ahead /\ End(w)
         \/ /\ ahead
            /\ Go(w, "commitAdjust",
                  [c EXCEPT !.counterVersion = counter.version])
      /\ Reading

CommitAdjust(w) ==
  LET c == command[w]
  IN  /\ pc[w] = "commitAdjust"
      /\ \/ /\ counter.version = c.counterVersion
            /\ counter' = [current |-> c.number, version |-> c.counterVersion + 1]
            /\ adjusted' = adjusted \cup {c.number}
         \/ /\ counter.version # c.counterVersion
            /\ UNCHANGED <<counter, adjusted>>
      /\ End(w)
      /\ UNCHANGED <<documents, reservations, naming, started>>

-----------------------------------------------------------------------------
\* A permission, validation or expected-version check fails, a hook throws, or
\* the isolate stops: the command ends where it is.
Refuse(w) ==
  /\ pc[w] # "idle"
  /\ End(w)
  /\ Reading

Start(w) ==
  \/ \E name \in Names, keys \in DataSets :
       \/ StartCreate(w, name, keys)
       \/ StartUpdate(w, name, keys)
       \/ StartTransition(w, name, keys)
       \/ StartExecute(w, name, keys)
       \/ \E op \in {"duplicate", "amend"}, source \in Names :
            StartCopy(w, op, source, name, keys)
  \/ \E name \in Names :
       \/ StartCollaboration(w, name)
       \/ StartDelete(w, name)
       \/ StartSubmit(w, name)
       \/ StartCancel(w, name)
  \/ \E current \in 0..MaxNumber : StartAdjust(w, current)

Step(w) ==
  \/ ReadCounter(w) \/ ReadName(w) \/ ReadSource(w) \/ ReadDocument(w)
  \/ \E key \in Keys : ReadReservation(w, key) \/ ReadOwner(w, key)
                       \/ ReadRelease(w, key)
  \/ Commit(w) \/ CommitConflict(w) \/ CheckCounter(w) \/ CheckName(w)
  \/ ReadAdjust(w) \/ CommitAdjust(w)

Next ==
  \/ \E w \in Workers : Start(w) \/ Step(w) \/ Refuse(w)
  \/ \E strategy \in {"provided", "series"} : SaveNaming(strategy)

Spec == Init /\ [][Next]_vars

\* An await is eventually answered.
FairSpec == Spec /\ \A w \in Workers : WF_vars(Step(w))

-----------------------------------------------------------------------------
(* Types.                                                                  *)

Statuses == {"absent", "draft", "submitted", "cancelled", "deleted"}
Ops == {"none", "create", "duplicate", "amend", "update", "execute", "submit",
        "cancel", "delete", "comment", "adjust"}
Places == {"idle", "counter", "name", "source", "document", "reserve",
           "owner", "release", "commit", "checkCounter", "checkName",
           "adjust", "commitAdjust"}
Numbers == Names \cup {NoName}

Documents == [status : Statuses, keys : SUBSET Keys, version : Nat]
Reservations == [active : BOOLEAN, owner : Numbers, version : Nat]
Commands ==
  [op : Ops, name : Numbers, status : Statuses, keys : SUBSET Keys,
   version : Nat, toReserve : SUBSET Keys, reserve : SUBSET Keys,
   toRelease : SUBSET Keys, release : SUBSET Keys, seen : [Keys -> Nat],
   key : SUBSET Keys, owner : Numbers, series : BOOLEAN, number : Numbers,
   counterVersion : Nat, occupied : Numbers, attempts : 0..MaxAttempts]

\* Every stream and every command in flight is well formed.
TypeOK ==
  /\ documents \in [Names -> Documents]
  /\ reservations \in [Keys -> Reservations]
  /\ counter \in [current : Numbers, version : Nat]
  /\ naming \in {"provided", "series"}
  /\ pc \in [Workers -> Places]
  /\ command \in [Workers -> Commands]
  /\ adjusted \subseteq Numbers
  /\ started \in 0..CommandBound

-----------------------------------------------------------------------------
(* Properties.                                                             *)

\* Unique fields are unique: no two live documents have the same value,
\* however the commands that gave it to them interleave
\* (planUniqueValueReservationWrites and the batch it is committed in).
UniqueValues ==
  \A m, n \in Names :
    m # n /\ Live(m) /\ Live(n) => documents[m].keys \cap documents[n].keys = {}

\* A value is reserved for a document exactly while that document is live and
\* has it: no reservation is left behind by an update or a delete, and none
\* is missing (planUniqueValueReleaseWrites).
ReservationsExact ==
  \A k \in Keys, n \in Names : Owner(k) = n <=> StillOwns(n, k)

\* The commit of c is a step of the lifecycle.
LegalChange(c) ==
  LET d == documents[c.name]
  IN  \/ c.op = "create" /\ d.status = "absent" /\ c.status = "draft"
      \/ /\ c.op \in ChangeOps
         /\ d.status \in AllowedStatuses(c.op)
         /\ c.status = NextStatus(c.op, d.status)
         /\ c.op = "delete" => c.keys = {}
         /\ c.op \in {"submit", "cancel", "comment"} => c.keys = d.keys

\* While the document is at the version c read: the change is legal, every
\* value it keeps without a reservation is its own, and every value it drops
\* is to be released.
ChangeSound(c) ==
  documents[c.name].version = c.version =>
    /\ LegalChange(c)
    /\ \A k \in c.keys \ (c.toReserve \cup c.reserve \cup c.key) :
         StillOwns(c.name, k)
    /\ \A k \in Keys \ (c.keys \cup c.toRelease \cup c.release) :
         ~StillOwns(c.name, k)

\* While a reservation is at the version c read: one to be written is free,
\* one to be released is the document's own.
ReservationsSound(c) ==
  /\ \A k \in c.reserve :
       reservations[k].version = c.seen[k] => Owner(k) = NoName
  /\ \A k \in c.release :
       reservations[k].version = c.seen[k] => Owner(k) = c.name

PlanSound(c) ==
  /\ c.name \in Names
  /\ c.version <= documents[c.name].version
  /\ \A k \in Keys : c.seen[k] <= reservations[k].version
  /\ c.toReserve \cup c.reserve \cup c.key \subseteq c.keys
  /\ c.toReserve \cap (c.reserve \cup c.key) = {}
  /\ (c.toRelease \cup c.release) \cap c.keys = {}
  /\ ChangeSound(c)
  /\ ReservationsSound(c)

\* A create that has not planned anything yet.
CreateUnplanned(c) ==
  /\ c.op = "create" /\ c.status = "draft" /\ c.version = 0
  /\ c.toReserve = {} /\ c.toRelease = {} /\ c.release = {} /\ c.key = {}

\* Only creates take a number, which is the name, and they release nothing.
SeriesCreate(c) ==
  /\ c.op = "create" /\ c.status = "draft" /\ c.version = 0
  /\ c.toRelease = {} /\ c.release = {}
  /\ c.name = c.number

\* Nothing has been planned for the document.
ChangeUnplanned(c) ==
  /\ c.op \in ChangeOps
  /\ c.name \in Names
  /\ c.toReserve = {} /\ c.reserve = {} /\ c.release = {} /\ c.key = {}
  /\ c.seen = NoCommand.seen

\* The owner being looked up had the value when the reservation was read.
OwnerSeen(c) ==
  \E k \in Keys : /\ c.key = {k}
                  /\ c.owner \in Names
                  /\ reservations[k].version = c.seen[k] => Owner(k) = c.owner

\* The number taken from the series is ahead of it while the counter is at
\* the version that was read.
NumberAhead(c) ==
  /\ c.counterVersion <= counter.version
  /\ counter.version = c.counterVersion =>
       c.number > counter.current \/ counter.version = 0

CommandSound(c, place) ==
  /\ place \in {"reserve", "owner", "release", "commit"} => PlanSound(c)
  /\ place = "owner" => OwnerSeen(c)
  /\ place # "owner" => c.key = {}
  /\ place = "commit" => c.toReserve = {} /\ c.toRelease = {}
  /\ place \in {"counter", "name", "checkCounter", "checkName"} =>
       CreateUnplanned(c)
  /\ place \in {"counter", "name"} => c.reserve = {} /\ c.seen = NoCommand.seen
  /\ place = "document" => ChangeUnplanned(c)
  /\ place = "name" => c.name \in Names
  /\ place = "source" => c.owner \in Names
  /\ c.series => SeriesCreate(c)
  /\ place = "commitAdjust" => NumberAhead(c)
  /\ c.series /\ place # "counter" => NumberAhead(c)

\* What a command has planned from what it read stays right, whatever other
\* commands commit meanwhile, for as long as the versions it will expect
\* stand: the reason why one version check at the end is enough (create,
\* applyDocumentUpdate, execute, delete and commitBatch).
PlansSound == \A w \in Workers : CommandSound(command[w], pc[w])

\* "If any part fails, no number is consumed": the last number of the series
\* names a document, unless an administrator put the counter there (the
\* counter event is in the document's own batch).
NoNumberConsumed ==
  counter.current \in {0} \cup adjusted
    \/ documents[counter.current].version > 0

\* "Existing legacy names are skipped before commit": a create about to commit
\* under a number of the series, which nobody has taken meanwhile, has a name
\* with no stream yet (ensureDocumentCreateAvailable, expectedVersion 0).
TakenNamesAreSkipped ==
  \A w \in Workers :
    /\ pc[w] = "commit" /\ command[w].series
    /\ counter.version = command[w].counterVersion
    => documents[command[w].name].version = 0

\* The counter only moves forward, whether creates or administrators move it,
\* and a number is given to a document at most once.
CounterForward ==
  [][counter' # counter =>
       /\ counter'.version = counter.version + 1
       /\ counter'.current > counter.current \/ counter.version = 0]_vars

\* The documents go through the lifecycle of UniqueDocuments, one of its steps
\* for each commit that changes a status or a value.
Abstract ==
  INSTANCE UniqueDocuments WITH
    docs <- [n \in Names |-> [status |-> documents[n].status,
                              keys |-> documents[n].keys]]
Lifecycle == Abstract!Spec

\* A create in a series stops retrying, and so every command ends.
EveryCommandEnds == \A w \in Workers : pc[w] # "idle" ~> pc[w] = "idle"

=============================================================================
