---------------------------- MODULE DocumentStore ----------------------------
(***************************************************************************)
(* The event store and the fold snapshots (src/adapters/d1/document-       *)
(* store.ts, event-store.ts, snapshot-store.ts, src/application/document-  *)
(* fold-snapshots.ts) under concurrent commands.                           *)
(*                                                                         *)
(* A document command resumes its document from a cached fold and the tail *)
(* of the stream, reads the other streams it writes (reservations), and    *)
(* commits: the version of every stream is compared in a read of its own,  *)
(* then one D1 batch inserts the events and upserts the projected rows,    *)
(* where only the unique index on (stream, sequence) can still refuse it.  *)
(* Automation runs are fresh streams of the command that fires them.  The  *)
(* same tables take the appends of services that keep no document, which   *)
(* project nothing.                                                        *)
(*                                                                         *)
(* An event is the id of its command and a folded state the sequence of    *)
(* the ids folded into it, with the version that the fold says it has.     *)
(***************************************************************************)
EXTENDS Naturals, Sequences, FiniteSetsExt

CONSTANTS
    Documents,      \* streams of documents
    Reservations,   \* streams of unique values, written along with documents
    Logs,           \* streams of services that only append
    Writers,        \* requests that run at the same time
    CommandBound,   \* how many commands are given in all
    FaultBound      \* how many calls fail or requests die in all

VARIABLES
    rows,       \* cf_frappe_events
    table,      \* cf_frappe_documents
    snapshots,  \* cf_frappe_fold_snapshots, of the documents
    writer,     \* the requests
    answers,    \* history: what was answered to each command
    given,      \* commands given so far
    faults      \* faults so far

vars == <<rows, table, snapshots, writer, answers, given, faults>>

Commands == 1..CommandBound

\* The stream of the automation run that command c fires is named c.
Runs == Commands

Streams == Documents \cup Reservations \cup Logs \cup Runs

Projected == Streams \ Logs

\* A run that is suppressed has a second event; the shorter one of a run that is
\* not behaves like any other stream's.
EventsOf(s) == IF s \in Runs THEN 2 ELSE 1

EmptyFold == [version |-> 0, log |-> <<>>]

NoSnapshot == [upto |-> 0, state |-> EmptyFold]

Idle == [pc |-> "idle", id |-> 0, entries |-> <<>>, at |-> 0,
         base |-> NoSnapshot, basis |-> [s \in Streams |-> EmptyFold]]

-----------------------------------------------------------------------------
\* The events table.

RowsOf(s) == {r \in rows : r.stream = s}

\* SELECT COALESCE(MAX(sequence), 0)
currentVersion(s) == Max({r.sequence : r \in RowsOf(s)} \cup {0})

\* The event that ORDER BY sequence gives at a place of the stream.
EventAt(s, n) == (CHOOSE r \in RowsOf(s) : r.sequence = n).id

\* readStream with a minSequence.
readStream(s, min) ==
    LET last == currentVersion(s)
    IN  [i \in 1..(IF min > last THEN 0 ELSE last + 1 - min) |-> EventAt(s, min + i - 1)]

\* foldDocumentFrom: the version is the sequence of the last event.
foldDocumentFrom(state, min, tail) ==
    [version |-> IF tail = <<>> THEN state.version ELSE min + Len(tail) - 1,
     log |-> state.log \o tail]

foldDocument(s) == foldDocumentFrom(EmptyFold, 1, readStream(s, 1))

-----------------------------------------------------------------------------
\* Commands.

Move(w, pc) == writer' = [writer EXCEPT ![w].pc = pc]

\* The request ends and its caller is told.
Tell(w, answer) ==
    /\ answers' = [answers EXCEPT ![writer[w].id] = answer]
    /\ writer' = [writer EXCEPT ![w] = Idle]

Give(w, pc, entries) ==
    /\ writer[w].pc = "idle"
    /\ given < CommandBound
    /\ given' = given + 1
    /\ writer' = [writer EXCEPT ![w] = [Idle EXCEPT !.pc = pc, !.id = given + 1,
                                                    !.entries = entries, !.at = 1]]
    /\ UNCHANGED <<rows, table, snapshots, answers, faults>>

\* documentAtomicCommitEntries: reservations, the document, the runs it fires.
DocumentEntries(d, reserved, fires) ==
    reserved \o <<d>> \o (IF fires THEN <<given + 1>> ELSE <<>>)

StartDocumentCommand(w) ==
    \E d \in Documents, fires \in BOOLEAN :
    \E reserved \in {<<>>} \cup {<<u>> : u \in Reservations} :
        Give(w, "snapshot", DocumentEntries(d, reserved, fires))

\* append and appendBatch
StartAppend(w) ==
    \E l \in Logs : \E rest \in {<<>>} \cup {<<k>> : k \in Logs \ {l}} :
        Give(w, "read", <<l>> \o rest)

\* The document that the command is about; an append has none.
DocumentOf(w) == CHOOSE d \in Documents : \E i \in DOMAIN writer[w].entries : writer[w].entries[i] = d

ReadSnapshot(w) ==
    /\ writer[w].pc = "snapshot"
    /\ writer' = [writer EXCEPT ![w].pc = "tail", ![w].base = snapshots[DocumentOf(w)]]
    /\ UNCHANGED <<rows, table, snapshots, answers, given, faults>>

\* A snapshot that cannot be read is no snapshot.
ReadSnapshotFails(w) ==
    /\ writer[w].pc = "snapshot"
    /\ faults < FaultBound
    /\ faults' = faults + 1
    /\ writer' = [writer EXCEPT ![w].pc = "tail", ![w].base = NoSnapshot]
    /\ UNCHANGED <<rows, table, snapshots, answers, given>>

\* Mutant: the last event that the snapshot has folded is read again.
TailStartInclusive(base) == IF base.upto = 0 THEN 1 ELSE base.upto

\* Inclusive lower bound of one past the snapshot.
TailStart(base) == base.upto + 1

\* DocumentFoldSnapshots.resume
Resume(w) ==
    /\ writer[w].pc = "tail"
    /\ LET min == TailStart(writer[w].base)
           d   == DocumentOf(w)
       IN  writer' = [writer EXCEPT
               ![w].pc = "read",
               ![w].basis[d] = foldDocumentFrom(writer[w].base.state, min, readStream(d, min))]
    /\ UNCHANGED <<rows, table, snapshots, answers, given, faults>>

Entry(w) == writer[w].entries[writer[w].at]

LastEntry(w) == writer[w].at = Len(writer[w].entries)

Advance(w, pc) ==
    [writer[w] EXCEPT !.pc = IF LastEntry(w) THEN pc ELSE @,
                      !.at = IF LastEntry(w) THEN 1 ELSE @ + 1]

\* The other streams are folded from their beginning; a fresh run is not read.
ReadEntry(w) ==
    /\ writer[w].pc = "read"
    /\ writer' = [writer EXCEPT ![w] =
                    IF Entry(w) \in Reservations \cup Logs
                    THEN [Advance(w, "check") EXCEPT !.basis[Entry(w)] = foldDocument(Entry(w))]
                    ELSE Advance(w, "check")]
    /\ UNCHANGED <<rows, table, snapshots, answers, given, faults>>

expectedVersion(w, s) == writer[w].basis[s].version

CheckVersion(w) ==
    /\ writer[w].pc = "check"
    /\ currentVersion(Entry(w)) = expectedVersion(w, Entry(w))
    /\ writer' = [writer EXCEPT ![w] = Advance(w, "batch")]
    /\ UNCHANGED <<rows, table, snapshots, answers, given, faults>>

VersionConflict(w) ==
    /\ writer[w].pc = "check"
    /\ currentVersion(Entry(w)) # expectedVersion(w, Entry(w))
    /\ Tell(w, "refused")
    /\ UNCHANGED <<rows, table, snapshots, given, faults>>

EntryStreams(w) == {writer[w].entries[i] : i \in DOMAIN writer[w].entries}

\* sequenceEvents
sequenceEvents(w) ==
    UNION {{[stream |-> s, sequence |-> expectedVersion(w, s) + n, id |-> writer[w].id] :
                n \in 1..EventsOf(s)} : s \in EntryStreams(w)}

\* Mutant: the events table without its unique index.
UniqueDropped(w) == FALSE

\* Some (stream, sequence) is taken: SQLite refuses the whole batch.
UniqueViolated(w) ==
    \E new \in sequenceEvents(w) : \E r \in RowsOf(new.stream) : r.sequence = new.sequence

\* The row that the command projects, from the state it has read.
Projection(w, s) ==
    [version |-> expectedVersion(w, s) + EventsOf(s),
     log |-> writer[w].basis[s].log \o [i \in 1..EventsOf(s) |-> writer[w].id]]

\* db.batch: all of the statements or none.
Insert(w) ==
    /\ ~UniqueViolated(w)
    /\ rows' = rows \cup sequenceEvents(w)
    /\ table' = [s \in Streams |->
                   IF s \in EntryStreams(w) \cap Projected THEN Projection(w, s) ELSE table[s]]

\* Only a document's commit records a snapshot.
Commits(w) == EntryStreams(w) \cap Documents # {}

CommitBatch(w) ==
    /\ writer[w].pc = "batch"
    /\ Commits(w)
    /\ Insert(w)
    /\ Move(w, "record")
    /\ UNCHANGED <<snapshots, answers, given, faults>>

AppendBatch(w) ==
    /\ writer[w].pc = "batch"
    /\ ~Commits(w)
    /\ Insert(w)
    /\ Move(w, "record")
    /\ UNCHANGED <<snapshots, answers, given, faults>>

ConstraintError(w) ==
    /\ writer[w].pc = "batch"
    /\ UniqueViolated(w)
    /\ Tell(w, "refused")
    /\ UNCHANGED <<rows, table, snapshots, given, faults>>

\* The sequence of the last event that the commit wrote to the document's stream.
uptoSequence(w) == expectedVersion(w, DocumentOf(w)) + EventsOf(DocumentOf(w))

\* DocumentFoldSnapshots.record, where the newest snapshot wins; then the answer.
RecordSnapshot(w) ==
    /\ writer[w].pc = "record"
    /\ Commits(w)
    /\ snapshots' = [snapshots EXCEPT ![DocumentOf(w)] =
                       IF uptoSequence(w) > @.upto
                       THEN [upto |-> uptoSequence(w), state |-> Projection(w, DocumentOf(w))]
                       ELSE @]
    /\ Tell(w, "stored")
    /\ UNCHANGED <<rows, table, given, faults>>

AnswerAppend(w) ==
    /\ writer[w].pc = "record"
    /\ ~Commits(w)
    /\ Tell(w, "stored")
    /\ UNCHANGED <<rows, table, snapshots, given, faults>>

-----------------------------------------------------------------------------
\* Faults.

Fault == faults < FaultBound /\ faults' = faults + 1

RecordSnapshotFails(w) ==
    /\ writer[w].pc = "record"
    /\ Commits(w)
    /\ Fault
    /\ Tell(w, "stored")
    /\ UNCHANGED <<rows, table, snapshots, given>>

\* A snapshot whose tail cannot be read, or whose state cannot be folded onto,
\* is ignored and the stream read from its beginning.
IgnoreSnapshot(w) ==
    /\ writer[w].pc = "tail"
    /\ writer[w].base # NoSnapshot
    /\ Fault
    /\ writer' = [writer EXCEPT ![w].base = NoSnapshot]
    /\ UNCHANGED <<rows, table, snapshots, answers, given>>

\* A read or the batch throws, and nothing was written.
CallFails(w) ==
    /\ \/ writer[w].pc \in {"read", "check", "batch"}
       \/ writer[w].pc = "tail" /\ writer[w].base = NoSnapshot
    /\ Fault
    /\ Tell(w, "failed")
    /\ UNCHANGED <<rows, table, snapshots, given>>

\* The batch is executed and its answer is lost.
BatchAnswerLost(w) ==
    /\ writer[w].pc = "batch"
    /\ Fault
    /\ Insert(w)
    /\ Tell(w, "failed")
    /\ UNCHANGED <<snapshots, given>>

WriterDies(w) ==
    /\ writer[w].pc # "idle"
    /\ Fault
    /\ writer' = [writer EXCEPT ![w] = Idle]
    /\ UNCHANGED <<rows, table, snapshots, answers, given>>

-----------------------------------------------------------------------------
Init ==
    /\ rows = {}
    /\ table = [s \in Streams |-> EmptyFold]
    /\ snapshots = [d \in Documents |-> NoSnapshot]
    /\ writer = [w \in Writers |-> Idle]
    /\ answers = [c \in Commands |-> "open"]
    /\ given = 0
    /\ faults = 0

Next ==
    \E w \in Writers :
        \/ StartDocumentCommand(w) \/ StartAppend(w)
        \/ ReadSnapshot(w) \/ ReadSnapshotFails(w) \/ Resume(w) \/ ReadEntry(w)
        \/ CheckVersion(w) \/ VersionConflict(w)
        \/ CommitBatch(w) \/ AppendBatch(w) \/ ConstraintError(w)
        \/ RecordSnapshot(w) \/ AnswerAppend(w)
        \/ RecordSnapshotFails(w) \/ IgnoreSnapshot(w) \/ CallFails(w) \/ BatchAnswerLost(w) \/ WriterDies(w)

Spec == Init /\ [][Next]_vars

-----------------------------------------------------------------------------
\* Properties.

\* What the first n events of a stream fold to, without any snapshot.
PrefixFold(s, n) == [version |-> n, log |-> [i \in 1..n |-> EventAt(s, i)]]

IsPrefixFold(s, state) ==
    state.version <= currentVersion(s) /\ state = PrefixFold(s, state.version)

(***************************************************************************)
(* "A snapshot may always be ignored, and ignoring it must give exactly    *)
(* the same answer as using it": every stored snapshot covers exactly the  *)
(* events it claims, and every state a command has resumed, however the    *)
(* snapshot it began with was raced by other commits, is what folding the  *)
(* stream from its beginning gives at that version.                        *)
(***************************************************************************)
CacheIgnorable ==
    /\ \A d \in Documents :
         /\ IsPrefixFold(d, snapshots[d].state)
         /\ snapshots[d].upto = snapshots[d].state.version
    /\ \A w \in Writers : \A s \in EntryStreams(w) : IsPrefixFold(s, writer[w].basis[s])

Atomic == INSTANCE AtomicStore WITH
    log <- [s \in Streams |-> readStream(s, 1)],
    view <- [s \in Streams |-> table[s].log]

(***************************************************************************)
(* Version checks, unique index and batch together are the atomic          *)
(* compare-and-append that every service relies on: the streams of a       *)
(* command grow together or not at all, the documents table is the fold of *)
(* the events at every moment, and a conflict means that nothing was, or   *)
(* will be, stored, so that the command may be tried again.                *)
(***************************************************************************)
StoreIsAtomic == Atomic!Spec
=============================================================================
