----------------------- MODULE DocumentCommandsProofs -----------------------
(***************************************************************************)
(* Proofs about DocumentCommands, for every number of workers, documents,  *)
(* unique values and commands: its type invariant, the uniqueness of       *)
(* unique values and the exactness of their reservations, what the naming  *)
(* series promises, and that it implements UniqueDocuments.                *)
(*                                                                         *)
(* UniqueValues follows from ReservationsExact, which is not inductive by  *)
(* itself: a commit writes what was planned from reads of earlier states.  *)
(* PlansSound says what those reads still mean at the commit.              *)
(***************************************************************************)
EXTENDS DocumentCommands, TLAPS

\* A document has a status exactly when its stream has an event.
StreamsStart ==
  \A n \in Names : documents[n].version = 0 <=> documents[n].status = "absent"

IInv ==
  /\ TypeOK
  /\ StreamsStart
  /\ ReservationsExact
  /\ PlansSound
  /\ NoNumberConsumed

-----------------------------------------------------------------------------
(* Types.                                                                  *)

\* Document names are positive numbers.
LEMMA NamesType ==
  Names \subseteq Nat \ {0} /\ Numbers \subseteq Nat /\ NoName \in Numbers
  BY NumbersAssumption DEF Names, Numbers, NoName

\* The empty command is one.
LEMMA NoCommandType == NoCommand \in Commands
<1>1. [k \in Keys |-> 0] \in [Keys -> Nat]  OBVIOUS
<1>2. NoName \in Numbers  BY NamesType
<1>3. 0 \in Numbers  BY NamesType DEF NoName
<1>4. 0 \in 0..MaxAttempts  BY NumbersAssumption
<1> QED  BY <1>1, <1>2, <1>3, <1>4 DEF NoCommand, Commands, Ops, Statuses

\* Only worker w moves.
Moved(w) ==
  /\ pc' = [pc EXCEPT ![w] = pc'[w]]
  /\ command' = [command EXCEPT ![w] = command'[w]]

-----------------------------------------------------------------------------
(* What is sound stays sound.                                              *)

\* Streams change only by growing.
DocumentsGrow ==
  \A n \in Names : \/ documents'[n] = documents[n]
                   \/ documents'[n].version > documents[n].version
ReservationsGrow ==
  \A k \in Keys : \/ reservations'[k] = reservations[k]
                  \/ reservations'[k].version > reservations[k].version
CounterGrows == counter' = counter \/ counter'.version > counter.version

\* A worker that does not move keeps a sound plan while streams grow.
LEMMA PlanKept ==
  ASSUME TypeOK, TypeOK', DocumentsGrow, ReservationsGrow,
         NEW w \in Workers, command'[w] = command[w], PlanSound(command[w])
  PROVE  PlanSound(command[w])'
<1> DEFINE c == command[w]
<1>0. c \in Commands  BY DEF TypeOK
<1>1. c.name \in Names /\ c.version <= documents[c.name].version
  BY DEF PlanSound
<1>2. c.version \in Nat /\ documents[c.name].version \in Nat
      /\ documents'[c.name].version \in Nat
  BY <1>0, <1>1 DEF Commands, TypeOK, Documents
<1>3. c.version <= documents'[c.name].version
  BY <1>1, <1>2 DEF DocumentsGrow
<1>4. \A k \in Keys : /\ c.seen[k] \in Nat /\ reservations[k].version \in Nat
                      /\ reservations'[k].version \in Nat
  BY <1>0 DEF Commands, TypeOK, Reservations
<1>5. \A k \in Keys : c.seen[k] <= reservations[k].version
  BY DEF PlanSound
<1>6. \A k \in Keys : c.seen[k] <= reservations'[k].version
  BY <1>4, <1>5 DEF ReservationsGrow
<1>7. documents'[c.name].version = c.version =>
        documents'[c.name] = documents[c.name]
  BY <1>1, <1>2 DEF DocumentsGrow
<1>8. \A k \in Keys : reservations'[k].version = c.seen[k] =>
                        reservations'[k] = reservations[k]
  BY <1>4, <1>5 DEF ReservationsGrow
<1>9. ChangeSound(c)'
  BY <1>7, command'[w] = command[w]
     DEF PlanSound, ChangeSound, LegalChange, StillOwns, Live
<1>10. ReservationsSound(c)'
  <2>1. c.reserve \subseteq Keys /\ c.release \subseteq Keys
    BY <1>0 DEF Commands
  <2> QED  BY <2>1, <1>8, command'[w] = command[w]
              DEF PlanSound, ReservationsSound, Owner
<1> QED  BY <1>1, <1>3, <1>6, <1>9, <1>10, command'[w] = command[w]
            DEF PlanSound

\* So does everything else that is said of its command.
LEMMA SoundKept ==
  ASSUME TypeOK, TypeOK', DocumentsGrow, ReservationsGrow, CounterGrows,
         NEW w \in Workers, command'[w] = command[w], pc'[w] = pc[w],
         CommandSound(command[w], pc[w])
  PROVE  CommandSound(command[w], pc[w])'
<1> DEFINE c == command[w]
<1>0. c \in Commands  BY DEF TypeOK
<1>1. PlanSound(c) => PlanSound(c)'  BY PlanKept
<1>2. ASSUME PlanSound(c), OwnerSeen(c)  PROVE OwnerSeen(c)'
  <2>1. PICK k \in Keys :
          /\ c.key = {k} /\ c.owner \in Names
          /\ reservations[k].version = c.seen[k] => Owner(k) = c.owner
    BY <1>2 DEF OwnerSeen
  <2>2. /\ c.seen[k] \in Nat /\ reservations[k].version \in Nat
        /\ reservations'[k].version \in Nat
    BY <1>0 DEF Commands, TypeOK, Reservations
  <2>3. c.seen[k] <= reservations[k].version
    BY <1>2 DEF PlanSound
  <2>4. reservations'[k].version = c.seen[k] =>
          reservations'[k] = reservations[k]
    BY <2>2, <2>3 DEF ReservationsGrow
  <2>5. reservations'[k].version = c.seen[k] => Owner(k)' = c.owner
    BY <2>1, <2>4 DEF Owner
  <2> QED  BY <2>1, <2>5, command'[w] = command[w] DEF OwnerSeen
<1>3. NumberAhead(c) => NumberAhead(c)'
  <2>1. /\ c.counterVersion \in Nat /\ counter.version \in Nat
        /\ counter'.version \in Nat
    BY <1>0 DEF Commands, TypeOK
  <2> QED  BY <2>1, command'[w] = command[w] DEF NumberAhead, CounterGrows
<1>4. /\ CreateUnplanned(c)' = CreateUnplanned(c)
      /\ ChangeUnplanned(c)' = ChangeUnplanned(c)
      /\ SeriesCreate(c)' = SeriesCreate(c)
  BY command'[w] = command[w]
     DEF CreateUnplanned, ChangeUnplanned, SeriesCreate
<1> QED  BY <1>1, <1>2, <1>3, <1>4, command'[w] = command[w], pc'[w] = pc[w]
            DEF CommandSound

\* A step that writes no stream: the worker's new command must be sound.
LEMMA ReadStep ==
  ASSUME IInv, NEW w \in Workers, Moved(w), UNCHANGED <<streams, adjusted>>,
         naming' \in {"provided", "series"}, started' \in 0..CommandBound,
         pc'[w] \in Places, command'[w] \in Commands,
         CommandSound(command'[w], pc'[w])
  PROVE  IInv'
<1>1. TypeOK'
  BY DEF IInv, TypeOK, Moved, streams
<1>2. StreamsStart' /\ ReservationsExact' /\ NoNumberConsumed'
  BY DEF IInv, streams, StreamsStart, ReservationsExact, NoNumberConsumed,
         Owner, StillOwns, Live
<1>3. DocumentsGrow /\ ReservationsGrow /\ CounterGrows
  BY DEF streams, DocumentsGrow, ReservationsGrow, CounterGrows
<1>4. \A v \in Workers \ {w} : pc'[v] = pc[v] /\ command'[v] = command[v]
  BY DEF Moved, IInv, TypeOK
<1>5. \A v \in Workers \ {w} : CommandSound(command[v], pc[v])'
  BY <1>1, <1>3, <1>4, SoundKept DEF IInv, PlansSound
<1>6. CommandSound(command[w], pc[w])'
  BY DEF CommandSound, PlanSound, ChangeSound, LegalChange, ReservationsSound,
         OwnerSeen, NumberAhead, CreateUnplanned, ChangeUnplanned,
         SeriesCreate, Owner, StillOwns, Live, streams
<1> QED  BY <1>1, <1>2, <1>5, <1>6 DEF IInv, PlansSound

\* A step that only reads, and leaves the naming strategy alone.
Quiet == UNCHANGED <<streams, naming, adjusted>> /\ started' \in 0..CommandBound

\* Reading is quiet.
LEMMA ReadingQuiet == ASSUME IInv, Reading  PROVE Quiet
  BY DEF Reading, Quiet, IInv, TypeOK, streams

\* The empty command is sound.
LEMMA NoCommandSound == CommandSound(NoCommand, "idle")
  BY DEF CommandSound, NoCommand

\* A command may end anywhere.
LEMMA EndStep ==
  ASSUME IInv, NEW w \in Workers, End(w), Quiet
  PROVE  IInv'
<1>1. pc'[w] = "idle" /\ command'[w] = NoCommand /\ Moved(w)
  BY DEF End, Go, Moved, IInv, TypeOK
<1>2. "idle" \in Places  BY DEF Places
<1> QED  BY <1>1, <1>2, ReadStep, NoCommandType, NoCommandSound
            DEF Quiet, IInv, TypeOK

\* A step to the next read or to the commit: the plan must be sound.
LEMMA PlanStep ==
  ASSUME IInv, NEW w \in Workers, NEW next \in Commands, Plan(w, next), Quiet,
         PlanSound(next), next.key = {},
         next.series => SeriesCreate(next) /\ NumberAhead(next)
  PROVE  IInv'
<1>1. command'[w] = next /\ Moved(w)
  BY DEF Plan, Go, Moved, IInv, TypeOK
<1>2. /\ pc'[w] \in {"reserve", "release", "commit"}
      /\ pc'[w] = "commit" => next.toReserve = {} /\ next.toRelease = {}
  BY DEF Plan, Go, IInv, TypeOK
<1>3. pc'[w] \in Places  BY <1>2 DEF Places
<1>4. CommandSound(next, pc'[w])
  BY <1>2 DEF CommandSound
<1> QED  BY <1>1, <1>3, <1>4, ReadStep DEF Quiet, IInv, TypeOK

-----------------------------------------------------------------------------
(* Commands arrive.                                                        *)

\* A create begins, by itself or for a copy.
LEMMA BeginCreateStep ==
  ASSUME IInv, NEW w \in Workers, NEW name \in Names, NEW keys \in SUBSET Keys,
         BeginCreate(w, name, keys), Quiet
  PROVE  IInv'
<1> DEFINE next == [NoCommand EXCEPT !.op = "create", !.status = "draft",
                                     !.keys = keys]
           named == [next EXCEPT !.name = name]
           numbered == [next EXCEPT !.series = TRUE, !.attempts = MaxAttempts]
<1>0. MaxAttempts \in 0..MaxAttempts /\ name \in Numbers
  BY NumbersAssumption DEF Numbers
<1>1. named \in Commands /\ numbered \in Commands
  BY <1>0, NoCommandType DEF Commands, Ops, Statuses
<1>2. CommandSound(named, "name")
  BY DEF CommandSound, CreateUnplanned, NoCommand
<1>3. CommandSound(numbered, "counter")
  BY DEF CommandSound, CreateUnplanned, SeriesCreate, NoCommand, NoName
<1>4. \/ pc'[w] = "name" /\ command'[w] = named /\ Moved(w)
      \/ pc'[w] = "counter" /\ command'[w] = numbered /\ Moved(w)
  BY DEF BeginCreate, Go, Moved, IInv, TypeOK
<1>5. "name" \in Places /\ "counter" \in Places  BY DEF Places
<1> HIDE DEF named, numbered
<1> QED  BY <1>1, <1>2, <1>3, <1>4, <1>5, ReadStep DEF Quiet, IInv, TypeOK

\* Starting is quiet.
LEMMA StartingQuiet == ASSUME IInv, NEW w \in Workers, Starting(w)  PROVE Quiet
<1>1. started \in Nat /\ CommandBound \in Nat
  BY NumbersAssumption DEF IInv, TypeOK
<1> QED  BY <1>1 DEF Starting, Quiet, streams

\* duplicate and amend
LEMMA StartCopyStep ==
  ASSUME IInv, NEW w \in Workers, NEW op \in {"duplicate", "amend"},
         NEW source \in Names, NEW name \in Names, NEW keys \in SUBSET Keys,
         StartCopy(w, op, source, name, keys)
  PROVE  IInv'
<1> DEFINE next == [NoCommand EXCEPT !.op = op, !.name = source,
                                     !.owner = name, !.keys = keys]
<1>1. next \in Commands
  BY NoCommandType DEF Commands, Ops, Numbers
<1>2. CommandSound(next, "source")
  BY DEF CommandSound, NoCommand
<1>3. pc'[w] = "source" /\ command'[w] = next /\ Moved(w)
  BY DEF StartCopy, Go, Moved, IInv, TypeOK
<1>4. "source" \in Places  BY DEF Places
<1>5. Quiet  BY StartingQuiet DEF StartCopy
<1> HIDE DEF next
<1> QED  BY <1>1, <1>2, <1>3, <1>4, <1>5, ReadStep DEF Quiet, IInv, TypeOK

\* update, execute, submit, cancel, delete and comment
LEMMA StartChangeStep ==
  ASSUME IInv, NEW w \in Workers, NEW op \in ChangeOps,
         NEW name \in Names, NEW keys \in SUBSET Keys,
         StartChange(w, op, name, keys)
  PROVE  IInv'
<1> DEFINE next == [NoCommand EXCEPT !.op = op, !.name = name, !.keys = keys]
<1>1. next \in Commands
  BY NoCommandType DEF Commands, Ops, ChangeOps, Numbers
<1>2. CommandSound(next, "document")
  BY DEF CommandSound, ChangeUnplanned, NoCommand
<1>3. pc'[w] = "document" /\ command'[w] = next /\ Moved(w)
  BY DEF StartChange, Go, Moved, IInv, TypeOK
<1>4. "document" \in Places  BY DEF Places
<1>5. Quiet  BY StartingQuiet DEF StartChange
<1> HIDE DEF next
<1> QED  BY <1>1, <1>2, <1>3, <1>4, <1>5, ReadStep DEF Quiet, IInv, TypeOK

\* adjust
LEMMA StartAdjustStep ==
  ASSUME IInv, NEW w \in Workers, NEW current \in 0..MaxNumber,
         StartAdjust(w, current)
  PROVE  IInv'
<1> DEFINE next == [NoCommand EXCEPT !.op = "adjust", !.number = current]
<1>0. current \in Numbers  BY NumbersAssumption DEF Numbers, Names, NoName
<1>1. next \in Commands
  BY <1>0, NoCommandType DEF Commands, Ops
<1>2. CommandSound(next, "adjust")
  BY DEF CommandSound, NoCommand
<1>3. pc'[w] = "adjust" /\ command'[w] = next /\ Moved(w)
  BY DEF StartAdjust, Go, Moved, IInv, TypeOK
<1>4. "adjust" \in Places  BY DEF Places
<1>5. Quiet  BY StartingQuiet DEF StartAdjust
<1> HIDE DEF next
<1> QED  BY <1>1, <1>2, <1>3, <1>4, <1>5, ReadStep DEF Quiet, IInv, TypeOK

\* Any command may arrive.
LEMMA StartStep == ASSUME IInv, NEW w \in Workers, Start(w)  PROVE IInv'
<1>1. \A keys \in DataSets : keys \in SUBSET Keys  BY KeysAssumption
<1>2. ASSUME NEW name \in Names, NEW keys \in DataSets,
             StartCreate(w, name, keys)
      PROVE  IInv'
  BY <1>1, <1>2, BeginCreateStep, StartingQuiet DEF StartCreate
<1>3. ASSUME NEW name \in Names, NEW keys \in DataSets,
             \/ StartUpdate(w, name, keys)
             \/ StartTransition(w, name, keys)
             \/ StartExecute(w, name, keys)
      PROVE  IInv'
  BY <1>1, <1>3, StartChangeStep
     DEF StartUpdate, StartTransition, StartExecute, ChangeOps
<1>4. ASSUME NEW name \in Names, NEW keys \in DataSets,
             NEW op \in {"duplicate", "amend"}, NEW source \in Names,
             StartCopy(w, op, source, name, keys)
      PROVE  IInv'
  BY <1>1, <1>4, StartCopyStep
<1>5. ASSUME NEW name \in Names,
             \/ StartCollaboration(w, name)
             \/ StartDelete(w, name)
             \/ StartSubmit(w, name)
             \/ StartCancel(w, name)
      PROVE  IInv'
  BY <1>5, StartChangeStep
     DEF StartCollaboration, StartDelete, StartSubmit, StartCancel, ChangeOps
<1>6. ASSUME NEW current \in 0..MaxNumber, StartAdjust(w, current)
      PROVE  IInv'
  BY <1>6, StartAdjustStep
<1> QED  BY <1>2, <1>3, <1>4, <1>5, <1>6 DEF Start

-----------------------------------------------------------------------------
(* Names.                                                                  *)

\* What is known of the command of a worker that is not idle.
LEMMA CommandFacts ==
  ASSUME IInv, NEW w \in Workers
  PROVE  command[w] \in Commands /\ CommandSound(command[w], pc[w])
  BY DEF IInv, TypeOK, PlansSound

\* The candidate after a number found occupied.
LEMMA NextCandidateStep ==
  ASSUME IInv, NEW w \in Workers, NEW occupied \in Numbers,
         CreateUnplanned(command[w]),
         command[w].series => SeriesCreate(command[w]),
         NextCandidate(w, occupied), Quiet
  PROVE  IInv'
<1> DEFINE next == [command[w] EXCEPT !.occupied = occupied, !.reserve = {},
                                      !.seen = NoCommand.seen]
<1>0. command[w] \in Commands  BY CommandFacts
<1>1. CASE command[w].attempts > 0
  <2>0. NoCommand.seen \in [Keys -> Nat]  BY DEF NoCommand
  <2>1. next \in Commands  BY <1>0, <2>0 DEF Commands
  <2>2. CommandSound(next, "counter")
    BY <1>0 DEF CommandSound, CreateUnplanned, SeriesCreate, Commands
  <2>3. pc'[w] = "counter" /\ command'[w] = next /\ Moved(w)
    BY <1>1 DEF NextCandidate, Go, Moved, IInv, TypeOK
  <2>4. "counter" \in Places  BY DEF Places
  <2> HIDE DEF next
  <2> QED  BY <2>1, <2>2, <2>3, <2>4, ReadStep DEF Quiet, IInv, TypeOK
<1>2. CASE ~(command[w].attempts > 0)
  BY <1>2, EndStep DEF NextCandidate
<1> QED  BY <1>1, <1>2

\* A number is taken from the counter.
LEMMA ReadCounterStep ==
  ASSUME IInv, NEW w \in Workers, ReadCounter(w)
  PROVE  IInv'
<1> DEFINE c == command[w]
           from == Latest(counter.current, c.occupied)
           candidates == Candidates(from, c.attempts)
<1>0. Quiet  BY ReadingQuiet DEF ReadCounter
<1>1. CASE End(w)  BY <1>0, <1>1, EndStep
<1>2. ASSUME NEW number \in candidates,
             Go(w, "name", [c EXCEPT !.name = number, !.number = number,
                                     !.counterVersion = counter.version,
                                     !.attempts = @ - (number - from)])
      PROVE  IInv'
  <2> DEFINE next == [c EXCEPT !.name = number, !.number = number,
                               !.counterVersion = counter.version,
                               !.attempts = @ - (number - from)]
  <2>1. /\ c \in Commands /\ CommandSound(c, "counter")
        /\ counter.current \in Nat /\ counter.version \in Nat
        /\ c.occupied \in Nat /\ c.attempts \in 0..MaxAttempts
    BY CommandFacts, NamesType DEF ReadCounter, IInv, TypeOK, Commands
  <2>2. from \in Nat /\ from >= counter.current
    BY <2>1 DEF Latest
  <2>3. /\ number \in Names /\ number \in Nat
        /\ number > from /\ number - from <= c.attempts
    BY NamesType DEF Candidates
  <2>4. c.attempts - (number - from) \in 0..MaxAttempts
    BY <2>1, <2>2, <2>3, NumbersAssumption
  <2>5. next \in Commands
    BY <2>1, <2>3, <2>4 DEF Commands, Numbers
  <2>6. number > counter.current
    BY <2>1, <2>2, <2>3
  <2>7. NumberAhead(next)
    BY <2>1, <2>6 DEF NumberAhead, Commands
  <2>8. CommandSound(next, "name")
    BY <2>1, <2>3, <2>7
       DEF CommandSound, CreateUnplanned, SeriesCreate, Commands
  <2>9. pc'[w] = "name" /\ command'[w] = next /\ Moved(w)
    BY <1>2 DEF Go, Moved, IInv, TypeOK
  <2>10. "name" \in Places  BY DEF Places
  <2> HIDE DEF next
  <2> QED  BY <1>0, <2>5, <2>8, <2>9, <2>10, ReadStep DEF Quiet, IInv, TypeOK
<1> QED  BY <1>1, <1>2 DEF ReadCounter

\* The name is free, or it is not.
LEMMA ReadNameStep ==
  ASSUME IInv, NEW w \in Workers, ReadName(w)
  PROVE  IInv'
<1> DEFINE c == command[w]
           next == [c EXCEPT !.toReserve = c.keys]
<1>0. Quiet  BY ReadingQuiet DEF ReadName
<1>1. /\ c \in Commands /\ CommandSound(c, "name")
      /\ c.name \in Names /\ c.number \in Numbers
  BY CommandFacts DEF ReadName, CommandSound, Commands
<1>2. CASE NextCandidate(w, c.number)
  BY <1>0, <1>1, <1>2, NextCandidateStep DEF CommandSound
<1>3. CASE End(w)
  BY <1>0, <1>3, EndStep
<1>4. CASE ~Live(c.name) /\ Plan(w, next)
  <2>1. next \in Commands  BY <1>1 DEF Commands
  <2>2. /\ next.name = c.name /\ next.version = 0 /\ next.op = "create"
        /\ next.status = "draft" /\ next.keys = c.keys
        /\ next.toReserve = c.keys /\ next.reserve = {} /\ next.key = {}
        /\ next.toRelease = {} /\ next.release = {}
        /\ next.seen = [k \in Keys |-> 0]
    BY <1>1 DEF CommandSound, CreateUnplanned, Commands, NoCommand
  <2>3. documents[c.name].version = 0 => documents[c.name].status = "absent"
    BY <1>1 DEF IInv, StreamsStart
  <2>4. ChangeSound(next)
    BY <1>4, <2>2, <2>3 DEF ChangeSound, LegalChange, StillOwns
  <2>5. ReservationsSound(next)
    BY <2>2 DEF ReservationsSound
  <2>6. /\ documents[c.name].version \in Nat
        /\ \A k \in Keys : reservations[k].version \in Nat
    BY <1>1 DEF IInv, TypeOK, Documents, Reservations
  <2>7. PlanSound(next)
    BY <1>1, <2>2, <2>4, <2>5, <2>6 DEF PlanSound
  <2>8. next.series => SeriesCreate(next) /\ NumberAhead(next)
    BY <1>1 DEF CommandSound, SeriesCreate, NumberAhead, Commands
  <2> HIDE DEF next
  <2> QED  BY <1>0, <1>4, <2>1, <2>2, <2>7, <2>8, PlanStep
<1> QED  BY <1>2, <1>3, <1>4 DEF ReadName

\* The conflict of a create in a series is looked into.
LEMMA CheckStep ==
  ASSUME IInv, NEW w \in Workers, CheckCounter(w) \/ CheckName(w)
  PROVE  IInv'
<1> DEFINE c == command[w]
<1>0. Quiet  BY ReadingQuiet DEF CheckCounter, CheckName
<1>1. /\ c \in Commands /\ CommandSound(c, pc[w])
      /\ pc[w] \in {"checkCounter", "checkName"}
      /\ c.number \in Numbers /\ c.occupied \in Numbers
  BY CommandFacts DEF CheckCounter, CheckName, Commands
<1>2. ASSUME NEW occupied \in Numbers, NextCandidate(w, occupied)
      PROVE  IInv'
  BY <1>0, <1>1, <1>2, NextCandidateStep DEF CommandSound
<1>3. CASE End(w)
  BY <1>0, <1>3, EndStep
<1>4. CASE Go(w, "checkName", c) /\ pc[w] = "checkCounter"
  <2>1. pc'[w] = "checkName" /\ command'[w] = c /\ Moved(w)
    BY <1>4 DEF Go, Moved, IInv, TypeOK
  <2>2. CommandSound(c, "checkName")
    BY <1>1, <1>4 DEF CommandSound
  <2>3. "checkName" \in Places  BY DEF Places
  <2> QED  BY <1>0, <1>1, <2>1, <2>2, <2>3, ReadStep DEF Quiet, IInv, TypeOK
<1> QED  BY <1>1, <1>2, <1>3, <1>4 DEF CheckCounter, CheckName

-----------------------------------------------------------------------------
(* Documents.                                                              *)

\* The source of a copy.
LEMMA ReadSourceStep ==
  ASSUME IInv, NEW w \in Workers, ReadSource(w)
  PROVE  IInv'
<1> DEFINE c == command[w]
<1>0. Quiet  BY ReadingQuiet DEF ReadSource
<1>1. c.owner \in Names /\ c.keys \in SUBSET Keys
  BY CommandFacts DEF ReadSource, CommandSound, Commands
<1>2. CASE BeginCreate(w, c.owner, c.keys)
  BY <1>0, <1>1, <1>2, BeginCreateStep
<1>3. CASE End(w)
  BY <1>0, <1>3, EndStep
<1> QED  BY <1>2, <1>3 DEF ReadSource

\* The document a command changes.
LEMMA ReadDocumentStep ==
  ASSUME IInv, NEW w \in Workers, ReadDocument(w)
  PROVE  IInv'
<1> DEFINE c == command[w]
           d == documents[c.name]
           keys == NextKeys(c.op, d.keys, c.keys)
           toReserve == IF c.op \in {"update", "execute"} THEN keys ELSE {}
           next == [c EXCEPT !.status = NextStatus(c.op, d.status),
                             !.keys = keys, !.version = d.version,
                             !.toReserve = toReserve,
                             !.toRelease = d.keys \ keys]
<1>0. Quiet  BY ReadingQuiet DEF ReadDocument
<1>1. CASE End(w)
  BY <1>0, <1>1, EndStep
<1>2. CASE d.status \in AllowedStatuses(c.op) /\ Plan(w, next)
  <2>1. /\ c \in Commands /\ CommandSound(c, "document")
        /\ c.op \in ChangeOps /\ c.name \in Names
    BY CommandFacts DEF ReadDocument, CommandSound, ChangeUnplanned
  <2>2. d \in Documents  BY <2>1 DEF IInv, TypeOK
  <2>3. keys \in SUBSET Keys /\ NextStatus(c.op, d.status) \in Statuses
    BY <2>1, <2>2 DEF NextKeys, NextStatus, ChangeOps, Statuses, Documents,
                      Commands
  <2>4. next \in Commands
    BY <2>1, <2>2, <2>3 DEF Commands, Documents
  <2>5. /\ next.op = c.op /\ next.name = c.name /\ next.version = d.version
        /\ next.status = NextStatus(c.op, d.status) /\ next.keys = keys
        /\ next.toReserve = toReserve /\ next.toRelease = d.keys \ keys
        /\ next.reserve = {} /\ next.release = {} /\ next.key = {}
        /\ next.seen = [k \in Keys |-> 0]
    BY <2>1 DEF CommandSound, ChangeUnplanned, Commands, NoCommand
  <2>6. ~next.series
    BY <2>1 DEF CommandSound, SeriesCreate, ChangeOps, Commands
  <2>7. /\ c.op = "delete" => keys = {}
        /\ c.op \in {"submit", "cancel", "comment"} => keys = d.keys
    BY DEF NextKeys
  <2>8. toReserve = keys \/ keys \subseteq d.keys
    BY <2>1, <2>7 DEF ChangeOps
  <2>9. \A k \in d.keys : StillOwns(c.name, k)
    BY <1>2, <2>1 DEF StillOwns, Live, AllowedStatuses, ChangeOps
  <2>10. \A k \in Keys : StillOwns(c.name, k) => k \in d.keys
    BY DEF StillOwns
  <2> HIDE DEF next, keys, toReserve
  <2>11. LegalChange(next)
    BY <1>2, <2>1, <2>5, <2>7 DEF LegalChange
  <2>12. ChangeSound(next)
    BY <2>5, <2>8, <2>9, <2>10, <2>11 DEF ChangeSound
  <2>13. ReservationsSound(next)
    BY <2>5 DEF ReservationsSound
  <2>14. d.version \in Nat /\ \A k \in Keys : reservations[k].version \in Nat
    BY <2>2 DEF IInv, TypeOK, Documents, Reservations
  <2>15. next.toReserve \subseteq next.keys
    BY <2>5 DEF toReserve
  <2>16. PlanSound(next)
    BY <2>1, <2>5, <2>12, <2>13, <2>14, <2>15 DEF PlanSound
  <2> QED  BY <1>0, <1>2, <2>4, <2>5, <2>6, <2>16, PlanStep
<1> QED  BY <1>1, <1>2 DEF ReadDocument

-----------------------------------------------------------------------------
(* Reservations.                                                           *)

\* What is known of a command that has a plan.
LEMMA PlanFacts ==
  ASSUME IInv, NEW w \in Workers,
         pc[w] \in {"reserve", "owner", "release", "commit"}
  PROVE  /\ command[w] \in Commands
         /\ PlanSound(command[w])
         /\ pc[w] # "owner" => command[w].key = {}
         /\ command[w].series =>
              SeriesCreate(command[w]) /\ NumberAhead(command[w])
  BY CommandFacts DEF CommandSound

\* One value is looked at.
LEMMA ReadReservationStep ==
  ASSUME IInv, NEW w \in Workers, NEW key \in Keys, ReadReservation(w, key)
  PROVE  IInv'
<1> DEFINE c0 == command[w]
           c == [c0 EXCEPT !.toReserve = @ \ {key}]
           seen == [c0.seen EXCEPT ![key] = reservations[key].version]
           reserving == [c EXCEPT !.reserve = @ \cup {key},
                                  !.seen = [@ EXCEPT ![key] = reservations[key].version]]
           asking == [c EXCEPT !.key = {key}, !.owner = Owner(key),
                               !.seen = [@ EXCEPT ![key] = reservations[key].version]]
<1>0. Quiet  BY ReadingQuiet DEF ReadReservation
<1>1. /\ c0 \in Commands /\ PlanSound(c0) /\ c0.key = {}
      /\ c0.series => SeriesCreate(c0) /\ NumberAhead(c0)
      /\ key \in c0.toReserve
  BY PlanFacts DEF ReadReservation
<1>2. /\ reservations[key].version \in Nat
      /\ reservations[key].owner \in Numbers
      /\ \A k \in Keys : reservations[k].version \in Nat
      /\ Owner(key) \in Numbers
  BY NamesType DEF IInv, TypeOK, Reservations, Owner
<1>3. /\ seen \in [Keys -> Nat]
      /\ \A k \in Keys : seen[k] <= reservations[k].version
      /\ seen[key] = reservations[key].version
      /\ \A k \in Keys \ {key} : seen[k] = c0.seen[k]
  BY <1>1, <1>2 DEF Commands, PlanSound
<1>4. ASSUME NEW next \in Commands,
             next.name = c0.name, next.version = c0.version,
             next.op = c0.op, next.status = c0.status, next.keys = c0.keys,
             next.toReserve = c0.toReserve \ {key},
             next.toRelease = c0.toRelease, next.release = c0.release,
             next.series = c0.series, next.number = c0.number,
             next.counterVersion = c0.counterVersion,
             next.seen = seen \/ next.seen = c0.seen,
             \/ Owner(key) = c0.name /\ next.reserve = c0.reserve /\ next.key = {}
             \/ /\ Owner(key) = NoName /\ next.seen = seen /\ next.key = {}
                /\ next.reserve = c0.reserve \cup {key}
             \/ next.key = {key} /\ next.reserve = c0.reserve
      PROVE  /\ PlanSound(next)
             /\ next.series => SeriesCreate(next) /\ NumberAhead(next)
  <2>0. /\ key \in c0.keys /\ key \notin c0.release
        /\ c0.name \in Names
    BY <1>1 DEF PlanSound
  <2>1. LegalChange(c0) => LegalChange(next)
    BY <1>4 DEF LegalChange
  <2>2. Owner(key) = c0.name => StillOwns(c0.name, key)
    BY <2>0 DEF IInv, ReservationsExact
  <2>3. ChangeSound(next)
    BY <1>1, <1>4, <2>1, <2>2 DEF PlanSound, ChangeSound
  <2>4. /\ c0.reserve \subseteq Keys /\ c0.release \subseteq Keys
    BY <1>1 DEF Commands
  <2>5. ASSUME NEW k \in next.reserve,
               reservations[k].version = next.seen[k]
        PROVE  Owner(k) = NoName
    <3>1. CASE k \in c0.reserve /\ k # key
      BY <1>1, <1>3, <1>4, <2>4, <2>5, <3>1 DEF PlanSound, ReservationsSound
    <3>2. CASE k = key /\ next.reserve = c0.reserve \cup {key}
               /\ Owner(key) = NoName
      BY <3>2
    <3>3. key \notin c0.reserve
      BY <1>1 DEF PlanSound
    <3> QED  BY <1>4, <2>5, <3>1, <3>2, <3>3
  <2>6. ASSUME NEW k \in next.release,
               reservations[k].version = next.seen[k]
        PROVE  Owner(k) = next.name
    BY <1>1, <1>3, <1>4, <2>0, <2>4, <2>6 DEF PlanSound, ReservationsSound
  <2>7. ReservationsSound(next)
    BY <2>5, <2>6 DEF ReservationsSound
  <2>8. \A k \in Keys : next.seen[k] <= reservations[k].version
    BY <1>1, <1>3, <1>4 DEF PlanSound
  <2>9. PlanSound(next)
    BY <1>1, <1>4, <2>0, <2>3, <2>7, <2>8 DEF PlanSound
  <2> QED  BY <1>1, <1>4, <2>9 DEF SeriesCreate, NumberAhead
<1>5. CASE Owner(key) = c.name /\ Plan(w, c)
  <2>1. c \in Commands  BY <1>1 DEF Commands
  <2>2. /\ c.name = c0.name /\ c.version = c0.version
        /\ c.op = c0.op /\ c.status = c0.status /\ c.keys = c0.keys
        /\ c.toReserve = c0.toReserve \ {key}
        /\ c.toRelease = c0.toRelease /\ c.release = c0.release
        /\ c.series = c0.series /\ c.number = c0.number
        /\ c.counterVersion = c0.counterVersion
        /\ c.seen = c0.seen /\ c.reserve = c0.reserve /\ c.key = {}
    BY <1>1 DEF Commands
  <2> HIDE DEF c
  <2>3. PlanSound(c) /\ (c.series => SeriesCreate(c) /\ NumberAhead(c))
    BY <1>4, <1>5, <2>1, <2>2
  <2> QED  BY <1>0, <1>5, <2>1, <2>2, <2>3, PlanStep
<1>6. CASE Owner(key) = NoName /\ Plan(w, reserving)
  <2>1. reserving \in Commands  BY <1>1, <1>3 DEF Commands
  <2>2. /\ reserving.name = c0.name /\ reserving.version = c0.version
        /\ reserving.op = c0.op /\ reserving.status = c0.status
        /\ reserving.keys = c0.keys
        /\ reserving.toReserve = c0.toReserve \ {key}
        /\ reserving.toRelease = c0.toRelease
        /\ reserving.release = c0.release
        /\ reserving.series = c0.series /\ reserving.number = c0.number
        /\ reserving.counterVersion = c0.counterVersion
        /\ reserving.seen = seen /\ reserving.key = {}
        /\ reserving.reserve = c0.reserve \cup {key}
    BY <1>1 DEF Commands
  <2> HIDE DEF c, reserving, seen
  <2>3. /\ PlanSound(reserving)
        /\ reserving.series => SeriesCreate(reserving) /\ NumberAhead(reserving)
    BY <1>4, <1>6, <2>1, <2>2
  <2> QED  BY <1>0, <1>6, <2>1, <2>2, <2>3, PlanStep
<1>7. CASE Owner(key) \notin {c.name, NoName} /\ Go(w, "owner", asking)
  <2>1. asking \in Commands  BY <1>1, <1>2, <1>3 DEF Commands
  <2>2. /\ asking.name = c0.name /\ asking.version = c0.version
        /\ asking.op = c0.op /\ asking.status = c0.status
        /\ asking.keys = c0.keys
        /\ asking.toReserve = c0.toReserve \ {key}
        /\ asking.toRelease = c0.toRelease
        /\ asking.release = c0.release
        /\ asking.series = c0.series /\ asking.number = c0.number
        /\ asking.counterVersion = c0.counterVersion
        /\ asking.seen = seen /\ asking.key = {key}
        /\ asking.reserve = c0.reserve /\ asking.owner = Owner(key)
    BY <1>1 DEF Commands
  <2>3. Owner(key) \in Names
    BY <1>2, <1>7 DEF Numbers
  <2>4. pc'[w] = "owner" /\ command'[w] = asking /\ Moved(w)
    BY <1>7 DEF Go, Moved, IInv, TypeOK
  <2>5. "owner" \in Places  BY DEF Places
  <2> HIDE DEF c, asking, seen
  <2>6. /\ PlanSound(asking)
        /\ asking.series => SeriesCreate(asking) /\ NumberAhead(asking)
    BY <1>4, <2>1, <2>2
  <2>7. OwnerSeen(asking)
    BY <2>2, <2>3 DEF OwnerSeen
  <2>8. CommandSound(asking, "owner")
    BY <2>6, <2>7 DEF CommandSound
  <2> QED  BY <1>0, <2>1, <2>4, <2>5, <2>8, ReadStep DEF Quiet, IInv, TypeOK
<1> QED  BY <1>5, <1>6, <1>7 DEF ReadReservation

\* The owner of a value that is taken is looked up.
LEMMA ReadOwnerStep ==
  ASSUME IInv, NEW w \in Workers, NEW key \in Keys, ReadOwner(w, key)
  PROVE  IInv'
<1> DEFINE c == command[w]
           next == [c EXCEPT !.reserve = @ \cup {key}, !.key = {},
                             !.owner = NoName]
<1>0. Quiet  BY ReadingQuiet DEF ReadOwner
<1>1. /\ c \in Commands /\ PlanSound(c) /\ OwnerSeen(c)
      /\ c.series => SeriesCreate(c) /\ NumberAhead(c)
  BY CommandFacts DEF ReadOwner, CommandSound
<1>2. /\ c.key = {key} /\ c.owner \in Names
      /\ reservations[key].version = c.seen[key] => Owner(key) = c.owner
  BY <1>1 DEF ReadOwner, OwnerSeen
<1>3. CASE End(w)
  BY <1>0, <1>3, EndStep
<1>4. CASE ~StillOwns(c.owner, key) /\ Plan(w, next)
  <2>1. next \in Commands
    BY <1>1, NamesType DEF Commands
  <2>2. /\ next.name = c.name /\ next.version = c.version
        /\ next.op = c.op /\ next.status = c.status /\ next.keys = c.keys
        /\ next.toReserve = c.toReserve /\ next.toRelease = c.toRelease
        /\ next.release = c.release /\ next.series = c.series
        /\ next.number = c.number /\ next.counterVersion = c.counterVersion
        /\ next.seen = c.seen /\ next.key = {}
        /\ next.reserve = c.reserve \cup {key}
    BY <1>1 DEF Commands
  <2> HIDE DEF next
  <2>3. reservations[key].version # c.seen[key]
    BY <1>2, <1>4 DEF IInv, ReservationsExact
  <2>4. ReservationsSound(next)
    BY <1>1, <2>2, <2>3 DEF PlanSound, ReservationsSound
  <2>5. LegalChange(c) => LegalChange(next)
    BY <2>2 DEF LegalChange
  <2>6. ChangeSound(next)
    BY <1>1, <1>2, <2>2, <2>5 DEF PlanSound, ChangeSound
  <2>7. PlanSound(next)
    BY <1>1, <1>2, <2>2, <2>4, <2>6 DEF PlanSound
  <2>8. next.series => SeriesCreate(next) /\ NumberAhead(next)
    BY <1>1, <2>2 DEF SeriesCreate, NumberAhead
  <2> QED  BY <1>0, <1>4, <2>1, <2>2, <2>7, <2>8, PlanStep
<1> QED  BY <1>3, <1>4 DEF ReadOwner

\* A value that is dropped is released.
LEMMA ReadReleaseStep ==
  ASSUME IInv, NEW w \in Workers, NEW key \in Keys, ReadRelease(w, key)
  PROVE  IInv'
<1> DEFINE c0 == command[w]
           c == [c0 EXCEPT !.toRelease = @ \ {key}]
           seen == [c0.seen EXCEPT ![key] = reservations[key].version]
           releasing == [c EXCEPT !.release = @ \cup {key},
                                  !.seen = [@ EXCEPT ![key] = reservations[key].version]]
<1>0. Quiet  BY ReadingQuiet DEF ReadRelease
<1>1. /\ c0 \in Commands /\ PlanSound(c0) /\ c0.key = {}
      /\ c0.series => SeriesCreate(c0) /\ NumberAhead(c0)
      /\ key \in c0.toRelease
  BY PlanFacts DEF ReadRelease
<1>2. ~c0.series
  BY <1>1 DEF SeriesCreate
<1>3. key \notin c0.keys /\ key \notin c0.reserve /\ c0.name \in Names
  BY <1>1 DEF PlanSound
<1>4. CASE Owner(key) # c.name /\ Plan(w, c)
  <2>1. c \in Commands  BY <1>1 DEF Commands
  <2>2. /\ c.name = c0.name /\ c.version = c0.version
        /\ c.op = c0.op /\ c.status = c0.status /\ c.keys = c0.keys
        /\ c.toReserve = c0.toReserve /\ c.toRelease = c0.toRelease \ {key}
        /\ c.release = c0.release /\ c.series = c0.series
        /\ c.seen = c0.seen /\ c.key = {} /\ c.reserve = c0.reserve
    BY <1>1 DEF Commands
  <2> HIDE DEF c
  <2>3. ~StillOwns(c0.name, key)
    BY <1>3, <1>4, <2>2 DEF IInv, ReservationsExact
  <2>4. LegalChange(c0) => LegalChange(c)
    BY <2>2 DEF LegalChange
  <2>5. ChangeSound(c)
    BY <1>1, <2>2, <2>3, <2>4 DEF PlanSound, ChangeSound
  <2>6. ReservationsSound(c)
    BY <1>1, <2>2 DEF PlanSound, ReservationsSound
  <2>7. PlanSound(c)
    BY <1>1, <2>2, <2>5, <2>6 DEF PlanSound
  <2> QED  BY <1>0, <1>2, <1>4, <2>1, <2>2, <2>7, PlanStep
<1>5. CASE Owner(key) = c.name /\ Plan(w, releasing)
  <2>0. /\ \A k \in Keys : reservations[k].version \in Nat
        /\ c0.seen \in [Keys -> Nat]
        /\ c0.reserve \subseteq Keys /\ c0.release \subseteq Keys
    BY <1>1 DEF IInv, TypeOK, Reservations, Commands
  <2>1. /\ seen \in [Keys -> Nat]
        /\ \A k \in Keys : seen[k] <= reservations[k].version
        /\ \A k \in Keys \ {key} : seen[k] = c0.seen[k]
    BY <1>1, <2>0 DEF PlanSound
  <2>2. releasing \in Commands  BY <1>1, <2>1 DEF Commands
  <2>3. /\ releasing.name = c0.name /\ releasing.version = c0.version
        /\ releasing.op = c0.op /\ releasing.status = c0.status
        /\ releasing.keys = c0.keys /\ releasing.toReserve = c0.toReserve
        /\ releasing.toRelease = c0.toRelease \ {key}
        /\ releasing.release = c0.release \cup {key}
        /\ releasing.series = c0.series /\ releasing.seen = seen
        /\ releasing.key = {} /\ releasing.reserve = c0.reserve
    BY <1>1 DEF Commands
  <2>4. Owner(key) = c0.name
    BY <1>1, <1>5 DEF Commands
  <2> HIDE DEF c, releasing, seen
  <2>5. LegalChange(c0) => LegalChange(releasing)
    BY <2>3 DEF LegalChange
  <2>6. ChangeSound(releasing)
    BY <1>1, <2>3, <2>5 DEF PlanSound, ChangeSound
  <2>7. ReservationsSound(releasing)
    BY <1>1, <1>3, <2>0, <2>1, <2>3, <2>4 DEF PlanSound, ReservationsSound
  <2>8. PlanSound(releasing)
    BY <1>1, <1>3, <2>1, <2>3, <2>6, <2>7 DEF PlanSound
  <2> QED  BY <1>0, <1>2, <1>5, <2>2, <2>3, <2>8, PlanStep
<1> QED  BY <1>4, <1>5 DEF ReadRelease

-----------------------------------------------------------------------------
(* The other steps that write nothing.                                     *)

\* A commit that fails.
LEMMA CommitConflictStep ==
  ASSUME IInv, NEW w \in Workers, CommitConflict(w)
  PROVE  IInv'
<1> DEFINE c == command[w]
<1>0. Quiet  BY ReadingQuiet DEF CommitConflict
<1>1. CASE End(w)
  BY <1>0, <1>1, EndStep
<1>2. CASE c.series /\ Go(w, "checkCounter", c)
  <2>1. c \in Commands /\ CommandSound(c, "commit")
    BY CommandFacts DEF CommitConflict
  <2>2. pc'[w] = "checkCounter" /\ command'[w] = c /\ Moved(w)
    BY <1>2 DEF Go, Moved, IInv, TypeOK
  <2>3. CommandSound(c, "checkCounter")
    BY <1>2, <2>1 DEF CommandSound, SeriesCreate, CreateUnplanned
  <2>4. "checkCounter" \in Places  BY DEF Places
  <2> QED  BY <1>0, <2>1, <2>2, <2>3, <2>4, ReadStep DEF Quiet, IInv, TypeOK
<1> QED  BY <1>1, <1>2 DEF CommitConflict

\* An administrator reads the counter.
LEMMA ReadAdjustStep ==
  ASSUME IInv, NEW w \in Workers, ReadAdjust(w)
  PROVE  IInv'
<1> DEFINE c == command[w]
           next == [c EXCEPT !.counterVersion = counter.version]
<1>0. Quiet  BY ReadingQuiet DEF ReadAdjust
<1>1. CASE End(w)
  BY <1>0, <1>1, EndStep
<1>2. CASE /\ counter.version > 0 => c.number > counter.current
           /\ Go(w, "commitAdjust", next)
  <2>1. c \in Commands /\ CommandSound(c, "adjust")
    BY CommandFacts DEF ReadAdjust
  <2>2. counter.version \in Nat  BY DEF IInv, TypeOK
  <2>3. next \in Commands  BY <2>1, <2>2 DEF Commands
  <2>4. pc'[w] = "commitAdjust" /\ command'[w] = next /\ Moved(w)
    BY <1>2 DEF Go, Moved, IInv, TypeOK
  <2>5. NumberAhead(next)
    BY <1>2, <2>1, <2>2 DEF NumberAhead, Commands
  <2>6. CommandSound(next, "commitAdjust")
    BY <2>1, <2>5 DEF CommandSound, SeriesCreate, Commands
  <2>7. "commitAdjust" \in Places  BY DEF Places
  <2> HIDE DEF next
  <2> QED  BY <1>0, <2>3, <2>4, <2>6, <2>7, ReadStep DEF Quiet, IInv, TypeOK
<1> QED  BY <1>1, <1>2 DEF ReadAdjust

\* The naming strategy changes under the commands.
LEMMA SaveNamingStep ==
  ASSUME IInv, NEW strategy \in {"provided", "series"}, SaveNaming(strategy)
  PROVE  IInv'
<1>1. TypeOK'
  <2>1. started' \in 0..CommandBound
    BY NumbersAssumption DEF SaveNaming, IInv, TypeOK
  <2> QED  BY <2>1 DEF SaveNaming, IInv, TypeOK, streams
<1>2. StreamsStart' /\ ReservationsExact' /\ NoNumberConsumed'
  BY DEF SaveNaming, IInv, streams, StreamsStart, ReservationsExact,
         NoNumberConsumed, Owner, StillOwns, Live
<1>3. PlansSound'
  <2>1. DocumentsGrow /\ ReservationsGrow /\ CounterGrows
    BY DEF SaveNaming, streams, DocumentsGrow, ReservationsGrow, CounterGrows
  <2>2. \A v \in Workers : pc'[v] = pc[v] /\ command'[v] = command[v]
    BY DEF SaveNaming
  <2> QED  BY <1>1, <2>1, <2>2, SoundKept DEF IInv, PlansSound
<1> QED  BY <1>1, <1>2, <1>3 DEF IInv

-----------------------------------------------------------------------------
(* Commits.                                                                *)

\* What is known when a batch is written.
LEMMA CommitFacts ==
  ASSUME IInv, NEW w \in Workers, Commit(w)
  PROVE  LET c == command[w]
             d == documents[c.name]
         IN  /\ c \in Commands /\ c.name \in Names
             /\ d.version = c.version /\ LegalChange(c)
             /\ c.reserve \subseteq c.keys /\ c.release \cap c.keys = {}
             /\ \A k \in c.keys \ c.reserve : Owner(k) = c.name
             /\ \A k \in Keys \ (c.keys \cup c.release) : Owner(k) # c.name
             /\ \A k \in c.reserve : Owner(k) = NoName
             /\ \A k \in c.release : Owner(k) = c.name
             /\ \A k \in c.reserve \cup c.release :
                  c.seen[k] = reservations[k].version
             /\ c.series => /\ counter.version = c.counterVersion
                            /\ c.name = c.number
                            /\ c.number > counter.current \/ counter.version = 0
<1> DEFINE c == command[w]
<1>1. /\ c \in Commands /\ CommandSound(c, "commit") /\ Matches(c)
  BY CommandFacts DEF Commit
<1>2. /\ PlanSound(c) /\ c.toReserve = {} /\ c.toRelease = {} /\ c.key = {}
      /\ c.name \in Names /\ c.keys \subseteq Keys
  BY <1>1 DEF CommandSound, PlanSound, Commands
<1>3. /\ \A k \in c.keys \ c.reserve : StillOwns(c.name, k)
      /\ \A k \in Keys \ (c.keys \cup c.release) : ~StillOwns(c.name, k)
      /\ LegalChange(c)
  BY <1>1, <1>2 DEF PlanSound, ChangeSound, Matches
<1>4. /\ \A k \in c.keys \ c.reserve : Owner(k) = c.name
      /\ \A k \in Keys \ (c.keys \cup c.release) : Owner(k) # c.name
  BY <1>2, <1>3 DEF IInv, ReservationsExact
<1>5. /\ \A k \in c.reserve : Owner(k) = NoName
      /\ \A k \in c.release : Owner(k) = c.name
      /\ \A k \in c.reserve \cup c.release : c.seen[k] = reservations[k].version
  BY <1>1, <1>2 DEF PlanSound, ReservationsSound, Matches
<1>6. c.series => /\ counter.version = c.counterVersion
                  /\ c.name = c.number
                  /\ c.number > counter.current \/ counter.version = 0
  BY <1>1 DEF CommandSound, SeriesCreate, NumberAhead, Matches
<1>7. c.reserve \subseteq c.keys /\ c.release \cap c.keys = {}
  BY <1>2 DEF PlanSound
<1> QED  BY <1>1, <1>2, <1>3, <1>4, <1>5, <1>6, <1>7 DEF Matches

\* The owners of values after a batch.
LEMMA CommitOwners ==
  ASSUME IInv, NEW w \in Workers, Commit(w), NEW k \in Keys
  PROVE  Owner(k)' = IF k \in command[w].keys THEN command[w].name
                     ELSE IF Owner(k) = command[w].name THEN NoName
                     ELSE Owner(k)
<1> DEFINE c == command[w]
<1>1. /\ c.reserve \subseteq c.keys /\ c.release \cap c.keys = {}
      /\ \A j \in c.keys \ c.reserve : Owner(j) = c.name
      /\ \A j \in Keys \ (c.keys \cup c.release) : Owner(j) # c.name
      /\ \A j \in c.release : Owner(j) = c.name
  BY CommitFacts
<1>2. reservations'[k] =
        IF k \in c.reserve
        THEN [active |-> TRUE, owner |-> c.name, version |-> c.seen[k] + 1]
        ELSE IF k \in c.release
        THEN [reservations[k] EXCEPT !.active = FALSE,
                                     !.version = c.seen[k] + 1]
        ELSE reservations[k]
  BY <1>1 DEF Commit, Write
<1>3. reservations[k] \in Reservations  BY DEF IInv, TypeOK
<1>4. CASE k \in c.reserve
  BY <1>1, <1>2, <1>4 DEF Owner
<1>5. CASE k \in c.release /\ k \notin c.reserve
  <2>1. reservations'[k].active = FALSE
    BY <1>2, <1>3, <1>5 DEF Reservations
  <2>2. Owner(k)' = NoName
    BY <2>1 DEF Owner
  <2> QED  BY <1>1, <1>5, <2>2
<1>6. CASE k \notin c.release /\ k \notin c.reserve
  <2>1. Owner(k)' = Owner(k)  BY <1>2, <1>6 DEF Owner
  <2> QED  BY <1>1, <1>6, <2>1
<1> QED  BY <1>4, <1>5, <1>6

\* The documents after a batch.
LEMMA CommitDocuments ==
  ASSUME IInv, NEW w \in Workers, Commit(w)
  PROVE  LET c == command[w]
         IN  /\ documents'[c.name] = Document(c.status, c.keys, c.version + 1)
             /\ DOMAIN documents' = Names
             /\ \A n \in Names \ {c.name} : documents'[n] = documents[n]
             /\ c.status \in {"draft", "submitted", "cancelled", "deleted"}
             /\ c.status = "deleted" => c.keys = {}
<1> DEFINE c == command[w]
<1>1. /\ c.name \in Names /\ LegalChange(c)
  BY CommitFacts
<1>2. /\ c.status \in {"draft", "submitted", "cancelled", "deleted"}
      /\ c.status = "deleted" => c.keys = {}
  BY <1>1 DEF LegalChange, ChangeOps, AllowedStatuses, NextStatus
<1> QED  BY <1>1, <1>2 DEF Commit, Write, IInv, TypeOK

\* A commit preserves the invariant.
LEMMA CommitStep ==
  ASSUME IInv, NEW w \in Workers, Commit(w)
  PROVE  IInv'
<1> DEFINE c == command[w]
<1>1. /\ c \in Commands /\ c.name \in Names /\ documents[c.name].version = c.version
      /\ c.version \in Nat /\ c.keys \subseteq Keys /\ c.counterVersion \in Nat
      /\ c.number \in Numbers /\ c.seen \in [Keys -> Nat]
      /\ c.name \in Numbers /\ c.status \in Statuses
  BY CommitFacts DEF Commands
<1>2. pc' = [pc EXCEPT ![w] = "idle"] /\ command' = [command EXCEPT ![w] = NoCommand]
  BY DEF Commit, End, Go
<1>3. /\ documents'[c.name] = Document(c.status, c.keys, c.version + 1)
      /\ \A n \in Names \ {c.name} : documents'[n] = documents[n]
  BY CommitDocuments
<1>c. \/ counter' = counter
      \/ /\ counter' = [current |-> c.number, version |-> c.counterVersion + 1]
         /\ counter.version = c.counterVersion
  <2>1. CASE c.series
    BY <2>1, CommitFacts DEF Commit, Write
  <2>2. CASE ~c.series
    BY <2>2 DEF Commit, Write
  <2> QED  BY <2>1, <2>2
<1>4. TypeOK'
  <2>1. Document(c.status, c.keys, c.version + 1) \in Documents
    BY <1>1 DEF Document, Documents
  <2>2. documents' \in [Names -> Documents]
    BY <2>1, <1>1 DEF Commit, Write, IInv, TypeOK
  <2>3. ASSUME NEW k \in Keys
        PROVE  /\ [active |-> TRUE, owner |-> c.name, version |-> c.seen[k] + 1]
                    \in Reservations
               /\ [reservations[k] EXCEPT !.active = FALSE,
                                          !.version = c.seen[k] + 1]
                    \in Reservations
               /\ reservations[k] \in Reservations
    <3>1. c.seen[k] + 1 \in Nat  BY <1>1
    <3>2. reservations[k] \in Reservations  BY DEF IInv, TypeOK
    <3> QED  BY <1>1, <3>1, <3>2 DEF Reservations
  <2>4. reservations' \in [Keys -> Reservations]
    BY <2>3 DEF Commit, Write
  <2>5. counter' \in [current : Numbers, version : Nat]
    BY <1>1, <1>c DEF IInv, TypeOK
  <2>6. pc' \in [Workers -> Places] /\ command' \in [Workers -> Commands]
    BY <1>2, NoCommandType DEF IInv, TypeOK, Places
  <2> QED  BY <2>2, <2>4, <2>5, <2>6 DEF Commit, IInv, TypeOK
<1>5. StreamsStart'
  BY <1>1, <1>3, CommitDocuments DEF IInv, StreamsStart, Document
<1>6. ReservationsExact'
  <2> SUFFICES ASSUME NEW k \in Keys, NEW n \in Names
               PROVE  Owner(k)' = n <=> StillOwns(n, k)'
    BY DEF ReservationsExact
  <2>1. n # NoName  BY NamesType DEF NoName
  <2>2. Owner(k) = n <=> StillOwns(n, k)
    BY DEF IInv, ReservationsExact
  <2>3. CASE n = c.name
    <3>1. StillOwns(n, k)' <=> k \in c.keys
      BY <1>3, <2>3, CommitDocuments DEF StillOwns, Live, Document
    <3> QED  BY <2>1, <2>3, <3>1, CommitOwners
  <2>4. CASE n # c.name
    <3>1. StillOwns(n, k)' <=> StillOwns(n, k)
      BY <1>3, <2>4 DEF StillOwns, Live
    <3>2. k \in c.keys => Owner(k) # n
      BY <2>1, <2>4, CommitFacts
    <3> QED  BY <2>1, <2>2, <2>4, <3>1, <3>2, CommitOwners
  <2> QED  BY <2>3, <2>4
<1>7. NoNumberConsumed'
  <2>1. documents'[c.name].version > 0
    BY <1>1, <1>3 DEF Document
  <2>2. \A n \in Names : documents[n].version > 0 => documents'[n].version > 0
    BY <1>3, <2>1
  <2>3. CASE c.series
    BY <2>1, <2>3, CommitFacts DEF Commit, Write, NoNumberConsumed
  <2>4. CASE ~c.series
    <3>1. counter' = counter /\ adjusted' = adjusted
      BY <2>4 DEF Commit, Write
    <3>2. counter.current \in Names \cup {0}
      BY DEF IInv, TypeOK, Numbers, NoName
    <3> QED  BY <2>2, <3>1, <3>2 DEF IInv, NoNumberConsumed
  <2> QED  BY <2>3, <2>4
<1>8. DocumentsGrow /\ ReservationsGrow /\ CounterGrows
  <2>1. DocumentsGrow
    BY <1>1, <1>3 DEF DocumentsGrow, Document
  <2>2. ReservationsGrow
    <3> SUFFICES ASSUME NEW k \in Keys
                 PROVE  \/ reservations'[k] = reservations[k]
                        \/ reservations'[k].version > reservations[k].version
      BY DEF ReservationsGrow
    <3>1. reservations[k] \in Reservations /\ reservations[k].version \in Nat
      BY DEF IInv, TypeOK, Reservations
    <3>2. CASE k \in c.reserve \cup c.release
      <4>1. c.seen[k] = reservations[k].version
        BY <3>2, CommitFacts
      <4>2. reservations'[k].version = c.seen[k] + 1
        BY <3>1, <3>2 DEF Commit, Write, Reservations
      <4> QED  BY <3>1, <4>1, <4>2
    <3>3. CASE k \notin c.reserve \cup c.release
      BY <3>3 DEF Commit, Write
    <3> QED  BY <3>2, <3>3
  <2>3. CounterGrows
    BY <1>1, <1>c DEF CounterGrows
  <2> QED  BY <2>1, <2>2, <2>3
<1>9. PlansSound'
  <2>1. \A v \in Workers \ {w} : CommandSound(command[v], pc[v])'
    <3>1. \A v \in Workers \ {w} : pc'[v] = pc[v] /\ command'[v] = command[v]
      BY <1>2 DEF IInv, TypeOK
    <3> QED  BY <1>4, <1>8, <3>1, SoundKept DEF IInv, PlansSound
  <2>2. CommandSound(command[w], pc[w])'
    <3>1. pc'[w] = "idle" /\ command'[w] = NoCommand
      BY <1>2 DEF IInv, TypeOK
    <3> QED  BY <3>1 DEF CommandSound, NoCommand
  <2> QED  BY <2>1, <2>2 DEF PlansSound
<1> QED  BY <1>4, <1>5, <1>6, <1>7, <1>9 DEF IInv

\* An administrator moves the counter.
LEMMA CommitAdjustStep ==
  ASSUME IInv, NEW w \in Workers, CommitAdjust(w)
  PROVE  IInv'
<1> DEFINE c == command[w]
<1>1. /\ c \in Commands /\ NumberAhead(c)
      /\ c.number \in Numbers /\ c.counterVersion \in Nat
  BY CommandFacts DEF CommitAdjust, CommandSound, Commands
<1>2. /\ pc' = [pc EXCEPT ![w] = "idle"]
      /\ command' = [command EXCEPT ![w] = NoCommand]
  BY DEF CommitAdjust, End, Go
<1>3. /\ documents' = documents /\ reservations' = reservations
      /\ naming' = naming /\ started' = started
  BY DEF CommitAdjust
<1>4. \/ /\ counter.version = c.counterVersion
         /\ counter' = [current |-> c.number, version |-> c.counterVersion + 1]
         /\ adjusted' = adjusted \cup {c.number}
      \/ counter' = counter /\ adjusted' = adjusted
  BY DEF CommitAdjust
<1>5. TypeOK'
  <2>1. counter' \in [current : Numbers, version : Nat]
    BY <1>1, <1>4 DEF IInv, TypeOK
  <2>2. adjusted' \subseteq Numbers
    BY <1>1, <1>4 DEF IInv, TypeOK
  <2>3. pc' \in [Workers -> Places] /\ command' \in [Workers -> Commands]
    BY <1>2, NoCommandType DEF IInv, TypeOK, Places
  <2> QED  BY <1>3, <2>1, <2>2, <2>3 DEF IInv, TypeOK
<1>6. StreamsStart' /\ ReservationsExact'
  BY <1>3 DEF IInv, StreamsStart, ReservationsExact, Owner, StillOwns, Live
<1>7. NoNumberConsumed'
  BY <1>3, <1>4 DEF IInv, NoNumberConsumed
<1>8. DocumentsGrow /\ ReservationsGrow /\ CounterGrows
  <2>1. CounterGrows  BY <1>1, <1>4 DEF CounterGrows
  <2> QED  BY <1>3, <2>1 DEF DocumentsGrow, ReservationsGrow
<1>9. PlansSound'
  <2>1. \A v \in Workers \ {w} : CommandSound(command[v], pc[v])'
    <3>1. \A v \in Workers \ {w} : pc'[v] = pc[v] /\ command'[v] = command[v]
      BY <1>2 DEF IInv, TypeOK
    <3> QED  BY <1>5, <1>8, <3>1, SoundKept DEF IInv, PlansSound
  <2>2. CommandSound(command[w], pc[w])'
    <3>1. pc'[w] = "idle" /\ command'[w] = NoCommand
      BY <1>2 DEF IInv, TypeOK
    <3> QED  BY <3>1 DEF CommandSound, NoCommand
  <2> QED  BY <2>1, <2>2 DEF PlansSound
<1> QED  BY <1>5, <1>6, <1>7, <1>9 DEF IInv

-----------------------------------------------------------------------------
(* The invariant.                                                          *)

\* It holds initially.
LEMMA InitIInv == Init => IInv
<1> SUFFICES ASSUME Init  PROVE IInv
  OBVIOUS
<1>0. 0 \in Numbers /\ NoName \in Numbers
  BY NamesType DEF NoName
<1>1. TypeOK
  <2>1. documents \in [Names -> Documents]
    BY DEF Init, Document, Documents, Statuses
  <2>2. reservations \in [Keys -> Reservations]
    BY <1>0 DEF Init, Reservations
  <2>3. counter \in [current : Numbers, version : Nat]
    BY <1>0 DEF Init
  <2>4. pc \in [Workers -> Places] /\ command \in [Workers -> Commands]
    BY NoCommandType DEF Init, Places
  <2>5. started \in 0..CommandBound
    BY NumbersAssumption DEF Init
  <2> QED  BY <2>1, <2>2, <2>3, <2>4, <2>5 DEF Init, TypeOK
<1>2. StreamsStart
  BY DEF Init, StreamsStart, Document
<1>3. ReservationsExact
  BY NamesType DEF Init, ReservationsExact, Owner, StillOwns, Live, Document,
                   NoName
<1>4. NoNumberConsumed
  BY DEF Init, NoNumberConsumed
<1>5. PlansSound
  BY NoCommandSound DEF Init, PlansSound
<1> QED  BY <1>1, <1>2, <1>3, <1>4, <1>5 DEF IInv

\* Every step of a worker's command preserves it.
LEMMA WorkerStep == ASSUME IInv, NEW w \in Workers, Step(w)  PROVE IInv'
<1>1. ASSUME NEW key \in Keys, ReadReservation(w, key)  PROVE IInv'
  BY <1>1, ReadReservationStep
<1>2. ASSUME NEW key \in Keys, ReadOwner(w, key)  PROVE IInv'
  BY <1>2, ReadOwnerStep
<1>3. ASSUME NEW key \in Keys, ReadRelease(w, key)  PROVE IInv'
  BY <1>3, ReadReleaseStep
<1>4. ReadCounter(w) => IInv'  BY ReadCounterStep
<1>5. ReadName(w) => IInv'  BY ReadNameStep
<1>6. ReadSource(w) => IInv'  BY ReadSourceStep
<1>7. ReadDocument(w) => IInv'  BY ReadDocumentStep
<1>8. Commit(w) => IInv'  BY CommitStep
<1>9. CommitConflict(w) => IInv'  BY CommitConflictStep
<1>10. CheckCounter(w) \/ CheckName(w) => IInv'  BY CheckStep
<1>11. ReadAdjust(w) => IInv'  BY ReadAdjustStep
<1>12. CommitAdjust(w) => IInv'  BY CommitAdjustStep
<1> QED  BY <1>1, <1>2, <1>3, <1>4, <1>5, <1>6, <1>7, <1>8, <1>9, <1>10,
            <1>11, <1>12 DEF Step

\* So does every step of the system.
LEMMA NextIInv == IInv /\ [Next]_vars => IInv'
<1>1. ASSUME IInv, UNCHANGED vars  PROVE IInv'
  <2>1. TypeOK'  BY <1>1 DEF vars, IInv, TypeOK
  <2>2. StreamsStart' /\ ReservationsExact' /\ NoNumberConsumed'
    BY <1>1 DEF vars, IInv, StreamsStart, ReservationsExact, NoNumberConsumed,
                Owner, StillOwns, Live
  <2>3. DocumentsGrow /\ ReservationsGrow /\ CounterGrows
    BY <1>1 DEF vars, DocumentsGrow, ReservationsGrow, CounterGrows
  <2>4. \A v \in Workers : pc'[v] = pc[v] /\ command'[v] = command[v]
    BY <1>1 DEF vars
  <2>5. PlansSound'
    BY <1>1, <2>1, <2>3, <2>4, SoundKept DEF IInv, PlansSound
  <2> QED  BY <2>1, <2>2, <2>5 DEF IInv
<1>2. ASSUME IInv, NEW w \in Workers, Start(w)  PROVE IInv'
  BY <1>2, StartStep
<1>3. ASSUME IInv, NEW w \in Workers, Step(w)  PROVE IInv'
  BY <1>3, WorkerStep
<1>4. ASSUME IInv, NEW w \in Workers, Refuse(w)  PROVE IInv'
  BY <1>4, EndStep, ReadingQuiet DEF Refuse
<1>5. ASSUME IInv, NEW strategy \in {"provided", "series"},
             SaveNaming(strategy)
      PROVE  IInv'
  BY <1>5, SaveNamingStep
<1> QED  BY <1>1, <1>2, <1>3, <1>4, <1>5 DEF Next

\* The invariant holds throughout.
LEMMA IInvHolds == Spec => []IInv
  BY InitIInv, NextIInv, PTL DEF Spec

\* Every stream and every command in flight is well formed.
THEOREM TypeCorrect == Spec => []TypeOK
<1>1. IInv => TypeOK  BY DEF IInv
<1> QED  BY <1>1, IInvHolds, PTL

\* Plans stay sound while the versions they rest on stand, so that one version
\* check in commitBatch is enough.
THEOREM PlansStaySound == Spec => []PlansSound
<1>1. IInv => PlansSound  BY DEF IInv
<1> QED  BY <1>1, IInvHolds, PTL

\* A value is reserved for a document exactly while it is live and has it.
THEOREM ReservationsAreExact == Spec => []ReservationsExact
<1>1. IInv => ReservationsExact  BY DEF IInv
<1> QED  BY <1>1, IInvHolds, PTL

\* No two live documents have the same value in a unique field.
THEOREM UniqueFieldsAreUnique == Spec => []UniqueValues
<1>1. IInv => UniqueValues
  <2> SUFFICES ASSUME IInv, NEW m \in Names, NEW n \in Names, m # n,
                      Live(m), Live(n),
                      NEW k \in documents[m].keys, k \in documents[n].keys
               PROVE  FALSE
    BY DEF UniqueValues
  <2>1. k \in Keys  BY DEF IInv, TypeOK, Documents
  <2>2. Owner(k) = m /\ Owner(k) = n
    BY <2>1 DEF IInv, ReservationsExact, StillOwns
  <2> QED  BY <2>2
<1> QED  BY <1>1, IInvHolds, PTL

\* A failed create consumes no number of the series.
THEOREM NumbersNotConsumed == Spec => []NoNumberConsumed
<1>1. IInv => NoNumberConsumed  BY DEF IInv
<1> QED  BY <1>1, IInvHolds, PTL

-----------------------------------------------------------------------------
(* The counter.                                                            *)

\* What a step may do to the counter.
CounterStep ==
  counter' # counter =>
    /\ counter'.version = counter.version + 1
    /\ counter'.current > counter.current \/ counter.version = 0

\* A commit moves the counter forward.
LEMMA CommitCounter ==
  ASSUME IInv, NEW w \in Workers, Commit(w)
  PROVE  CounterStep
<1> DEFINE c == command[w]
<1>1. CASE c.series
  BY <1>1, CommitFacts DEF Commit, Write, CounterStep
<1>2. CASE ~c.series
  BY <1>2 DEF Commit, Write, CounterStep
<1> QED  BY <1>1, <1>2

\* An adjustment does, too.
LEMMA CommitAdjustCounter ==
  ASSUME IInv, NEW w \in Workers, CommitAdjust(w)
  PROVE  CounterStep
<1> DEFINE c == command[w]
<1>1. NumberAhead(c)
  BY CommandFacts DEF CommitAdjust, CommandSound
<1> QED  BY <1>1 DEF CommitAdjust, CounterStep, NumberAhead

\* Nothing but these two writes a stream.
LEMMA OnlyCommitsWrite ==
  ASSUME [Next]_vars
  PROVE  \/ \E w \in Workers : Commit(w) \/ CommitAdjust(w)
         \/ UNCHANGED streams
<1>1. ASSUME NEW w \in Workers, Start(w)  PROVE UNCHANGED streams
  <2>1. Starting(w)
    BY <1>1 DEF Start, StartCreate, StartCopy, StartUpdate, StartTransition,
                StartExecute, StartCollaboration, StartDelete, StartSubmit,
                StartCancel, StartChange, StartAdjust
  <2> QED  BY <2>1 DEF Starting
<1>2. ASSUME NEW w \in Workers, Step(w)
      PROVE  Commit(w) \/ CommitAdjust(w) \/ UNCHANGED streams
  <2>1. Reading => UNCHANGED streams
    BY DEF Reading
  <2>2. ASSUME NEW key \in Keys
        PROVE  ReadReservation(w, key) \/ ReadOwner(w, key)
                 \/ ReadRelease(w, key) => Reading
    BY DEF ReadReservation, ReadOwner, ReadRelease
  <2>3. ReadCounter(w) \/ ReadName(w) \/ ReadSource(w) \/ ReadDocument(w)
          => Reading
    BY DEF ReadCounter, ReadName, ReadSource, ReadDocument
  <2>4. CommitConflict(w) \/ CheckCounter(w) \/ CheckName(w) \/ ReadAdjust(w)
          => Reading
    BY DEF CommitConflict, CheckCounter, CheckName, ReadAdjust
  <2> HIDE DEF streams
  <2> QED  BY <1>2, <2>1, <2>2, <2>3, <2>4 DEF Step
<1>3. ASSUME NEW w \in Workers, Refuse(w)  PROVE UNCHANGED streams
  BY <1>3 DEF Refuse, Reading
<1>4. ASSUME NEW strategy \in {"provided", "series"}, SaveNaming(strategy)
      PROVE  UNCHANGED streams
  BY <1>4 DEF SaveNaming
<1>5. ASSUME UNCHANGED vars  PROVE UNCHANGED streams
  BY <1>5 DEF vars, streams
<1> QED  BY <1>1, <1>2, <1>3, <1>4, <1>5 DEF Next

\* The counter of a series only moves forward.
THEOREM CounterOnlyForward == Spec => CounterForward
<1>1. IInv /\ [Next]_vars => [CounterStep]_vars
  BY CommitCounter, CommitAdjustCounter, OnlyCommitsWrite
     DEF CounterStep, streams
<1> QED  BY <1>1, IInvHolds, PTL DEF Spec, CounterForward, CounterStep

-----------------------------------------------------------------------------
(* The lifecycle.                                                          *)

\* What UniqueDocuments sees of a document.
Seen(d) == [status |-> d.status, keys |-> d.keys]
SeenDocuments == [n \in Names |-> Seen(documents[n])]

\* Each of its operations is a step of the lifecycle.
LEMMA LifecycleSteps ==
  ASSUME NEW n \in Names, NEW keys \in SUBSET Keys,
         \/ Abstract!Create(n, keys) \/ Abstract!Change(n, keys)
         \/ Abstract!Submit(n) \/ Abstract!Cancel(n) \/ Abstract!Delete(n)
  PROVE  Abstract!Next
<1>1. CASE Abstract!Create(n, keys) \/ Abstract!Change(n, keys)
  BY <1>1 DEF Abstract!Next
<1>2. CASE Abstract!Submit(n) \/ Abstract!Cancel(n) \/ Abstract!Delete(n)
  BY <1>2 DEF Abstract!Next
<1> QED  BY <1>1, <1>2

\* A commit is a step of the lifecycle, or changes nothing it can see.
LEMMA CommitLifecycle ==
  ASSUME IInv, NEW w \in Workers, Commit(w)
  PROVE  Abstract!Next \/ SeenDocuments' = SeenDocuments
<1> DEFINE c == command[w]
           docs == SeenDocuments
<1>a. PICK n \in Names : n = c.name  BY CommitFacts
<1>b. PICK keys \in SUBSET Keys : keys = c.keys
  BY CommitFacts DEF Commands
<1> DEFINE d == documents[n]
<1>1. c \in Commands /\ LegalChange(c) /\ d \in Documents
  BY CommitFacts DEF IInv, TypeOK
<1>2. docs' = [docs EXCEPT ![n] = [status |-> c.status, keys |-> keys]]
  <2>1. /\ documents'[n] = Document(c.status, keys, c.version + 1)
        /\ \A m \in Names \ {n} : documents'[m] = documents[m]
    BY <1>a, <1>b, CommitDocuments
  <2>2. Seen(documents'[n]) = [status |-> c.status, keys |-> keys]
    BY <2>1 DEF Document, Seen
  <2>3. \A m \in Names \ {n} : Seen(documents'[m]) = Seen(documents[m])
    BY <2>1
  <2> HIDE DEF Seen
  <2> QED  BY <1>1, <2>2, <2>3 DEF SeenDocuments
<1>3. Abstract!FreeFor(n, keys)
  <2> SUFFICES ASSUME NEW m \in Names \ {n}, Live(m),
                      NEW k \in documents[m].keys, k \in keys
               PROVE  FALSE
    BY DEF Abstract!FreeFor, Abstract!Live, Live
  <2>1. k \in Keys  OBVIOUS
  <2>2. Owner(k) = m
    BY <2>1 DEF IInv, ReservationsExact, StillOwns
  <2>3. Owner(k) \in {NoName, n}
    BY <1>a, <1>b, CommitFacts
  <2> QED  BY <2>2, <2>3, NamesType DEF NoName
<1>4. docs[n].status = d.status /\ docs[n].keys = d.keys
  BY <1>1 DEF SeenDocuments, Seen
<1>5. Abstract!Become(n, c.status, keys)
  BY <1>2 DEF Abstract!Become, SeenDocuments, Seen
<1>6. d.status = "absent" /\ c.status = "draft" => Abstract!Create(n, keys)
  BY <1>1, <1>3, <1>5 DEF Abstract!Create
<1>7. d.status \in {"draft", "submitted"} /\ c.status = d.status =>
        Abstract!Change(n, keys)
  BY <1>1, <1>3, <1>5 DEF Abstract!Change
<1>8. d.status = "draft" /\ c.status = "submitted" /\ keys = d.keys =>
        Abstract!Submit(n)
  BY <1>1, <1>2 DEF Abstract!Submit, Abstract!Become, SeenDocuments, Seen
<1>9. d.status = "submitted" /\ c.status = "cancelled" /\ keys = d.keys =>
        Abstract!Cancel(n)
  BY <1>1, <1>2 DEF Abstract!Cancel, Abstract!Become, SeenDocuments, Seen
<1>10. d.status \in {"draft", "cancelled"} /\ c.status = "deleted"
         /\ keys = {} => Abstract!Delete(n)
  BY <1>1, <1>2 DEF Abstract!Delete, Abstract!Become, SeenDocuments, Seen
<1>11. c.status = d.status /\ keys = d.keys => docs' = docs
  BY <1>1, <1>2, <1>4 DEF SeenDocuments, Seen
<1>13. \/ d.status = "absent" /\ c.status = "draft"
       \/ d.status \in {"draft", "submitted"} /\ c.status = d.status
       \/ d.status = "draft" /\ c.status = "submitted" /\ keys = d.keys
       \/ d.status = "submitted" /\ c.status = "cancelled" /\ keys = d.keys
       \/ d.status \in {"draft", "cancelled"} /\ c.status = "deleted"
          /\ keys = {}
       \/ c.status = d.status /\ keys = d.keys
  BY <1>1, <1>a, <1>b DEF LegalChange, ChangeOps, AllowedStatuses, NextStatus
<1>12. \/ Abstract!Create(n, keys) \/ Abstract!Change(n, keys)
       \/ Abstract!Submit(n) \/ Abstract!Cancel(n) \/ Abstract!Delete(n)
       => Abstract!Next
  BY LifecycleSteps
<1>14. Abstract!Next \/ docs' = docs
  BY <1>6, <1>7, <1>8, <1>9, <1>10, <1>11, <1>12, <1>13
<1> QED  BY <1>14 DEF docs

\* The commands implement UniqueDocuments: every commit is one atomic step of
\* the lifecycle, and no other step changes what it sees of the documents.
THEOREM ImplementsLifecycle == Spec => Lifecycle
<1>1. Init => Abstract!Init
  BY DEF Init, Document, Abstract!Init
<1>2. IInv /\ [Next]_vars => [Abstract!Next]_SeenDocuments
  <2> SUFFICES ASSUME IInv, [Next]_vars
               PROVE  Abstract!Next \/ SeenDocuments' = SeenDocuments
    BY DEF SeenDocuments, Seen
  <2>1. ASSUME NEW w \in Workers, Commit(w)
        PROVE  Abstract!Next \/ SeenDocuments' = SeenDocuments
    BY <2>1, CommitLifecycle
  <2>2. ASSUME documents' = documents  PROVE SeenDocuments' = SeenDocuments
    BY <2>2 DEF SeenDocuments
  <2>3. ASSUME NEW w \in Workers, CommitAdjust(w)  PROVE documents' = documents
    BY <2>3 DEF CommitAdjust
  <2>4. UNCHANGED streams => documents' = documents
    BY DEF streams
  <2> QED  BY <2>1, <2>2, <2>3, <2>4, OnlyCommitsWrite
<1> QED  BY <1>1, <1>2, IInvHolds, PTL
            DEF Spec, Lifecycle, Abstract!Spec, SeenDocuments, Seen

=============================================================================
