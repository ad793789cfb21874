----------------------------- MODULE AtomicStore -----------------------------
(***************************************************************************)
(* What DocumentStore and EventStore (src/ports/document-store.ts,         *)
(* src/ports/event-store.ts) promise and what the services are written     *)
(* against: a command appends its events to all of its streams and moves   *)
(* their projections in one step, once, or not at all; whoever is told     *)
(* "stored" was stored, and whoever is told of a conflict was not and will *)
(* not be.                                                                 *)
(***************************************************************************)
EXTENDS Naturals, Sequences

CONSTANTS
    Streams,        \* every stream
    Projected,      \* the streams that have a row in the documents table
    Commands,       \* the commands that may be given
    EventsOf(_)     \* how many events a command appends to a stream

VARIABLES
    log,        \* the commands whose events each stream holds, in order
    view,       \* the events the row of each stream has taken in
    answers     \* what was answered to each command

vars == <<log, view, answers>>

Answers == {"open", "stored", "refused", "failed"}

\* The events of c are in the store.
Stored(c) == \E s \in Streams : \E i \in 1..Len(log[s]) : log[s][i] = c

Init ==
    /\ log = [s \in Streams |-> <<>>]
    /\ view = [s \in Streams |-> <<>>]
    /\ answers = [c \in Commands |-> "open"]

Commit(c) ==
    /\ answers[c] = "open"
    /\ log' # log
    /\ ~Stored(c)
    /\ DOMAIN log' = Streams /\ DOMAIN view' = Streams
    /\ \A s \in Streams :
         \/ log'[s] = log[s] /\ view'[s] = view[s]
         \/ /\ log'[s] = log[s] \o [i \in 1..EventsOf(s) |-> c]
            /\ view'[s] = IF s \in Projected THEN log'[s] ELSE view[s]

Answer(c, answer) ==
    /\ answers[c] = "open"
    /\ answers' = [answers EXCEPT ![c] = answer]
    /\ answer = "stored" => Stored(c)
    /\ answer = "refused" => ~Stored(c)

\* A command that is told of a failure may have been stored, at once or before.
Next ==
    \/ UNCHANGED answers /\ \E c \in Commands : Commit(c)
    \/ \E c \in Commands : answers' = [answers EXCEPT ![c] = "failed"] /\ Commit(c)
    \/ \E c \in Commands, answer \in Answers \ {"open"} :
         Answer(c, answer) /\ UNCHANGED <<log, view>>

Spec == Init /\ [][Next]_vars
=============================================================================
