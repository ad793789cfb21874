----------------------------- MODULE RealtimeHub -----------------------------
(***************************************************************************)
(* The Durable Object of one realtime topic: it numbers and keeps the      *)
(* latest published events, sends them to the sockets it has accepted,     *)
(* replays them to a client that reconnects, and tells every socket who is *)
(* present.  A handler awaits nothing between its reads and its sends, so  *)
(* each is one step; the object keeps nothing in memory, so it may be      *)
(* evicted and started again between any two.                              *)
(*                                                                         *)
(* A socket is "open"; "lost" when its client is gone and the runtime does *)
(* not know it; "broken" when sending to it throws; "closing" once the hub *)
(* has closed it; "gone" when the runtime has forgotten it.                *)
(***************************************************************************)
EXTENDS Integers, FiniteSets, FiniteSetsExt

CONSTANTS
  Clients,
  ConnectionBound,  \* bound: connections
  PublishBound,     \* bound: published events
  RetentionLimit,   \* replayRetentionLimit
  BatchLimit        \* replayBatchLimit

VARIABLES
  newest,    \* the last sequence number given to an event
  rows,      \* the sequence numbers in realtime_events
  socket,    \* the state of every connection
  presence,  \* the connections in the last presence message of each socket
  client     \* what each client knows

vars == <<newest, rows, socket, presence, client>>

Connections == 1..ConnectionBound

\* A client's connection (0 if it has none), where it began to listen, its
\* cursor and the events it has; whether it has seen the cursor jump, and
\* whether its last replay was as long as a replay may be.
NewClient == [connection |-> 0, base |-> 0, cursor |-> 0, seen |-> {},
              jumped |-> FALSE, full |-> FALSE]

-----------------------------------------------------------------------------
(* The runtime.                                                            *)

getWebSockets == {s \in Connections :
                    socket[s] \in {"open", "lost", "broken", "closing"}}

Throws(s) == socket[s] \in {"broken", "closing"}

\* The connection of a client drops; sends to it are accepted and lost.
Lose(c) ==
  LET s == client[c].connection
  IN  /\ s # 0
      /\ socket[s] = "open"
      /\ socket' = [socket EXCEPT ![s] = "lost"]
      /\ client' = [client EXCEPT ![c].connection = 0]
      /\ UNCHANGED <<newest, rows, presence>>

\* From now on sending throws.
Break(s) ==
  /\ socket[s] = "lost"
  /\ socket' = [socket EXCEPT ![s] = "broken"]
  /\ UNCHANGED <<newest, rows, presence, client>>

\* A socket that the hub closed need not get a webSocketClose.
Forget(s) ==
  /\ socket[s] = "closing"
  /\ socket' = [socket EXCEPT ![s] = "gone"]
  /\ UNCHANGED <<newest, rows, presence, client>>

-----------------------------------------------------------------------------
(* broadcastPresence.                                                      *)

\* Mutant: the sockets that the message did not reach stay on the list.
PresentOnce(sockets, excluded, failed) == sockets \ excluded

\* Whom the last message names: a second "leave" follows the first message
\* when sending it failed for some.
Present(sockets, excluded, failed) == sockets \ (excluded \cup failed)

\* Every socket in `sockets` but the excluded ones is told, and closed if that
\* fails.  `closed` are closed already, `left` is gone.
BroadcastPresence(sockets, excluded, closed, left) ==
  LET failed == {s \in sockets \ excluded : Throws(s)}
  IN  /\ socket' = [s \in Connections |->
                      CASE s \in left -> "gone"
                        [] s \in failed \cup closed -> "closing"
                        [] s \in sockets \ getWebSockets -> "open"
                        [] OTHER -> socket[s]]
      /\ presence' = [s \in Connections |->
                        IF s \in sockets \ (excluded \cup failed)
                        THEN Present(sockets, excluded, failed)
                        ELSE presence[s]]

-----------------------------------------------------------------------------
(* The hub's handlers.                                                     *)

\* Mutant: the oldest events are kept.
PruneNewest(stored) ==
  {n \in stored : Cardinality({k \in stored : k < n}) < RetentionLimit}

\* pruneReplayEvents: the newest RetentionLimit events are kept.
pruneReplayEvents(stored) ==
  {n \in stored : Cardinality({k \in stored : k > n}) < RetentionLimit}

\* What a client makes of the events it is sent.
Receive(c, events) ==
  LET inOrder == events = c.cursor + 1..c.cursor + Cardinality(events)
  IN  [c EXCEPT !.seen = @ \cup events,
                !.cursor = Max(events \cup {@}),
                !.jumped = @ \/ ~inOrder]

\* storeRealtimeEvent and the send to every socket; those that fail are closed
\* and the others told that they left.
Publish ==
  LET cursor == newest + 1
      failed == {s \in getWebSockets : Throws(s)}
      receives(c) == client[c].connection # 0
  IN  /\ newest < PublishBound
      /\ newest' = cursor
      /\ rows' = pruneReplayEvents(rows \cup {cursor})
      /\ client' = [c \in Clients |-> IF receives(c)
                                      THEN Receive(client[c], {cursor})
                                      ELSE client[c]]
      /\ IF failed = {} THEN UNCHANGED <<socket, presence>>
         ELSE BroadcastPresence(getWebSockets, failed, failed, {})

\* replayEvents after a cursor.  Every row parses: publish stores checked events.
replayEvents(after) ==
  {n \in rows : /\ n > after
                /\ Cardinality({k \in rows : after < k /\ k < n}) < BatchLimit}

\* A client and the replay after its cursor.
Replayed(c) ==
  LET events == replayEvents(c.cursor)
  IN  [Receive(c, events) EXCEPT !.full = Cardinality(events) = BatchLimit]

\* replay: a client that got as much as a replay may hold asks for the rest.
Replay(c) ==
  /\ client[c].full
  /\ client' = [client EXCEPT ![c] = Replayed(@)]
  /\ UNCHANGED <<newest, rows, socket, presence>>

\* What a client can ask a replay after: the connected message carries no cursor,
\* so one that has got no event yet asks from the beginning.
Known(c) == IF c.seen # {} THEN c ELSE NewClient

\* fetch: a client connects, and asks for a replay or only for what comes; the
\* socket is accepted, gets the replay, and all are told.
Connect(c, s, replay) ==
  LET resumed == Replayed(Known(client[c]))
      fresh == [NewClient EXCEPT !.base = newest, !.cursor = newest]
  IN  /\ client[c].connection = 0
      /\ socket[s] = "new"
      /\ \A t \in Connections : t < s => socket[t] # "new"
      /\ client' = [client EXCEPT ![c] =
                      [(IF replay THEN resumed ELSE fresh) EXCEPT
                         !.connection = s]]
      /\ BroadcastPresence(getWebSockets \cup {s}, {}, {}, {})
      /\ UNCHANGED <<newest, rows>>

\* broadcastCollaboration: everyone but the sender; nothing is stored.
Collaborate(c) ==
  LET origin == client[c].connection
      failed == {s \in getWebSockets \ {origin} : Throws(s)}
  IN  /\ origin # 0
      /\ failed # {}
      /\ BroadcastPresence(getWebSockets, failed, failed, {})
      /\ UNCHANGED <<newest, rows, client>>

\* webSocketClose: the client closed, or the runtime found the socket dead.
WebSocketClose(s) ==
  /\ s \in getWebSockets
  /\ client' = [c \in Clients |-> IF client[c].connection = s
                                  THEN [client[c] EXCEPT !.connection = 0]
                                  ELSE client[c]]
  /\ BroadcastPresence(getWebSockets, {s}, {}, {s})
  /\ UNCHANGED <<newest, rows>>

Init ==
  /\ newest = 0
  /\ rows = {}
  /\ socket = [s \in Connections |-> "new"]
  /\ presence = [s \in Connections |-> {}]
  /\ client = [c \in Clients |-> NewClient]

Next ==
  \/ Publish
  \/ \E c \in Clients :
       \/ Lose(c)
       \/ Collaborate(c)
       \/ Replay(c)
       \/ \E s \in Connections, replay \in BOOLEAN : Connect(c, s, replay)
  \/ \E s \in Connections : Break(s) \/ Forget(s) \/ WebSocketClose(s)

Spec == Init /\ [][Next]_vars

-----------------------------------------------------------------------------
(* Properties.                                                             *)

\* A client that is connected, has seen its cursor go up one by one and has
\* asked until a replay was short has every event published since it began to
\* listen: whatever was published while it was away, and pruned before it came
\* back or between two pages, shows as a jump of the cursor.
LossIsVisible ==
  \A c \in Clients :
    LET k == client[c]
    IN  k.connection # 0 /\ ~k.jumped /\ ~k.full =>
          k.seen = k.base + 1..newest

\* The last presence message of every socket that can be reached names exactly
\* the connections the hub has not found gone, also when several break at once
\* and are found while others join or leave.
PresenceTrue ==
  \A s \in Connections :
    socket[s] = "open" =>
      presence[s] = {t \in Connections : socket[t] \in {"open", "lost", "broken"}}

=============================================================================
