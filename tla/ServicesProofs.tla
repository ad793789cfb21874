--------------------------- MODULE ServicesProofs ---------------------------
(***************************************************************************)
(* Proofs about the services that share no state, for any number of        *)
(* requests, documents, clients and accounts and any bounds.  Each service *)
(* has an inductive invariant of its own, proved for the service alone and *)
(* carried over to Services, in whose behaviours the others do not move.   *)
(***************************************************************************)
EXTENDS Services, InductionLemmas, SequenceTheorems, FiniteSetTheorems, TLAPS

-----------------------------------------------------------------------------
(* RealtimeHub: presence.                                                  *)

SocketStates == {"new", "open", "lost", "broken", "closing", "gone"}

SocketsTyped == socket \in [Hub!Connections -> SocketStates]

\* What is left of a broadcast: the message names the live connections, and
\* everyone who can be reached has it.
LEMMA PresenceTold ==
  ASSUME SocketsTyped,
         NEW sockets, NEW excluded, NEW closed, NEW left,
         sockets \subseteq Hub!Connections,
         Hub!getWebSockets \subseteq sockets,
         \A s \in sockets : s \notin Hub!getWebSockets => socket[s] = "new",
         excluded \subseteq Hub!getWebSockets,
         excluded = closed \cup left, closed \cap left = {},
         Hub!BroadcastPresence(sockets, excluded, closed, left)
  PROVE  SocketsTyped' /\ Hub!PresenceTrue'
<1> DEFINE unreached == {s \in sockets \ excluded : Hub!Throws(s)}
           told == sockets \ (excluded \cup unreached)
<1>1. socket' = [s \in Hub!Connections |->
                   CASE s \in left -> "gone"
                     [] s \in unreached \cup closed -> "closing"
                     [] s \in sockets \ Hub!getWebSockets -> "open"
                     [] OTHER -> socket[s]]
  BY DEF Hub!BroadcastPresence
<1>2. presence' = [s \in Hub!Connections |-> IF s \in told THEN told ELSE presence[s]]
  BY DEF Hub!BroadcastPresence, Hub!Present
<1>3. SocketsTyped'
  BY <1>1 DEF SocketsTyped, SocketStates, Hub!Connections
<1>4. ASSUME NEW s \in Hub!Connections
      PROVE  socket'[s] \in {"open", "lost", "broken"} <=> s \in told
  <2>1. socket[s] \in SocketStates
    BY DEF SocketsTyped
  <2>0. s \in unreached => s \in Hub!getWebSockets
    BY <2>1 DEF Hub!getWebSockets, Hub!Throws
  <2>2. s \in left => s \notin told /\ socket'[s] = "gone"
    BY <1>1
  <2>3. s \notin left /\ s \in unreached \cup closed =>
          s \notin told /\ socket'[s] = "closing"
    BY <1>1, <2>0
  <2>4. s \notin left \cup unreached \cup closed /\ s \in sockets /\ s \notin Hub!getWebSockets =>
          s \in told /\ socket'[s] = "open"
    BY <1>1, <2>0
  <2>5. s \notin left \cup unreached \cup closed /\ s \in Hub!getWebSockets =>
          s \in told /\ socket'[s] \in {"open", "lost"}
    BY <1>1, <2>1 DEF Hub!getWebSockets, Hub!Throws
  <2>6. s \notin left \cup unreached \cup closed /\ s \notin sockets =>
          s \notin told /\ socket'[s] \in {"new", "gone"}
    BY <1>1, <2>1 DEF Hub!getWebSockets, SocketStates
  <2> QED
    BY <2>2, <2>3, <2>4, <2>5, <2>6
<1>5. told = {t \in Hub!Connections : socket'[t] \in {"open", "lost", "broken"}}
  BY <1>4
<1> HIDE DEF told
<1>6. Hub!PresenceTrue'
  BY <1>2, <1>4, <1>5 DEF Hub!PresenceTrue, Hub!Connections
<1> QED
  BY <1>3, <1>6

PresenceInv == SocketsTyped /\ Hub!PresenceTrue

\* A step of the runtime changes one socket and nothing that was told.
LEMMA SocketMoved ==
  ASSUME PresenceInv, NEW s \in Hub!Connections, NEW state1 \in SocketStates,
         socket' = [socket EXCEPT ![s] = state1], presence' = presence,
         state1 # "open",
         socket[s] \in {"open", "lost", "broken"} <=>
           state1 \in {"open", "lost", "broken"}
  PROVE  PresenceInv'
<1>1. socket' \in [Hub!Connections -> SocketStates]
  BY DEF PresenceInv, SocketsTyped
<1>2. \A t \in Hub!Connections : socket'[t] = IF t = s THEN state1 ELSE socket[t]
  BY DEF PresenceInv, SocketsTyped
<1>3. {t \in Hub!Connections : socket'[t] \in {"open", "lost", "broken"}} =
        {t \in Hub!Connections : socket[t] \in {"open", "lost", "broken"}}
  BY <1>2
<1>4. Hub!PresenceTrue'
  BY <1>2, <1>3 DEF PresenceInv, Hub!PresenceTrue, Hub!Connections
<1> QED
  BY <1>1, <1>4 DEF PresenceInv, SocketsTyped

LEMMA PresenceStep ==
  ASSUME PresenceInv, Hub!Next
  PROVE  PresenceInv'
<1> DEFINE gone == {s \in Hub!getWebSockets : Hub!Throws(s)}
<1>1. Hub!getWebSockets \subseteq Hub!Connections
  BY DEF Hub!getWebSockets
<1>2. CASE UNCHANGED <<socket, presence>>
  BY <1>2 DEF PresenceInv, SocketsTyped, Hub!PresenceTrue, Hub!Connections
<1>3. CASE Hub!Publish
  <2>1. CASE Hub!BroadcastPresence(Hub!getWebSockets, gone, gone, {})
    BY <1>1, <2>1, PresenceTold DEF PresenceInv
  <2> QED
    BY <1>2, <1>3, <2>1 DEF Hub!Publish
<1>4. ASSUME NEW c \in Actors, Hub!Lose(c)
      PROVE  PresenceInv'
  <2> DEFINE s == client[c].connection
  <2>1. socket[s] = "open" /\ socket' = [socket EXCEPT ![s] = "lost"] /\ presence' = presence
    BY <1>4 DEF Hub!Lose
  <2>2. CASE s \in Hub!Connections
    BY <2>1, <2>2, SocketMoved DEF SocketStates
  <2>3. CASE s \notin Hub!Connections
    BY <1>2, <2>1, <2>3 DEF PresenceInv, SocketsTyped
  <2> QED
    BY <2>2, <2>3
<1>5. ASSUME NEW c \in Actors, Hub!Collaborate(c)
      PROVE  PresenceInv'
  <2> DEFINE failing == {s \in Hub!getWebSockets \ {client[c].connection} : Hub!Throws(s)}
  <2>1. Hub!BroadcastPresence(Hub!getWebSockets, failing, failing, {})
    BY <1>5 DEF Hub!Collaborate
  <2> QED
    BY <1>1, <2>1, PresenceTold DEF PresenceInv
<1>6. ASSUME NEW c \in Actors, Hub!Replay(c)
      PROVE  PresenceInv'
  BY <1>2, <1>6 DEF Hub!Replay
<1>7. ASSUME NEW c \in Actors, NEW s \in Hub!Connections, NEW replay \in BOOLEAN,
             Hub!Connect(c, s, replay)
      PROVE  PresenceInv'
  <2>1. /\ socket[s] = "new"
        /\ Hub!BroadcastPresence(Hub!getWebSockets \cup {s}, {}, {}, {})
    BY <1>7 DEF Hub!Connect
  <2> QED
    BY <1>1, <2>1, PresenceTold DEF PresenceInv
<1>8. ASSUME NEW s \in Hub!Connections, Hub!Break(s)
      PROVE  PresenceInv'
  BY <1>8, SocketMoved DEF Hub!Break, SocketStates
<1>9. ASSUME NEW s \in Hub!Connections, Hub!Forget(s)
      PROVE  PresenceInv'
  BY <1>9, SocketMoved DEF Hub!Forget, SocketStates
<1>10. ASSUME NEW s \in Hub!Connections, Hub!WebSocketClose(s)
       PROVE  PresenceInv'
  <2>1. /\ s \in Hub!getWebSockets
        /\ Hub!BroadcastPresence(Hub!getWebSockets, {s}, {}, {s})
    BY <1>10 DEF Hub!WebSocketClose
  <2> QED
    BY <1>1, <2>1, PresenceTold DEF PresenceInv
<1> QED
  BY <1>3, <1>4, <1>5, <1>6, <1>7, <1>8, <1>9, <1>10 DEF Hub!Next

-----------------------------------------------------------------------------
(* RealtimeHub: what a client can miss.                                    *)

HubClients == [connection : Nat, base : Nat, cursor : Nat, seen : SUBSET Nat,
               jumped : BOOLEAN, full : BOOLEAN]

\* What the cursor of a client says of the events it has, while n events have
\* been published.
CursorTrue(k, n) ==
  /\ k.base <= k.cursor
  /\ k.cursor <= n
  /\ ~ k.jumped => k.seen = k.base + 1..k.cursor

\* A client with all there was to replay is at the end.
AtEnd(k, n) == ~ k.jumped /\ ~ k.full => k.cursor = n

\* The hub keeps the newest events: those after lo.
Kept(lo) == lo \in 0..newest /\ replayRows = lo + 1..newest /\ (lo = newest => newest = 0)

LossInv ==
  /\ newest \in Nat
  /\ \E lo \in Nat : Kept(lo)
  /\ client \in [Actors -> HubClients]
  /\ \A c \in Actors :
       /\ CursorTrue(client[c], newest)
       /\ client[c].connection # 0 => AtEnd(client[c], newest)

LEMMA IntervalSize ==
  ASSUME NEW a \in Int, NEW b \in Int
  PROVE  Hub!Cardinality(a..b) = IF a > b THEN 0 ELSE b - a + 1
<1>1. Hub!Cardinality(a..b) = Cardinality(a..b)
  BY DEF Hub!Cardinality, Cardinality
<1> QED
  BY <1>1, FS_Interval

LEMMA SizeAfter ==
  ASSUME NEW m \in Int, NEW u \in Int, m <= u
  PROVE  Hub!Cardinality(m + 1..u) = u - m
<1>1. Hub!Cardinality(m + 1..u) = IF m + 1 > u THEN 0 ELSE u - (m + 1) + 1
  BY IntervalSize, m + 1 \in Int
<1> QED
  BY <1>1

LEMMA MaxIs ==
  ASSUME NEW S \in SUBSET Nat, NEW x \in S, \A y \in S : y <= x
  PROVE  Hub!Max(S) = x
<1>1. \A y \in S : x >= y
  OBVIOUS
<1>2. ASSUME NEW z \in S, \A y \in S : z >= y
      PROVE  z = x
  BY <1>2
<1> QED
  BY <1>1, <1>2 DEF Hub!Max

\* What a client makes of consecutive events after its cursor.
LEMMA Received ==
  ASSUME NEW k \in HubClients, NEW m \in Nat, NEW u \in Nat, k.cursor <= m, m <= u
  PROVE  Hub!Receive(k, m + 1..u) =
           [k EXCEPT !.seen = k.seen \cup (m + 1..u),
                     !.cursor = IF m < u THEN u ELSE k.cursor,
                     !.jumped = k.jumped \/ (m < u /\ m # k.cursor)]
<1> DEFINE events == m + 1..u
           inOrder == events = k.cursor + 1..k.cursor + Hub!Cardinality(events)
<1>1. k.cursor \in Nat
  BY DEF HubClients
<1>2. Hub!Max(events \cup {k.cursor}) = IF m < u THEN u ELSE k.cursor
  <2>1. CASE m < u
    BY <1>1, <2>1, MaxIs, events \cup {k.cursor} \subseteq Nat, u \in events,
       \A y \in events \cup {k.cursor} : y <= u
  <2>2. CASE ~ m < u
    <3>1. events = {}
      BY <2>2
    <3>2. Hub!Max({k.cursor}) = k.cursor
      BY <1>1, MaxIs
    <3> QED
      BY <2>2, <3>1, <3>2
  <2> QED
    BY <2>1, <2>2
<1>3. inOrder <=> ~ (m < u /\ m # k.cursor)
  <2>1. CASE m < u
    <3>1. Hub!Cardinality(events) = u - m
      BY <2>1, IntervalSize, m + 1 \in Int, u \in Int
    <3>2. inOrder <=> (m + 1..u = k.cursor + 1..k.cursor + (u - m))
      BY <3>1
    <3>3. (m + 1..u = k.cursor + 1..k.cursor + (u - m)) => m = k.cursor
      <4>1. k.cursor + 1 \in k.cursor + 1..k.cursor + (u - m)
        BY <1>1, <2>1
      <4>2. (m + 1..u = k.cursor + 1..k.cursor + (u - m)) => k.cursor + 1 \in m + 1..u
        BY <4>1
      <4> QED
        BY <1>1, <4>2
    <3> QED
      BY <1>1, <2>1, <3>2, <3>3
  <2>2. CASE ~ m < u
    <3>1. Hub!Cardinality(events) = 0 /\ events = {}
      BY <2>2, IntervalSize, m + 1 \in Int, u \in Int
    <3>2. k.cursor + 1..k.cursor + 0 = {}
      BY <1>1
    <3> QED
      BY <2>2, <3>1, <3>2
  <2> QED
    BY <2>1, <2>2
<1>4. Hub!Receive(k, events) =
        [k EXCEPT !.seen = k.seen \cup events,
                  !.cursor = Hub!Max(events \cup {k.cursor}),
                  !.jumped = k.jumped \/ ~ inOrder]
  BY DEF Hub!Receive, HubClients
<1>5. k.jumped \/ ~ inOrder <=> k.jumped \/ (m < u /\ m # k.cursor)
  BY <1>3
<1> HIDE DEF inOrder
<1> QED
  BY <1>2, <1>4, <1>5

\* A client that gets consecutive events after its cursor.
LEMMA ReceivedTrue ==
  ASSUME NEW k \in HubClients, NEW m \in Nat, NEW u \in Nat, NEW n \in Nat,
         k.cursor <= m, m <= u, u <= n, CursorTrue(k, n)
  PROVE  /\ Hub!Receive(k, m + 1..u) \in HubClients
         /\ CursorTrue(Hub!Receive(k, m + 1..u), n)
         /\ Hub!Receive(k, m + 1..u).connection = k.connection
         /\ Hub!Receive(k, m + 1..u).full = k.full
         /\ ~ Hub!Receive(k, m + 1..u).jumped =>
              /\ ~ k.jumped
              /\ m < u => m = k.cursor
              /\ Hub!Receive(k, m + 1..u).cursor = IF m < u THEN u ELSE k.cursor
<1> DEFINE cursor == IF m < u THEN u ELSE k.cursor
           jumped == k.jumped \/ (m < u /\ m # k.cursor)
           seen == k.seen \cup (m + 1..u)
           r == [k EXCEPT !.seen = seen, !.cursor = cursor, !.jumped = jumped]
<1>1. Hub!Receive(k, m + 1..u) = r
  BY Received
<1>2. k.cursor \in Nat /\ k.base \in Nat /\ k.seen \in SUBSET Nat /\ k.jumped \in BOOLEAN
  BY DEF HubClients
<1>3. cursor \in Nat /\ seen \in SUBSET Nat /\ jumped \in BOOLEAN
  BY <1>2
<1>4. k.base <= cursor /\ cursor <= n
  BY <1>2 DEF CursorTrue
<1>5. ~ jumped => seen = k.base + 1..cursor
  BY <1>2 DEF CursorTrue
<1>6. ~ jumped => ~ k.jumped /\ (m < u => m = k.cursor)
  OBVIOUS
<1> HIDE DEF cursor, jumped, seen
<1>7. /\ r \in HubClients /\ r.cursor = cursor /\ r.jumped = jumped /\ r.seen = seen
      /\ r.base = k.base /\ r.connection = k.connection /\ r.full = k.full
  BY <1>3 DEF HubClients
<1> HIDE DEF r
<1>8. CursorTrue(r, n)
  BY <1>4, <1>5, <1>7 DEF CursorTrue
<1> USE DEF cursor
<1> QED
  BY <1>1, <1>6, <1>7, <1>8

\* The replay after a cursor.
LEMMA ReplayIs ==
  ASSUME LossInv, NEW after \in Nat, after <= newest
  PROVE  \E m, u \in Nat :
           /\ after <= m /\ m <= u /\ u <= newest
           /\ Hub!replayEvents(after) = m + 1..u
           /\ Hub!Cardinality(Hub!replayEvents(after)) = u - m
           /\ u - m # BatchLimit => u = newest /\ (m = newest => after = newest)
<1> USE HubAssumption
<1>1. PICK lo \in Nat : Kept(lo)
  BY DEF LossInv
<1>2. newest \in Nat /\ replayRows = lo + 1..newest /\ lo <= newest /\ (lo = newest => newest = 0)
  BY <1>1 DEF LossInv, Kept
<1> DEFINE m == IF lo < after THEN after ELSE lo
           u == IF m + BatchLimit < newest THEN m + BatchLimit ELSE newest
<1>3. m \in Nat /\ u \in Nat /\ after <= m /\ m <= u /\ u <= newest
  BY <1>2
<1>4. ASSUME NEW n \in m + 1..newest
      PROVE  Hub!Cardinality({k \in replayRows : after < k /\ k < n}) = n - 1 - m
  <2>1. {k \in replayRows : after < k /\ k < n} = m + 1..n - 1
    BY <1>2, <1>3
  <2>2. m \in Int /\ n - 1 \in Int /\ m <= n - 1
    BY <1>2, <1>3
  <2>3. Hub!Cardinality(m + 1..n - 1) = (n - 1) - m
    BY <2>2, SizeAfter
  <2> QED
    BY <2>1, <2>3
<1>5. Hub!replayEvents(after) = {n \in m + 1..newest : n - 1 - m < BatchLimit}
  <2>1. \A n \in replayRows : n > after <=> n \in m + 1..newest
    BY <1>2, <1>3
  <2>2. m + 1..newest \subseteq replayRows
    BY <1>2, <1>3
  <2> HIDE DEF m
  <2> QED
    BY <1>4, <2>1, <2>2 DEF Hub!replayEvents
<1>6. {n \in m + 1..newest : n - 1 - m < BatchLimit} = m + 1..u
  BY <1>2, <1>3
<1>7. Hub!Cardinality(m + 1..u) = u - m
  BY <1>3, SizeAfter, m \in Int, u \in Int
<1>8. u - m # BatchLimit => u = newest /\ (m = newest => after = newest)
  BY <1>2, <1>3
<1> HIDE DEF m, u
<1> QED
  BY <1>3, <1>5, <1>6, <1>7, <1>8

\* Pruning leaves the newest events, the last one among them.
LEMMA PruneIs ==
  ASSUME NEW n \in Nat \ {0}, NEW lo \in Nat, lo < n
  PROVE  \E low \in Nat : low < n /\ Hub!pruneReplayEvents(lo + 1..n) = low + 1..n
<1> USE HubAssumption
<1> DEFINE low == IF lo + RetentionLimit < n THEN n - RetentionLimit ELSE lo
<1>1. low \in Nat /\ low < n /\ lo <= low
  OBVIOUS
<1>2. ASSUME NEW x \in lo + 1..n
      PROVE  Hub!Cardinality({k \in lo + 1..n : k > x}) = n - x
  <2>1. {k \in lo + 1..n : k > x} = x + 1..n
    OBVIOUS
  <2> QED
    BY <2>1, SizeAfter, x \in Int, n \in Int, x <= n
<1>3. Hub!pruneReplayEvents(lo + 1..n) = {x \in lo + 1..n : n - x < RetentionLimit}
  BY <1>2 DEF Hub!pruneReplayEvents
<1>4. {x \in lo + 1..n : n - x < RetentionLimit} = low + 1..n
  BY <1>1
<1> QED
  BY <1>1, <1>3, <1>4

\* A client after a replay is at the end, or has more to ask for.
LEMMA ReplayedTrue ==
  ASSUME LossInv, NEW k \in HubClients, CursorTrue(k, newest)
  PROVE  /\ Hub!Replayed(k) \in HubClients
         /\ CursorTrue(Hub!Replayed(k), newest)
         /\ AtEnd(Hub!Replayed(k), newest)
         /\ Hub!Replayed(k).connection = k.connection
<1> DEFINE events == Hub!replayEvents(k.cursor)
           r == Hub!Receive(k, events)
           full == Hub!Cardinality(events) = BatchLimit
           p == [r EXCEPT !.full = full]
<1>1. k \in HubClients /\ CursorTrue(k, newest) /\ newest \in Nat
  BY DEF LossInv
<1>2. k.cursor \in Nat /\ k.cursor <= newest
  BY <1>1 DEF HubClients, CursorTrue
<1>3. PICK m \in Nat, u \in Nat :
        /\ k.cursor <= m /\ m <= u /\ u <= newest
        /\ events = m + 1..u
        /\ Hub!Cardinality(events) = u - m
        /\ u - m # BatchLimit => u = newest /\ (m = newest => k.cursor = newest)
  BY <1>2, ReplayIs
<1>4. /\ r \in HubClients /\ CursorTrue(r, newest) /\ r.connection = k.connection
      /\ ~ r.jumped => r.cursor = IF m < u THEN u ELSE k.cursor
  BY <1>1, <1>3, ReceivedTrue
<1>5. ~ r.jumped /\ ~ full => r.cursor = newest
  BY <1>2, <1>3, <1>4
<1>6. Hub!Replayed(k) = p
  BY DEF Hub!Replayed
<1>7. full \in BOOLEAN
  OBVIOUS
<1> HIDE DEF r, full
<1>8. /\ p \in HubClients /\ p.full = full /\ p.jumped = r.jumped /\ p.cursor = r.cursor
      /\ p.base = r.base /\ p.seen = r.seen /\ p.connection = r.connection
  BY <1>4, <1>7 DEF HubClients
<1> HIDE DEF p
<1>9. CursorTrue(p, newest) /\ AtEnd(p, newest)
  BY <1>4, <1>5, <1>8 DEF CursorTrue, AtEnd
<1> QED
  BY <1>4, <1>6, <1>8, <1>9

\* One client moves on; nothing is published.
LEMMA ClientMoved ==
  ASSUME LossInv, NEW c \in Actors, NEW k \in HubClients,
         UNCHANGED <<newest, replayRows>>,
         client' = [client EXCEPT ![c] = k],
         CursorTrue(k, newest), k.connection # 0 => AtEnd(k, newest)
  PROVE  LossInv'
<1>1. client' \in [Actors -> HubClients] /\ newest' \in Nat
  BY DEF LossInv
<1>2. \E lo \in Nat : Kept(lo)'
  BY DEF LossInv, Kept
<1>3. ASSUME NEW d \in Actors
      PROVE  /\ CursorTrue(client'[d], newest)
             /\ client'[d].connection # 0 => AtEnd(client'[d], newest)
  BY DEF LossInv
<1>4. \A d \in Actors : /\ CursorTrue(client[d], newest)'
                        /\ client'[d].connection # 0 => AtEnd(client[d], newest)'
  BY <1>3 DEF CursorTrue, AtEnd
<1> QED
  BY <1>1, <1>2, <1>4 DEF LossInv

\* A client hears of the next event.
LEMMA NextReceived ==
  ASSUME NEW k \in HubClients, NEW n \in Nat, CursorTrue(k, n), AtEnd(k, n)
  PROVE  /\ Hub!Receive(k, {n + 1}) \in HubClients
         /\ CursorTrue(Hub!Receive(k, {n + 1}), n + 1)
         /\ AtEnd(Hub!Receive(k, {n + 1}), n + 1)
<1>1. {n + 1} = n + 1..n + 1 /\ k.cursor <= n /\ CursorTrue(k, n + 1)
  BY DEF CursorTrue, HubClients
<1>2. /\ Hub!Receive(k, n + 1..n + 1) \in HubClients
      /\ CursorTrue(Hub!Receive(k, n + 1..n + 1), n + 1)
      /\ Hub!Receive(k, n + 1..n + 1).full = k.full
      /\ ~ Hub!Receive(k, n + 1..n + 1).jumped =>
           Hub!Receive(k, n + 1..n + 1).cursor = IF n < n + 1 THEN n + 1 ELSE k.cursor
  BY <1>1, ReceivedTrue, n <= n + 1, n + 1 \in Nat, n + 1 <= n + 1
<1> QED
  BY <1>1, <1>2 DEF AtEnd

LEMMA PublishKeeps ==
  ASSUME LossInv, Hub!Publish
  PROVE  LossInv'
<1>1. /\ newest' = newest + 1
      /\ replayRows' = Hub!pruneReplayEvents(replayRows \cup {newest + 1})
      /\ client' = [c \in Actors |-> IF client[c].connection # 0
                                     THEN Hub!Receive(client[c], {newest + 1})
                                     ELSE client[c]]
  BY DEF Hub!Publish
<1>2. newest \in Nat /\ newest' \in Nat
  BY <1>1 DEF LossInv
<1>3. \E lo \in Nat : Kept(lo)'
  <2>1. PICK lo \in Nat : Kept(lo)
    BY DEF LossInv
  <2>2. replayRows \cup {newest + 1} = lo + 1..newest + 1 /\ lo < newest + 1
    BY <1>2, <2>1 DEF Kept
  <2>3. newest + 1 \in Nat \ {0}
    BY <1>2
  <2>4. PICK low \in Nat : low < newest + 1 /\ replayRows' = low + 1..newest + 1
    BY <1>1, <2>2, <2>3, PruneIs
  <2>5. Kept(low)'
    BY <1>1, <1>2, <2>4 DEF Kept
  <2> QED
    BY <2>5
<1>4. ASSUME NEW c \in Actors
      PROVE  /\ client'[c] \in HubClients
             /\ CursorTrue(client'[c], newest + 1)
             /\ client'[c].connection # 0 => AtEnd(client'[c], newest + 1)
  <2>1. client[c] \in HubClients /\ CursorTrue(client[c], newest)
    BY DEF LossInv
  <2>2. CASE client[c].connection # 0
    BY <1>1, <1>2, <2>1, <2>2, NextReceived DEF LossInv
  <2>3. CASE client[c].connection = 0
    BY <1>1, <1>2, <2>1, <2>3 DEF CursorTrue, HubClients
  <2> QED
    BY <2>2, <2>3
<1>5. \A c \in Actors : /\ CursorTrue(client[c], newest)'
                        /\ client'[c].connection # 0 => AtEnd(client[c], newest)'
  BY <1>1, <1>4 DEF CursorTrue, AtEnd
<1>6. client' \in [Actors -> HubClients]
  BY <1>1, <1>4
<1> QED
  BY <1>2, <1>3, <1>5, <1>6 DEF LossInv

LEMMA ConnectKeeps ==
  ASSUME LossInv, NEW c \in Actors, NEW s \in Hub!Connections, NEW replay \in BOOLEAN,
         Hub!Connect(c, s, replay)
  PROVE  LossInv'
<1> DEFINE fresh == [Hub!NewClient EXCEPT !.base = newest, !.cursor = newest]
           known == Hub!Known(client[c])
           k == IF replay THEN Hub!Replayed(known) ELSE fresh
           connected == [k EXCEPT !.connection = s]
<1>1. client' = [client EXCEPT ![c] = connected] /\ UNCHANGED <<newest, replayRows>>
  BY DEF Hub!Connect
<1>2. newest \in Nat /\ s \in Nat
  BY HubAssumption DEF LossInv, Hub!Connections
<1>3. fresh \in HubClients /\ CursorTrue(fresh, newest) /\ AtEnd(fresh, newest)
  <2>1. /\ fresh \in HubClients /\ fresh.base = newest /\ fresh.cursor = newest
        /\ fresh.seen = {}
    BY <1>2 DEF Hub!NewClient, HubClients
  <2>2. newest + 1..newest = {}
    BY <1>2
  <2> HIDE DEF fresh
  <2> QED
    BY <1>2, <2>1, <2>2 DEF CursorTrue, AtEnd
<1>4. k \in HubClients /\ CursorTrue(k, newest) /\ AtEnd(k, newest)
  <2>1. client[c] \in HubClients /\ CursorTrue(client[c], newest)
    BY DEF LossInv
  <2>2. Hub!NewClient \in HubClients /\ CursorTrue(Hub!NewClient, newest)
    BY <1>2 DEF Hub!NewClient, HubClients, CursorTrue
  <2>3. known \in HubClients /\ CursorTrue(known, newest)
    BY <2>1, <2>2 DEF Hub!Known
  <2> HIDE DEF known, fresh
  <2>4. /\ Hub!Replayed(known) \in HubClients /\ CursorTrue(Hub!Replayed(known), newest)
        /\ AtEnd(Hub!Replayed(known), newest)
    BY <2>3, ReplayedTrue
  <2> QED
    BY <1>3, <2>4
<1> HIDE DEF k
<1>5. /\ connected \in HubClients /\ connected.base = k.base /\ connected.cursor = k.cursor
      /\ connected.seen = k.seen /\ connected.jumped = k.jumped /\ connected.full = k.full
  BY <1>2, <1>4 DEF HubClients
<1> HIDE DEF connected
<1>6. CursorTrue(connected, newest) /\ AtEnd(connected, newest)
  BY <1>4, <1>5 DEF CursorTrue, AtEnd
<1> QED
  BY <1>1, <1>5, <1>6, ClientMoved

\* A client that has lost its connection knows what it knew.
LEMMA Disconnected ==
  ASSUME NEW k \in HubClients, CursorTrue(k, newest)
  PROVE  /\ [k EXCEPT !.connection = 0] \in HubClients
         /\ [k EXCEPT !.connection = 0].connection = 0
         /\ CursorTrue([k EXCEPT !.connection = 0], newest)
BY DEF HubClients, CursorTrue

LEMMA LossStep ==
  ASSUME LossInv, Hub!Next
  PROVE  LossInv'
<1>1. CASE UNCHANGED <<newest, replayRows, client>>
  BY <1>1 DEF LossInv, Kept, CursorTrue, AtEnd
<1>2. ASSUME NEW c \in Actors
      PROVE  client[c] \in HubClients /\ CursorTrue(client[c], newest)
  BY DEF LossInv
<1>3. ASSUME NEW c \in Actors, Hub!Lose(c)
      PROVE  LossInv'
  <2> DEFINE k == [client[c] EXCEPT !.connection = 0]
  <2>1. client' = [client EXCEPT ![c] = k] /\ UNCHANGED <<newest, replayRows>>
    BY <1>3 DEF Hub!Lose
  <2>2. k \in HubClients /\ k.connection = 0 /\ CursorTrue(k, newest)
    BY <1>2, Disconnected
  <2> HIDE DEF k
  <2> QED
    BY <2>1, <2>2, ClientMoved
<1>4. ASSUME NEW c \in Actors, Hub!Replay(c)
      PROVE  LossInv'
  <2>1. /\ client' = [client EXCEPT ![c] = Hub!Replayed(client[c])]
        /\ UNCHANGED <<newest, replayRows>>
    BY <1>4 DEF Hub!Replay, LossInv
  <2> QED
    BY <1>2, <2>1, ReplayedTrue, ClientMoved DEF LossInv
<1>5. ASSUME NEW s \in Hub!Connections, Hub!WebSocketClose(s)
      PROVE  LossInv'
  <2>1. /\ client' = [c \in Actors |-> IF client[c].connection = s
                                       THEN [client[c] EXCEPT !.connection = 0]
                                       ELSE client[c]]
        /\ UNCHANGED <<newest, replayRows>>
    BY <1>5 DEF Hub!WebSocketClose
  <2>2. ASSUME NEW c \in Actors
        PROVE  /\ client'[c] \in HubClients /\ CursorTrue(client'[c], newest)
               /\ client'[c].connection # 0 => AtEnd(client'[c], newest)
    BY <1>2, <2>1, Disconnected DEF LossInv
  <2>3. \A c \in Actors : /\ CursorTrue(client[c], newest)'
                          /\ client'[c].connection # 0 => AtEnd(client[c], newest)'
    BY <2>1, <2>2 DEF CursorTrue, AtEnd
  <2>4. client' \in [Actors -> HubClients] /\ newest' \in Nat /\ \E lo \in Nat : Kept(lo)'
    BY <2>1, <2>2 DEF LossInv, Kept
  <2> QED
    BY <2>3, <2>4 DEF LossInv
<1>6. \A c \in Actors : Hub!Collaborate(c) => LossInv'
  BY <1>1 DEF Hub!Collaborate
<1>7. \A s \in Hub!Connections : Hub!Break(s) \/ Hub!Forget(s) => LossInv'
  BY <1>1 DEF Hub!Break, Hub!Forget
<1> QED
  BY <1>3, <1>4, <1>5, <1>6, <1>7, PublishKeeps, ConnectKeeps DEF Hub!Next

HubInv == PresenceInv /\ LossInv

LEMMA HubInits ==
  ASSUME Hub!Init
  PROVE  HubInv
<1>1. PresenceInv
  BY DEF Hub!Init, PresenceInv, SocketsTyped, SocketStates, Hub!PresenceTrue
<1>2. newest = 0 /\ Kept(0)
  BY DEF Hub!Init, Kept
<1>3. /\ Hub!NewClient \in HubClients /\ CursorTrue(Hub!NewClient, 0)
      /\ Hub!NewClient.connection = 0
  BY DEF Hub!NewClient, HubClients, CursorTrue
<1>4. client = [c \in Actors |-> Hub!NewClient]
  BY DEF Hub!Init
<1>5. LossInv
  BY <1>2, <1>3, <1>4 DEF LossInv
<1> QED
  BY <1>1, <1>5 DEF HubInv

LEMMA HubKeeps ==
  ASSUME HubInv, Hub!Next \/ UNCHANGED hubVars
  PROVE  HubInv'
<1>1. CASE Hub!Next
  BY <1>1, PresenceStep, LossStep DEF HubInv
<1>2. CASE UNCHANGED hubVars
  <2>1. PresenceInv'
    BY <1>2 DEF HubInv, hubVars, PresenceInv, SocketsTyped, Hub!PresenceTrue, Hub!Connections
  <2>2. LossInv'
    BY <1>2 DEF HubInv, hubVars, LossInv, Kept, CursorTrue, AtEnd
  <2> QED
    BY <2>1, <2>2 DEF HubInv
<1> QED
  BY <1>1, <1>2

LEMMA HubOfServices ==
  ServicesSpec => []HubInv
<1>1. ServicesInit => HubInv
  BY HubInits DEF ServicesInit
<1>2. HubInv /\ [ServicesNext]_<<service, patchVars, storeVars, rebuildVars, hubVars, accountVars>>
        => HubInv'
  <2>1. [ServicesNext]_<<service, patchVars, storeVars, rebuildVars, hubVars, accountVars>> =>
          Hub!Next \/ UNCHANGED hubVars
    BY DEF ServicesNext
  <2> QED
    BY <2>1, HubKeeps
<1> QED
  BY <1>1, <1>2, PTL DEF ServicesSpec

\* RealtimeHub.broadcastPresence: the last presence message of every socket that
\* can be reached names exactly the connections that the hub has not found gone.
THEOREM EveryoneKnowsWhoIsPresent ==
  ServicesSpec => []PresenceTrue
<1>1. HubInv => PresenceTrue
  BY DEF HubInv, PresenceInv, PresenceTrue
<1> QED
  BY <1>1, HubOfServices, PTL

\* RealtimeHub.fetch, storeRealtimeEvent and replayEvents: however events are
\* pruned between a client's visits and between its pages, a client whose cursor
\* never jumped and whose last replay was short has every event.
THEOREM MissedEventsShow ==
  ServicesSpec => []LossIsVisible
<1>1. HubInv => LossIsVisible
  BY DEF HubInv, LossInv, CursorTrue, AtEnd, LossIsVisible, Hub!LossIsVisible
<1> QED
  BY <1>1, HubOfServices, PTL

-----------------------------------------------------------------------------
(* UserAccounts.                                                           *)

Purposes == {"reset", "verification"}

CompletionKinds == {"ResetCompleted", "EmailVerified"}

FailureKinds == {"ResetDeliveryFailed", "VerificationDeliveryFailed"}

\* Only a request sets a challenge, its own, and nothing else.
EventOK(e) ==
  /\ e.kind = "ResetRequested" =>
       DOMAIN e.payload = {"reset"} /\ e.payload["reset"].token = e.token
  /\ e.kind = "VerificationRequested" =>
       DOMAIN e.payload = {"verification"} /\ e.payload["verification"].token = e.token
  /\ ~ Accounts!Requests(e) => DOMAIN e.payload \cap Purposes = {}

\* IsNewest, of any log.
NewestIn(l, token, purpose, i) ==
  \E j \in 1..i - 1 :
    /\ Accounts!Requests(l[j].event)
    /\ Accounts!Purpose(l[j].event) = purpose
    /\ l[j].event.token = token
    /\ \A k \in j + 1..i - 1 :
         ~ (Accounts!Requests(l[k].event) /\ Accounts!Purpose(l[k].event) = purpose)

\* Whatever revoked a purpose came before the token.
UnrevokedIn(l, token, purpose, i) ==
  \A j \in 1..i - 1 :
    purpose \in Accounts!Revokes(l[j].event) =>
      \E k \in j + 1..i - 1 : l[k].event.token = token

\* The challenges of an account are the newest of the log and not revoked.
ChallengesTrue(a, l) ==
  \A p \in Purposes :
    a[p].token # 0 =>
      /\ NewestIn(l, a[p].token, p, Len(l) + 1)
      /\ UnrevokedIn(l, a[p].token, p, Len(l) + 1)

LogTrue(l) ==
  \A i \in 1..Len(l) :
    LET e == l[i].event
        p == Accounts!Purpose(e)
    IN  /\ e.kind \in CompletionKinds =>
             NewestIn(l, e.token, p, i) /\ UnrevokedIn(l, e.token, p, i)
        /\ e.kind \in FailureKinds => NewestIn(l, e.token, p, i)

\* The account is folded from the log.
AccountTrue(a, l) ==
  /\ \E S : l \in Seq(S)
  /\ DOMAIN a = DOMAIN Accounts!NoAccount
  /\ a = [f \in DOMAIN a |-> a[f]]
  /\ a.version = Len(l)
  /\ ChallengesTrue(a, l)
  /\ LogTrue(l)

\* A completed challenge is the account's.
Completes(a, e) ==
  /\ e.kind = "ResetCompleted" => a["reset"].token = e.token /\ e.token # 0
  /\ e.kind = "EmailVerified" => a["verification"].token = e.token /\ e.token # 0

\* A request e is the one that failure f is about.
FailureOf(e, f) ==
  /\ Accounts!Requests(e)
  /\ Accounts!Purpose(e) = Accounts!Purpose(f)
  /\ e.token = f.token

IsCall(q) ==
  q = [command |-> q.command, op |-> q.op, read |-> q.read, events |-> q.events,
       password |-> q.password, expectedVersion |-> q.expectedVersion]

\* What the events of a call are, before they are appended.
EventsPlanned(op, events) ==
  /\ \/ Len(events) = 1
     \/ /\ Len(events) = 2 /\ op = "change"
        /\ events[1].kind = "Created" /\ events[2].kind = "Linked"
  /\ \A i \in 1..Len(events) : EventOK(events[i]) /\ events[i].kind \notin FailureKinds
  /\ op = "request" => Accounts!Requests(events[1])
  /\ op = "login" => events[1].kind = "Rehashed" /\ DOMAIN events[1].payload = {"hash"}

\* A call at `place`, while the account is a, the log l, and n commands began.
CallTrue(q, place, a, l, n) ==
  /\ q.command \in 1..n
  /\ q.op \in {"change", "login", "request"}
  /\ q.read.version \in 0..Len(l)
  /\ q.op = "login" => /\ place \in {"verified", "append"}
                       /\ a.version = q.read.version => a.exists /\ a.enabled
  /\ place \in {"verified", "append"} =>
       /\ q.expectedVersion = q.read.version
       /\ \A i \in 1..Len(l) : l[i].command # q.command
  /\ place = "verified" => q.op = "login"
  /\ place = "append" => /\ EventsPlanned(q.op, q.events)
                         /\ a.version = q.read.version => Completes(a, q.events[1])
  /\ place = "send" => /\ Len(q.events) = 1
                       /\ q.read.version < Len(l)
                       /\ Accounts!Requests(q.events[1])
                       /\ l[q.read.version + 1].event = q.events[1]
  /\ place = "mark" => /\ Len(q.events) = 1
                       /\ q.read.version < Len(l)
                       /\ q.expectedVersion = q.read.version + 1
                       /\ q.events[1].kind \in FailureKinds
                       /\ EventOK(q.events[1])
                       /\ FailureOf(l[q.read.version + 1].event, q.events[1])

CallsTrue ==
  /\ request \in [Actors -> {"idle", "verified", "append", "send", "mark"}]
  /\ call = [w \in Actors |-> call[w]]
  /\ \A w \in Actors : request[w] # "idle" =>
       IsCall(call[w]) /\ CallTrue(call[w], request[w], account, log, commands)
  /\ \A v, w \in Actors : v # w /\ request[v] # "idle" /\ request[w] # "idle" =>
       call[v].command # call[w].command

\* A session, while the account is a, the log l, and n commands began.
SessionTrue(s, a, l, n) ==
  /\ s.command \in 1..n
  /\ s.read \in Nat
  /\ s.version \in {s.read, s.read + 1}
  /\ s.version <= Len(l)
  /\ a.version = s.version => a.exists /\ a.enabled
  /\ s.version = s.read + 1 => l[s.version].command = s.command
  /\ ~ s.lost => \A i \in s.version + 1..Len(l) : l[i].command # s.command

SessionsTrue ==
  \A s \in sessions :
    /\ SessionTrue(s, account, log, commands)
    /\ \A w \in Actors : request[w] # "idle" => call[w].command # s.command

AccountsInv ==
  /\ commands \in Nat
  /\ tokens \in Nat
  /\ \A i \in 1..Len(log) : log[i].command \in 1..commands
  /\ AccountTrue(account, log)
  /\ CallsTrue
  /\ SessionsTrue

Fields == {"exists", "version", "email", "verifiedAt", "roles", "hash", "reset",
           "verification", "enabled", "linked", "link"}

LEMMA NoAccountIs ==
  /\ DOMAIN Accounts!NoAccount = Fields
  /\ Accounts!NoAccount["reset"] = Accounts!NoChallenge
  /\ Accounts!NoAccount["verification"] = Accounts!NoChallenge
  /\ Accounts!NoChallenge.token = 0
  /\ Accounts!NoAccount.version = 0
BY DEF Accounts!NoAccount, Accounts!NoChallenge, Fields

\* The account before the event's payload is taken in.
FoldBase(a, e) == IF e.kind = "Created" THEN [Accounts!NoAccount EXCEPT !.exists = TRUE] ELSE a

LEMMA FoldIs ==
  ASSUME NEW a, NEW e, DOMAIN a = Fields, a = [f \in DOMAIN a |-> a[f]]
  PROVE  /\ DOMAIN Accounts!Fold(a, e) = Fields
         /\ Accounts!Fold(a, e) = [f \in Fields |-> Accounts!Fold(a, e)[f]]
         /\ Accounts!Fold(a, e).version = a.version + 1
         /\ \A f \in Fields \ {"version", "linked", "link"} :
              Accounts!Fold(a, e)[f] =
                IF f \in Accounts!Revokes(e) THEN Accounts!NoChallenge
                ELSE IF f \in DOMAIN e.payload THEN e.payload[f] ELSE FoldBase(a, e)[f]
<1> DEFINE base == FoldBase(a, e)
           patched == Accounts!SetFields(base, e.payload)
           linked1 == IF e.kind \in {"Linked", "Synced"}
                      THEN [patched EXCEPT !.linked = TRUE,
                                           !.link = Accounts!Override(@, e.payload)]
                      ELSE patched
           result == [f \in Fields |->
                        CASE f = "version" -> a.version + 1
                          [] f \in Accounts!Revokes(e) -> Accounts!NoChallenge
                          [] OTHER -> linked1[f]]
<1>1. Accounts!Fold(a, e) = result
  BY DEF Accounts!Fold, FoldBase
<1>2. DOMAIN base = Fields
  <2>1. DOMAIN [Accounts!NoAccount EXCEPT !.exists = TRUE] = Fields
    BY DEF Accounts!NoAccount, Fields
  <2> QED
    BY <2>1 DEF FoldBase
<1>3. Accounts!Revokes(e) \subseteq {"reset", "verification"}
  BY DEF Accounts!Revokes
<1>4. \A f \in Fields : patched[f] = IF f \in DOMAIN e.payload THEN e.payload[f] ELSE base[f]
  BY <1>2 DEF Accounts!SetFields
<1>5. DOMAIN patched = Fields
  BY <1>2 DEF Accounts!SetFields
<1> HIDE DEF base, patched
<1>6. \A f \in Fields \ {"linked", "link"} : linked1[f] = patched[f]
  BY <1>5
<1> HIDE DEF linked1
<1>7. result.version = a.version + 1
  BY <1>3 DEF Fields
<1>8. \A f \in Fields \ {"version"} :
        result[f] = IF f \in Accounts!Revokes(e) THEN Accounts!NoChallenge ELSE linked1[f]
  BY <1>3
<1>9. DOMAIN result = Fields /\ result = [f \in Fields |-> result[f]]
  OBVIOUS
<1> HIDE DEF result
<1> QED
  BY <1>1, <1>4, <1>6, <1>7, <1>8, <1>9 DEF base

\* What an event makes of a challenge.
LEMMA FoldChallenge ==
  ASSUME NEW a, NEW e, DOMAIN a = Fields, a = [f \in DOMAIN a |-> a[f]],
         EventOK(e), NEW p \in Purposes
  PROVE  \/ Accounts!Fold(a, e)[p].token = 0
         \/ /\ Accounts!Requests(e) /\ Accounts!Purpose(e) = p
            /\ Accounts!Fold(a, e)[p].token = e.token
            /\ Accounts!Revokes(e) = {}
         \/ /\ ~ (Accounts!Requests(e) /\ Accounts!Purpose(e) = p)
            /\ Accounts!Fold(a, e)[p] = a[p]
            /\ p \notin Accounts!Revokes(e)
<1>1. /\ p \in Fields \ {"version", "linked", "link"}
      /\ p \in {"reset", "verification"}
  BY DEF Purposes, Fields
<1>2. Accounts!Fold(a, e)[p] =
        IF p \in Accounts!Revokes(e) THEN Accounts!NoChallenge
        ELSE IF p \in DOMAIN e.payload THEN e.payload[p] ELSE FoldBase(a, e)[p]
  BY <1>1, FoldIs
<1>3. CASE p \in Accounts!Revokes(e)
  BY <1>2, <1>3, NoAccountIs
<1>4. CASE p \notin Accounts!Revokes(e) /\ Accounts!Requests(e) /\ Accounts!Purpose(e) = p
  <2>1. p \in DOMAIN e.payload /\ e.payload[p].token = e.token /\ "enabled" \notin DOMAIN e.payload
    BY <1>1, <1>4 DEF EventOK, Accounts!Requests, Accounts!Purpose
  <2>2. Accounts!Revokes(e) = {}
    BY <1>4, <2>1 DEF Accounts!Revokes, Accounts!Requests, Accounts!Disables
  <2> QED
    BY <1>2, <1>4, <2>1, <2>2
<1>5. CASE p \notin Accounts!Revokes(e) /\ ~ (Accounts!Requests(e) /\ Accounts!Purpose(e) = p)
  <2>1. p \notin DOMAIN e.payload
    BY <1>1, <1>5 DEF EventOK, Accounts!Requests, Accounts!Purpose, Purposes
  <2>2. CASE e.kind = "Created"
    <3>1. [Accounts!NoAccount EXCEPT !.exists = TRUE][p] = Accounts!NoChallenge
      <4>1. p # "exists" /\ p \in DOMAIN Accounts!NoAccount
        BY <1>1, NoAccountIs DEF Fields
      <4>2. Accounts!NoAccount[p] = Accounts!NoChallenge
        BY <1>1, NoAccountIs
      <4> QED
        BY <4>1, <4>2
    <3>2. Accounts!Fold(a, e)[p] = Accounts!NoChallenge
      BY <1>2, <1>5, <2>1, <2>2, <3>1 DEF FoldBase
    <3> QED
      BY <3>2, NoAccountIs
  <2>3. CASE e.kind # "Created"
    BY <1>2, <1>5, <2>1, <2>3 DEF FoldBase
  <2> QED
    BY <2>2, <2>3
<1> QED
  BY <1>3, <1>4, <1>5

\* What comes later does not change what was true of the log before.
LEMMA LaterEntries ==
  ASSUME NEW S, NEW l \in Seq(S), NEW x, NEW i \in 1..Len(l) + 1, NEW token, NEW p
  PROVE  /\ NewestIn(Append(l, x), token, p, i) <=> NewestIn(l, token, p, i)
         /\ UnrevokedIn(Append(l, x), token, p, i) <=> UnrevokedIn(l, token, p, i)
<1>1. \A j \in 1..i - 1 : Append(l, x)[j] = l[j]
  <2>1. l \in Seq(S \cup {x}) /\ x \in S \cup {x} /\ Len(l) \in Nat
    OBVIOUS
  <2> QED
    BY <2>1
<1>2. \A j \in 1..i - 1 : \A k \in j + 1..i - 1 : Append(l, x)[k] = l[k] /\ k \in 1..i - 1
  BY <1>1
<1> DEFINE m == Append(l, x)
<1>3. \A j \in 1..i - 1 : m[j] = l[j]
  BY <1>1
<1>4. \A j \in 1..i - 1 : \A k \in j + 1..i - 1 : m[k] = l[k]
  BY <1>2
<1> HIDE DEF m
<1>5. NewestIn(m, token, p, i) <=> NewestIn(l, token, p, i)
  BY <1>3, <1>4 DEF NewestIn
<1>6. UnrevokedIn(m, token, p, i) <=> UnrevokedIn(l, token, p, i)
  BY <1>3, <1>4 DEF UnrevokedIn
<1> QED
  BY <1>5, <1>6 DEF m

\* One more event in the log, and in the account.
LEMMA EntryAdded ==
  ASSUME NEW a, NEW l, AccountTrue(a, l), NEW x, EventOK(x.event), Completes(a, x.event),
         x.event.kind \in FailureKinds => Len(l) > 0 /\ FailureOf(l[Len(l)].event, x.event)
  PROVE  AccountTrue(Accounts!Fold(a, x.event), Append(l, x))
<1> DEFINE e == x.event
           b == Accounts!Fold(a, e)
           m == Append(l, x)
           n == Len(l)
<1>0. DOMAIN a = Fields /\ a = [f \in DOMAIN a |-> a[f]] /\ a.version = n
  BY NoAccountIs DEF AccountTrue
<1>1. PICK S : l \in Seq(S)
  BY DEF AccountTrue
<1>2. l \in Seq(S \cup {x}) /\ x \in S \cup {x} /\ n \in Nat
  BY <1>1
<1>3. m \in Seq(S \cup {x}) /\ Len(m) = n + 1 /\ m[n + 1] = x /\ \A i \in 1..n : m[i] = l[i]
  BY <1>2
<1>4. DOMAIN b = Fields /\ b = [f \in DOMAIN b |-> b[f]] /\ b.version = n + 1
  BY <1>0, FoldIs
<1>5. ASSUME NEW i \in 1..n + 1, NEW token, NEW p
      PROVE  /\ NewestIn(m, token, p, i) <=> NewestIn(l, token, p, i)
             /\ UnrevokedIn(m, token, p, i) <=> UnrevokedIn(l, token, p, i)
  BY <1>1, LaterEntries
<1> HIDE DEF m, b, n
<1>6. ASSUME NEW p \in Purposes, b[p].token # 0
      PROVE  NewestIn(m, b[p].token, p, n + 2) /\ UnrevokedIn(m, b[p].token, p, n + 2)
  <2>1. CASE /\ Accounts!Requests(e) /\ Accounts!Purpose(e) = p /\ b[p].token = e.token
             /\ Accounts!Revokes(e) = {}
    <3>1. n + 1 \in 1..(n + 2) - 1 /\ \A k \in (n + 1) + 1..(n + 2) - 1 : FALSE
      BY <1>2
    <3>2. NewestIn(m, b[p].token, p, n + 2)
      BY <1>3, <2>1, <3>1 DEF NewestIn
    <3>3. \A j \in 1..(n + 2) - 1 : p \in Accounts!Revokes(m[j].event) => n + 1 \in j + 1..(n + 2) - 1
      BY <1>2, <1>3, <2>1
    <3>4. UnrevokedIn(m, b[p].token, p, n + 2)
      BY <1>3, <2>1, <3>3 DEF UnrevokedIn
    <3> QED
      BY <3>2, <3>4
  <2>2. CASE /\ ~ (Accounts!Requests(e) /\ Accounts!Purpose(e) = p)
             /\ b[p] = a[p] /\ p \notin Accounts!Revokes(e)
    <3>1. NewestIn(l, b[p].token, p, n + 1) /\ UnrevokedIn(l, b[p].token, p, n + 1)
      BY <1>6, <2>2 DEF AccountTrue, ChallengesTrue, n
    <3>2. NewestIn(m, b[p].token, p, n + 1) /\ UnrevokedIn(m, b[p].token, p, n + 1)
      BY <1>2, <1>5, <3>1, n + 1 \in 1..n + 1
    <3>3. \A k \in 1..n + 1 : k \in 1..n \/ k = n + 1
      BY <1>2
    <3>4. /\ ~ (Accounts!Requests(m[n + 1].event) /\ Accounts!Purpose(m[n + 1].event) = p)
          /\ p \notin Accounts!Revokes(m[n + 1].event)
      BY <1>3, <2>2
    <3>5. NewestIn(m, b[p].token, p, n + 2)
      <4>1. PICK j \in 1..(n + 1) - 1 :
              /\ Accounts!Requests(m[j].event) /\ Accounts!Purpose(m[j].event) = p
              /\ m[j].event.token = b[p].token
              /\ \A k \in j + 1..(n + 1) - 1 :
                   ~ (Accounts!Requests(m[k].event) /\ Accounts!Purpose(m[k].event) = p)
        BY <3>2 DEF NewestIn
      <4>2. j \in 1..(n + 2) - 1
        BY <1>2
      <4>3. \A k \in j + 1..(n + 2) - 1 : k \in j + 1..(n + 1) - 1 \/ k = n + 1
        BY <1>2
      <4> QED
        BY <3>4, <4>1, <4>2, <4>3 DEF NewestIn
    <3>6. UnrevokedIn(m, b[p].token, p, n + 2)
      <4>1. ASSUME NEW j \in 1..(n + 2) - 1, p \in Accounts!Revokes(m[j].event)
            PROVE  \E k \in j + 1..(n + 2) - 1 : m[k].event.token = b[p].token
        <5>1. j \in 1..(n + 1) - 1
          BY <1>2, <3>4, <4>1
        <5>2. PICK k \in j + 1..(n + 1) - 1 : m[k].event.token = b[p].token
          BY <3>2, <4>1, <5>1 DEF UnrevokedIn
        <5>3. k \in j + 1..(n + 2) - 1
          BY <1>2
        <5> QED
          BY <5>2, <5>3
      <4> QED
        BY <4>1 DEF UnrevokedIn
    <3> QED
      BY <3>5, <3>6
  <2>3. \/ b[p].token = 0
        \/ /\ Accounts!Requests(e) /\ Accounts!Purpose(e) = p /\ b[p].token = e.token
           /\ Accounts!Revokes(e) = {}
        \/ /\ ~ (Accounts!Requests(e) /\ Accounts!Purpose(e) = p)
           /\ b[p] = a[p] /\ p \notin Accounts!Revokes(e)
    BY <1>0, FoldChallenge DEF b
  <2> QED
    BY <1>6, <2>1, <2>2, <2>3
<1>7. ChallengesTrue(b, m)
  <2>1. Len(m) + 1 = n + 2
    BY <1>2, <1>3
  <2> QED
    BY <1>6, <2>1 DEF ChallengesTrue
<1>8. ASSUME NEW i \in 1..n + 1
      PROVE  /\ m[i].event.kind \in CompletionKinds =>
                  /\ NewestIn(m, m[i].event.token, Accounts!Purpose(m[i].event), i)
                  /\ UnrevokedIn(m, m[i].event.token, Accounts!Purpose(m[i].event), i)
             /\ m[i].event.kind \in FailureKinds =>
                  NewestIn(m, m[i].event.token, Accounts!Purpose(m[i].event), i)
  <2>1. CASE i \in 1..n
    <3>1. m[i] = l[i]
      BY <1>3, <2>1
    <3>2. /\ l[i].event.kind \in CompletionKinds =>
               /\ NewestIn(l, l[i].event.token, Accounts!Purpose(l[i].event), i)
               /\ UnrevokedIn(l, l[i].event.token, Accounts!Purpose(l[i].event), i)
          /\ l[i].event.kind \in FailureKinds =>
               NewestIn(l, l[i].event.token, Accounts!Purpose(l[i].event), i)
      BY <2>1 DEF AccountTrue, LogTrue, n
    <3> QED
      BY <1>5, <3>1, <3>2
  <2>2. CASE i = n + 1
    <3>1. m[i] = x
      BY <1>3, <2>2
    <3>2. ASSUME e.kind \in CompletionKinds
          PROVE  /\ NewestIn(l, e.token, Accounts!Purpose(e), n + 1)
                 /\ UnrevokedIn(l, e.token, Accounts!Purpose(e), n + 1)
      <4>1. /\ Accounts!Purpose(e) \in Purposes
            /\ a[Accounts!Purpose(e)].token = e.token /\ e.token # 0
        BY <3>2 DEF Completes, CompletionKinds, Accounts!Purpose, Purposes
      <4> QED
        BY <4>1 DEF AccountTrue, ChallengesTrue, n
    <3>3. ASSUME e.kind \in FailureKinds
          PROVE  NewestIn(l, e.token, Accounts!Purpose(e), n + 1)
      <4>1. n > 0 /\ FailureOf(l[n].event, e)
        BY <3>3 DEF n
      <4>2. n \in 1..(n + 1) - 1 /\ \A k \in n + 1..(n + 1) - 1 : FALSE
        BY <1>2, <4>1
      <4> QED
        BY <4>1, <4>2 DEF NewestIn, FailureOf
    <3> QED
      BY <1>5, <2>2, <3>1, <3>2, <3>3
  <2> QED
    BY <1>2, <2>1, <2>2
<1>9. LogTrue(m)
  BY <1>3, <1>8 DEF LogTrue
<1>10. \E T : m \in Seq(T)
  BY <1>3
<1> QED
  BY <1>3, <1>4, <1>7, <1>9, <1>10, NoAccountIs DEF AccountTrue, m, b

LEMMA OneMore ==
  ASSUME NEW S, NEW l \in Seq(S), NEW x
  PROVE  l \o [i \in 1..1 |-> x] = Append(l, x)
<1> DEFINE t == [i \in 1..1 |-> x]
           T == S \cup {x}
<1>1. l \in Seq(T) /\ <<x>> \in Seq(T) /\ t \in Seq(T) /\ Len(t) = Len(<<x>>)
      /\ \A i \in 1..Len(t) : t[i] = <<x>>[i]
  OBVIOUS
<1>2. t = <<x>>
  BY <1>1, SeqEqual
<1> QED
  BY <1>1, <1>2, AppendIsConcat, x \in T

LEMMA TwoMore ==
  ASSUME NEW S, NEW l \in Seq(S), NEW x, NEW y, NEW t, DOMAIN t = 1..2,
         t = [i \in 1..2 |-> t[i]], t[1] = x, t[2] = y
  PROVE  l \o t = Append(Append(l, x), y)
<1> DEFINE T == S \cup {x, y}
<1>1. l \in Seq(T) /\ <<x>> \in Seq(T) /\ <<y>> \in Seq(T)
  OBVIOUS
<1>2. t = <<x>> \o <<y>>
  <2>1. t \in [1..2 -> T] /\ 2 \in Nat
    OBVIOUS
  <2>2. t \in Seq(T) /\ Len(t) = 2
    BY <2>1
  <2>3. /\ <<x>> \o <<y>> \in Seq(T) /\ Len(<<x>> \o <<y>>) = 2
        /\ (<<x>> \o <<y>>)[1] = x /\ (<<x>> \o <<y>>)[2] = y
    BY <1>1
  <2>4. \A i \in 1..2 : i = 1 \/ i = 2
    OBVIOUS
  <2> QED
    BY <2>2, <2>3, <2>4, SeqEqual
<1>3. l \o t = (l \o <<x>>) \o <<y>>
  BY <1>1, <1>2, ConcatAssociative
<1>4. Append(l, x) = l \o <<x>> /\ Append(l, x) \in Seq(T)
  BY <1>1, AppendIsConcat, x \in T
<1>5. Append(Append(l, x), y) = Append(l, x) \o <<y>>
  BY <1>4, AppendIsConcat, y \in T
<1> QED
  BY <1>3, <1>4, <1>5

\* The log l has grown to m, by entries of one command.
GrewBy(l, m, c) ==
  /\ Len(l) \in Nat /\ Len(m) \in Nat
  /\ Len(l) < Len(m)
  /\ \A i \in 1..Len(l) : m[i] = l[i]
  /\ \A i \in Len(l) + 1..Len(m) : m[i].command = c

LEMMA WrittenIs ==
  ASSUME AccountsInv, NEW w \in Actors, request[w] \in {"append", "mark"},
         Accounts!Accepted(w), Accounts!Written(w)
  PROVE  /\ AccountTrue(account', log')
         /\ GrewBy(log, log', call[w].command)
         /\ log'[Len(log) + 1].event = call[w].events[1]
         /\ Len(call[w].events) = 1 =>
              account' = Accounts!Fold(account, call[w].events[1]) /\ Len(log') = Len(log) + 1
<1> DEFINE q == call[w]
           events == q.events
           x(i) == Accounts!Entry(w, events[i])
<1>1. /\ CallTrue(q, request[w], account, log, commands) /\ AccountTrue(account, log)
      /\ account.version = Len(log)
  BY DEF AccountsInv, CallsTrue, AccountTrue
<1>2. PICK S : log \in Seq(S)
  BY <1>1 DEF AccountTrue
<1>3. /\ account' = IF Len(events) = 1 THEN Accounts!Fold(account, events[1])
                    ELSE Accounts!Fold(Accounts!Fold(account, events[1]), events[2])
      /\ log' = log \o [i \in 1..Len(events) |-> x(i)]
  BY DEF Accounts!Written
<1>4. \A i \in 1..2 : x(i).event = events[i] /\ x(i).command = q.command
  BY DEF Accounts!Entry
<1>5. AccountTrue(Accounts!Fold(account, events[1]), Append(log, x(1)))
  <2>1. EventOK(events[1]) /\ Completes(account, events[1])
    <3>1. CASE request[w] = "append"
      BY <1>1, <3>1 DEF CallTrue, EventsPlanned, Accounts!Accepted
    <3>2. CASE request[w] = "mark"
      BY <1>1, <3>2 DEF CallTrue, Completes, FailureKinds
    <3> QED
      BY <3>1, <3>2
  <2>2. events[1].kind \in FailureKinds => Len(log) > 0 /\ FailureOf(log[Len(log)].event, events[1])
    <3>1. CASE request[w] = "append"
      BY <1>1, <3>1 DEF CallTrue, EventsPlanned
    <3>2. CASE request[w] = "mark"
      <4>1. Len(log) = q.read.version + 1 /\ q.read.version \in Nat
        BY <1>1, <3>2 DEF CallTrue, Accounts!Accepted
      <4> QED
        BY <1>1, <3>2, <4>1 DEF CallTrue
    <3> QED
      BY <3>1, <3>2
  <2>3. x(1).event = events[1]
    BY <1>4
  <2> HIDE DEF x
  <2> QED
    BY <1>1, <2>1, <2>2, <2>3, EntryAdded
<1>6. CASE Len(events) = 1
  <2>1. log' = Append(log, x(1)) /\ account' = Accounts!Fold(account, events[1])
    <3>1. [i \in 1..Len(events) |-> x(i)] = [i \in 1..1 |-> x(1)]
      BY <1>6
    <3> HIDE DEF x
    <3> QED
      BY <1>2, <1>3, <1>6, <3>1, OneMore
  <2>2. /\ Len(log) \in Nat /\ Len(log') = Len(log) + 1 /\ log'[Len(log) + 1] = x(1)
        /\ \A i \in 1..Len(log) : log'[i] = log[i]
    <3>1. log \in Seq(S \cup {x(1)}) /\ x(1) \in S \cup {x(1)}
      BY <1>2
    <3> HIDE DEF x
    <3> QED
      BY <2>1, <3>1
  <2>3. GrewBy(log, log', q.command)
    BY <1>4, <2>2 DEF GrewBy
  <2> QED
    BY <1>4, <1>5, <2>1, <2>2, <2>3
<1>7. CASE Len(events) # 1
  <2>1. /\ Len(events) = 2 /\ events[2].kind = "Linked" /\ EventOK(events[2])
    BY <1>1, <1>7 DEF CallTrue, EventsPlanned
  <2>2. /\ log' = Append(Append(log, x(1)), x(2))
        /\ account' = Accounts!Fold(Accounts!Fold(account, events[1]), events[2])
    <3> DEFINE t == [i \in 1..2 |-> x(i)]
    <3>1. log' = log \o t
      BY <1>3, <2>1
    <3>2. DOMAIN t = 1..2 /\ t = [i \in 1..2 |-> t[i]] /\ t[1] = x(1) /\ t[2] = x(2)
      OBVIOUS
    <3> HIDE DEF x, t
    <3> QED
      BY <1>2, <1>3, <1>7, <3>1, <3>2, TwoMore
  <2>3. /\ Len(log) \in Nat /\ Len(log') = Len(log) + 2 /\ log'[Len(log) + 1] = x(1)
        /\ log'[Len(log) + 2] = x(2)
        /\ \A i \in 1..Len(log) : log'[i] = log[i]
    <3>1. log \in Seq(S \cup {x(1), x(2)})
      BY <1>2
    <3> HIDE DEF x
    <3> QED
      BY <2>2, <3>1
  <2>4. GrewBy(log, log', q.command)
    BY <1>4, <2>3 DEF GrewBy
  <2>5. AccountTrue(account', log')
    <3>1. x(2).event = events[2] /\ Completes(Accounts!Fold(account, events[1]), events[2])
          /\ events[2].kind \notin FailureKinds
      BY <1>4, <2>1 DEF Completes, FailureKinds
    <3> HIDE DEF x
    <3> QED
      BY <1>5, <2>1, <2>2, <3>1, EntryAdded
  <2> QED
    BY <1>4, <1>7, <2>3, <2>4, <2>5
<1> QED
  BY <1>6, <1>7

LEMMA CallLater ==
  ASSUME NEW q, NEW place, NEW a, NEW l, NEW n, NEW b, NEW m, NEW c,
         CallTrue(q, place, a, l, n), GrewBy(l, m, c), c # q.command, b.version = Len(m)
  PROVE  CallTrue(q, place, b, m, n)
<1>1. q.read.version \in 0..Len(l) /\ Len(l) \in Nat /\ Len(m) \in Nat /\ Len(l) < Len(m)
  BY DEF CallTrue, GrewBy
<1>2. q.read.version \in 0..Len(m) /\ b.version # q.read.version
  BY <1>1
<1>3. q.read.version < Len(l) => m[q.read.version + 1] = l[q.read.version + 1]
                                 /\ q.read.version < Len(m)
  BY <1>1 DEF GrewBy
<1>4. (\A i \in 1..Len(l) : l[i].command # q.command) =>
        \A i \in 1..Len(m) : m[i].command # q.command
  <2>1. \A i \in 1..Len(m) : i \in 1..Len(l) \/ i \in Len(l) + 1..Len(m)
    BY <1>1
  <2> QED
    BY <2>1 DEF GrewBy
<1> QED
  BY <1>2, <1>3, <1>4 DEF CallTrue

LEMMA SessionLater ==
  ASSUME NEW s, NEW a, NEW l, NEW n, NEW b, NEW m, NEW c,
         SessionTrue(s, a, l, n), GrewBy(l, m, c), c # s.command, b.version = Len(m)
  PROVE  SessionTrue(s, b, m, n)
<1>1. /\ s.version \in Nat /\ s.version <= Len(l) /\ Len(l) \in Nat /\ Len(m) \in Nat
      /\ Len(l) < Len(m) /\ s.read \in Nat
  BY DEF SessionTrue, GrewBy
<1>2. s.version <= Len(m) /\ b.version # s.version
  BY <1>1
<1>3. s.version = s.read + 1 => m[s.version] = l[s.version]
  BY <1>1 DEF GrewBy
<1>4. (\A i \in s.version + 1..Len(l) : l[i].command # s.command) =>
        \A i \in s.version + 1..Len(m) : m[i].command # s.command
  <2>1. \A i \in s.version + 1..Len(m) :
          (i \in s.version + 1..Len(l) /\ i \in 1..Len(l)) \/ i \in Len(l) + 1..Len(m)
    BY <1>1
  <2> QED
    BY <2>1 DEF GrewBy
<1> QED
  BY <1>2, <1>3, <1>4 DEF SessionTrue

\* A request goes on to `place` with q; it may have written its events, and
\* issued a session when it ends.
LEMMA RequestMoves ==
  ASSUME AccountsInv, NEW w \in Actors, NEW q,
         NEW place \in {"idle", "verified", "append", "send", "mark"},
         request' = [request EXCEPT ![w] = place],
         call' = [call EXCEPT ![w] = q],
         \/ UNCHANGED <<account, log>>
         \/ /\ request[w] # "idle"
            /\ AccountTrue(account', log')
            /\ GrewBy(log, log', call[w].command),
         commands' \in Nat, commands <= commands', tokens' \in Nat,
         place # "idle" =>
           /\ IsCall(q)
           /\ CallTrue(q, place, account', log', commands')
           /\ \/ request[w] # "idle" /\ q.command = call[w].command
              \/ q.command = commands + 1,
         \A s \in sessions' :
           \/ s \in sessions
           \/ /\ SessionTrue(s, account', log', commands')
              /\ place = "idle" /\ request[w] # "idle" /\ s.command = call[w].command
  PROVE  AccountsInv'
<1>1. /\ commands \in Nat /\ AccountTrue(account, log) /\ account.version = Len(log)
      /\ \A i \in 1..Len(log) : log[i].command \in 1..commands
  BY DEF AccountsInv, AccountTrue
<1>2. AccountTrue(account', log') /\ account'.version = Len(log')
  BY <1>1 DEF AccountTrue
<1>3. request[w] # "idle" => call[w].command \in 1..commands
  BY DEF AccountsInv, CallsTrue, CallTrue
<1>4. \A i \in 1..Len(log') : log'[i].command \in 1..commands'
  <2>1. \A i \in 1..Len(log) : log[i].command \in 1..commands'
    BY <1>1
  <2>2. CASE UNCHANGED <<account, log>>
    BY <2>1, <2>2
  <2>3. CASE request[w] # "idle" /\ GrewBy(log, log', call[w].command)
    <3>1. \A i \in 1..Len(log') : i \in 1..Len(log) \/ i \in Len(log) + 1..Len(log')
      BY <2>3 DEF GrewBy
    <3>2. call[w].command \in 1..commands'
      BY <1>1, <1>3, <2>3
    <3> QED
      BY <2>1, <2>3, <3>1, <3>2 DEF GrewBy
  <2> QED
    BY <2>2, <2>3
<1>5. /\ request' \in [Actors -> {"idle", "verified", "append", "send", "mark"}]
      /\ call' = [v \in Actors |-> call'[v]]
      /\ request'[w] = place /\ call'[w] = q
      /\ \A v \in Actors : v # w => request'[v] = request[v] /\ call'[v] = call[v]
  BY DEF AccountsInv, CallsTrue
<1>6. ASSUME NEW v \in Actors, v # w, request[v] # "idle"
      PROVE  /\ IsCall(call[v]) /\ CallTrue(call[v], request[v], account', log', commands')
             /\ call[v].command \in 1..commands
             /\ request[w] # "idle" => call[v].command # call[w].command
  <2>1. /\ IsCall(call[v]) /\ CallTrue(call[v], request[v], account, log, commands)
        /\ call[v].command \in 1..commands
        /\ request[w] # "idle" => call[v].command # call[w].command
    BY <1>6 DEF AccountsInv, CallsTrue, CallTrue
  <2>2. CallTrue(call[v], request[v], account', log', commands)
    <3>1. CASE UNCHANGED <<account, log>>
      BY <2>1, <3>1
    <3>2. CASE request[w] # "idle" /\ GrewBy(log, log', call[w].command)
      BY <1>2, <2>1, <3>2, CallLater
    <3> QED
      BY <3>1, <3>2
  <2>3. CallTrue(call[v], request[v], account', log', commands')
    <3>1. call[v].command \in 1..commands'
      BY <1>1, <2>1
    <3> QED
      BY <2>2, <3>1 DEF CallTrue
  <2> QED
    BY <2>1, <2>3
<1>7. place # "idle" =>
        \A v \in Actors : v # w /\ request[v] # "idle" => call[v].command # q.command
  BY <1>1, <1>6
<1>8. CallsTrue'
  <2>1. \A v \in Actors : request'[v] # "idle" =>
          IsCall(call'[v]) /\ CallTrue(call'[v], request'[v], account', log', commands')
    BY <1>5, <1>6
  <2>2. \A u, v \in Actors : u # v /\ request'[u] # "idle" /\ request'[v] # "idle" =>
          call'[u].command # call'[v].command
    <3> SUFFICES ASSUME NEW u \in Actors, NEW v \in Actors,
                        u # v, request'[u] # "idle", request'[v] # "idle"
                 PROVE  call'[u].command # call'[v].command
      OBVIOUS
    <3>1. CASE u = w
      BY <1>5, <1>7, <3>1
    <3>2. CASE v = w
      BY <1>5, <1>7, <3>2
    <3>3. CASE u # w /\ v # w
      BY <1>5, <3>3 DEF AccountsInv, CallsTrue
    <3> QED
      BY <3>1, <3>2, <3>3
  <2> QED
    BY <1>5, <2>1, <2>2 DEF CallsTrue
<1>9. ASSUME NEW s \in sessions'
      PROVE  /\ SessionTrue(s, account', log', commands')
             /\ \A v \in Actors : request'[v] # "idle" => call'[v].command # s.command
  <2>1. CASE s \in sessions
    <3>1. /\ SessionTrue(s, account, log, commands)
          /\ s.command \in 1..commands
          /\ \A v \in Actors : request[v] # "idle" => call[v].command # s.command
      BY <2>1 DEF AccountsInv, SessionsTrue, SessionTrue
    <3>2. SessionTrue(s, account', log', commands)
      <4>1. CASE UNCHANGED <<account, log>>
        BY <3>1, <4>1
      <4>2. CASE request[w] # "idle" /\ GrewBy(log, log', call[w].command)
        BY <1>2, <3>1, <4>2, SessionLater
      <4> QED
        BY <4>1, <4>2
    <3>3. s.command \in 1..commands' /\ s.command # commands + 1
      BY <1>1, <3>1
    <3>4. SessionTrue(s, account', log', commands')
      BY <3>2, <3>3 DEF SessionTrue
    <3> QED
      BY <1>5, <3>1, <3>3, <3>4
  <2>2. CASE s \notin sessions
    BY <1>5, <1>6, <2>2
  <2> QED
    BY <2>1, <2>2
<1>10. SessionsTrue'
  BY <1>9 DEF SessionsTrue
<1> QED
  BY <1>2, <1>4, <1>8, <1>10 DEF AccountsInv

\* A command begins.
LEMMA BeginKeeps ==
  ASSUME AccountsInv, NEW w \in Actors, NEW op, NEW label, NEW events, NEW password,
         Accounts!Begin(w, op, label, events, password),
         UNCHANGED <<account, log, sessions>>, tokens' \in Nat,
         \/ label = "verified" /\ op = "login" /\ account.exists /\ account.enabled
         \/ /\ label = "append" /\ op \in {"change", "request"}
            /\ EventsPlanned(op, events) /\ Completes(account, events[1])
  PROVE  AccountsInv'
<1> DEFINE q == [command |-> commands + 1, op |-> op, read |-> account,
                 events |-> events, password |-> password,
                 expectedVersion |-> account.version]
<1>1. /\ request' = [request EXCEPT ![w] = label] /\ call' = [call EXCEPT ![w] = q]
      /\ commands' = commands + 1
  BY DEF Accounts!Begin, Accounts!Go
<1>2. /\ commands \in Nat /\ account.version = Len(log) /\ Len(log) \in Nat
      /\ \A i \in 1..Len(log) : log[i].command \in 1..commands
  <2>1. PICK S : log \in Seq(S)
    BY DEF AccountsInv, AccountTrue
  <2> QED
    BY <2>1 DEF AccountsInv, AccountTrue
<1>3. /\ q.command = commands + 1 /\ q.op = op /\ q.read = account /\ q.events = events
      /\ q.expectedVersion = account.version /\ IsCall(q)
  BY DEF IsCall
<1> HIDE DEF q
<1>4. \A i \in 1..Len(log) : log[i].command # commands + 1
  BY <1>2
<1>5. CallTrue(q, label, account, log, commands + 1)
  BY <1>2, <1>3, <1>4 DEF CallTrue
<1>6. /\ commands' \in Nat /\ commands <= commands' /\ label \in {"verified", "append"}
  BY <1>1, <1>2
<1>7. CallTrue(q, label, account', log', commands')
  BY <1>1, <1>5
<1> QED
  BY <1>1, <1>3, <1>6, <1>7, RequestMoves

LEMMA PlanKeeps ==
  ASSUME AccountsInv, NEW w \in Actors, NEW op \in {"change", "request"}, NEW event,
         Accounts!Plan(w, op, event),
         UNCHANGED <<account, log, sessions>>, tokens' \in Nat,
         EventOK(event), event.kind \notin FailureKinds,
         op = "request" => Accounts!Requests(event),
         Completes(account, event)
  PROVE  AccountsInv'
<1>1. Len(<<event>>) = 1 /\ <<event>>[1] = event /\ \A i \in 1..1 : i = 1
  OBVIOUS
<1>2. EventsPlanned(op, <<event>>)
  BY <1>1 DEF EventsPlanned
<1>3. Accounts!Begin(w, op, "append", <<event>>, "")
  BY DEF Accounts!Plan
<1> QED
  BY <1>1, <1>2, <1>3, BeginKeeps

\* An event that is no request, failure or completion, and sets no challenge.
Plain(e) ==
  /\ e.kind \in {"Created", "PasswordChanged", "RolesChanged", "EnabledChanged", "Linked",
                 "Synced", "Rehashed"}
  /\ DOMAIN e.payload \cap Purposes = {}

LEMMA PlainEvents ==
  ASSUME NEW e, Plain(e)
  PROVE  /\ EventOK(e) /\ e.kind \notin FailureKinds
         /\ \A a : Completes(a, e)
BY DEF Plain, EventOK, FailureKinds, Completes, Accounts!Requests

LEMMA AdminKeeps ==
  ASSUME AccountsInv, NEW w \in Actors, Accounts!AdminCommand(w)
  PROVE  AccountsInv'
<1> USE DEF Purposes
<1>1. ASSUME NEW op \in {"change"}, NEW event, Plain(event), Accounts!Plan(w, op, event),
             Accounts!Unchanging
      PROVE  AccountsInv'
  <2>1. UNCHANGED <<account, log, sessions>> /\ tokens' \in Nat
    BY <1>1 DEF Accounts!Unchanging, Accounts!Observed, AccountsInv
  <2>2. EventOK(event) /\ event.kind \notin FailureKinds /\ Completes(account, event)
    BY <1>1, PlainEvents
  <2> QED
    BY <1>1, <2>1, <2>2, PlanKeeps
<1>2. ASSUME NEW password, NEW roles, NEW email, NEW enabled,
             Accounts!Create(w, password, roles, email, enabled)
      PROVE  AccountsInv'
  <2> DEFINE event == Accounts!Event("Created", [email |-> email, roles |-> roles,
                            hash |-> Accounts!hash(password), enabled |-> enabled], 0)
  <2>1. Accounts!Plan(w, "change", event) /\ Accounts!Unchanging
    BY <1>2 DEF Accounts!Create
  <2>2. Plain(event)
    BY DEF Plain, Accounts!Event
  <2> QED
    BY <1>1, <2>1, <2>2
<1>3. ASSUME NEW password, Accounts!ChangePassword(w, password)
      PROVE  AccountsInv'
  <2> DEFINE event == Accounts!Event("PasswordChanged", [hash |-> Accounts!hash(password)], 0)
  <2>1. Accounts!Plan(w, "change", event) /\ Accounts!Unchanging
    BY <1>3 DEF Accounts!ChangePassword
  <2>2. Plain(event)
    BY DEF Plain, Accounts!Event
  <2> QED
    BY <1>1, <2>1, <2>2
<1>4. ASSUME NEW roles, Accounts!ChangeRoles(w, roles)
      PROVE  AccountsInv'
  <2> DEFINE event == Accounts!Event("RolesChanged", [roles |-> roles], 0)
  <2>1. Accounts!Plan(w, "change", event) /\ Accounts!Unchanging
    BY <1>4 DEF Accounts!ChangeRoles
  <2>2. Plain(event)
    BY DEF Plain, Accounts!Event
  <2> QED
    BY <1>1, <2>1, <2>2
<1>5. ASSUME NEW enabled, Accounts!ChangeEnabled(w, enabled)
      PROVE  AccountsInv'
  <2> DEFINE event == Accounts!Event("EnabledChanged", [enabled |-> enabled], 0)
  <2>1. Accounts!Plan(w, "change", event) /\ Accounts!Unchanging
    BY <1>5 DEF Accounts!ChangeEnabled
  <2>2. Plain(event)
    BY DEF Plain, Accounts!Event
  <2> QED
    BY <1>1, <2>1, <2>2
<1>6. ASSUME NEW patch \in AccountPatches, Accounts!SyncProvider(w, patch)
      PROVE  AccountsInv'
  <2> DEFINE payload == Accounts!ProviderPayload(patch)
             created == Accounts!Override([roles |-> DefaultRoles, enabled |-> TRUE], payload)
  <2>1. DOMAIN payload \subseteq {"email", "roles", "enabled", "verifiedAt"}
    BY PatchAssumption DEF Accounts!ProviderPayload
  <2>2. DOMAIN created \subseteq {"email", "roles", "enabled", "verifiedAt"}
    BY <2>1 DEF Accounts!Override
  <2>3. Accounts!Unchanging
    BY <1>6 DEF Accounts!SyncProvider
  <2>4. \/ Accounts!Begin(w, "change", "append",
                          <<Accounts!Event("Created", created, 0),
                            Accounts!Event("Linked", created, 0)>>, "")
        \/ Accounts!Plan(w, "change", Accounts!Event("Linked", payload, 0))
        \/ Accounts!Plan(w, "change", Accounts!Event("Synced", payload, 0))
    BY <1>6 DEF Accounts!SyncProvider
  <2> HIDE DEF payload, created
  <2>5. /\ Plain(Accounts!Event("Created", created, 0)) /\ Plain(Accounts!Event("Linked", created, 0))
        /\ Plain(Accounts!Event("Linked", payload, 0)) /\ Plain(Accounts!Event("Synced", payload, 0))
    BY <2>1, <2>2 DEF Plain, Accounts!Event
  <2>6. CASE Accounts!Begin(w, "change", "append",
                            <<Accounts!Event("Created", created, 0),
                              Accounts!Event("Linked", created, 0)>>, "")
    <3> DEFINE first == Accounts!Event("Created", created, 0)
               second == Accounts!Event("Linked", created, 0)
               events == <<first, second>>
    <3>1. /\ Len(events) = 2 /\ events[1] = first /\ events[2] = second
          /\ \A i \in 1..2 : i = 1 \/ i = 2
      OBVIOUS
    <3>2. /\ first.kind = "Created" /\ second.kind = "Linked"
      BY DEF Accounts!Event
    <3>3. /\ EventOK(first) /\ first.kind \notin FailureKinds /\ Completes(account, first)
          /\ EventOK(second) /\ second.kind \notin FailureKinds
      BY <2>5, PlainEvents
    <3>4. Accounts!Begin(w, "change", "append", events, "")
      BY <2>6
    <3>5. UNCHANGED <<account, log, sessions>> /\ tokens' \in Nat
      BY <2>3 DEF Accounts!Unchanging, Accounts!Observed, AccountsInv
    <3> HIDE DEF events, first, second
    <3>6. EventsPlanned("change", events)
      BY <3>1, <3>2, <3>3 DEF EventsPlanned
    <3> QED
      BY <3>1, <3>3, <3>4, <3>5, <3>6, BeginKeeps
  <2> QED
    BY <1>1, <2>3, <2>4, <2>5, <2>6
<1> QED
  BY <1>2, <1>3, <1>4, <1>5, <1>6 DEF Accounts!AdminCommand

LEMMA UserKeeps ==
  ASSUME AccountsInv, NEW w \in Actors, Accounts!UserCommand(w)
  PROVE  AccountsInv'
<1>0. tokens \in Nat
  BY DEF AccountsInv
<1>1. ASSUME Accounts!Unchanging
      PROVE  UNCHANGED <<account, log, sessions>> /\ tokens' \in Nat
  BY <1>0, <1>1 DEF Accounts!Unchanging, Accounts!Observed
<1>2. ASSUME NEW password, Accounts!Login(w, password)
      PROVE  AccountsInv'
  <2>1. /\ Accounts!Begin(w, "login", "verified", <<>>, password)
        /\ account.exists /\ account.enabled /\ Accounts!Unchanging
    BY <1>2 DEF Accounts!Login
  <2> QED
    BY <1>1, <2>1, BeginKeeps
<1>3. CASE Accounts!RequestPasswordReset(w)
  <2> DEFINE event == Accounts!Event("ResetRequested",
                                     [reset |-> Accounts!Challenge(tokens + 1)], tokens + 1)
  <2>0. /\ Accounts!Plan(w, "request", event) /\ tokens' = tokens + 1
        /\ UNCHANGED <<account, log, Accounts!Observed>>
    BY <1>3, Zenon DEF Accounts!RequestPasswordReset
  <2>1. UNCHANGED <<account, log, sessions>> /\ tokens' \in Nat
    BY <1>0, <2>0 DEF Accounts!Observed
  <2>2. /\ EventOK(event) /\ event.kind \notin FailureKinds /\ Accounts!Requests(event)
        /\ Completes(account, event)
    BY DEF EventOK, Accounts!Event, Accounts!Challenge, Accounts!Requests, FailureKinds, Completes
  <2> HIDE DEF event
  <2> QED
    BY <2>0, <2>1, <2>2, PlanKeeps
<1>4. CASE Accounts!RequestEmailVerification(w)
  <2> DEFINE event == Accounts!Event("VerificationRequested",
                                     [verification |-> Accounts!Challenge(tokens + 1)], tokens + 1)
  <2>0. /\ Accounts!Plan(w, "request", event) /\ tokens' = tokens + 1
        /\ UNCHANGED <<account, log, Accounts!Observed>>
    BY <1>4, Zenon DEF Accounts!RequestEmailVerification
  <2>1. UNCHANGED <<account, log, sessions>> /\ tokens' \in Nat
    BY <1>0, <2>0 DEF Accounts!Observed
  <2>2. /\ EventOK(event) /\ event.kind \notin FailureKinds /\ Accounts!Requests(event)
        /\ Completes(account, event)
    BY DEF EventOK, Accounts!Event, Accounts!Challenge, Accounts!Requests, FailureKinds, Completes
  <2> HIDE DEF event
  <2> QED
    BY <2>0, <2>1, <2>2, PlanKeeps
<1>5. ASSUME NEW token \in 1..tokens, Accounts!VerifyEmail(w, token)
      PROVE  AccountsInv'
  <2> DEFINE event == Accounts!Event("EmailVerified", [verifiedAt |-> account.version + 1], token)
  <2>1. /\ Accounts!Plan(w, "change", event) /\ Accounts!Unchanging
        /\ account["verification"].token = token /\ token # 0
    BY <1>0, <1>5 DEF Accounts!VerifyEmail, Accounts!Usable
  <2>2. /\ EventOK(event) /\ event.kind \notin FailureKinds /\ Completes(account, event)
    BY <2>1 DEF EventOK, Accounts!Event, Accounts!Requests, FailureKinds, Completes, Purposes
  <2> HIDE DEF event
  <2> QED
    BY <1>1, <2>1, <2>2, PlanKeeps
<1>6. ASSUME NEW token \in 1..tokens, NEW password, Accounts!ResetPassword(w, token, password)
      PROVE  AccountsInv'
  <2> DEFINE event == Accounts!Event("ResetCompleted", [hash |-> Accounts!hash(password)], token)
  <2>1. /\ Accounts!Plan(w, "change", event) /\ Accounts!Unchanging
        /\ account["reset"].token = token /\ token # 0
    BY <1>0, <1>6 DEF Accounts!ResetPassword, Accounts!Usable
  <2>2. /\ EventOK(event) /\ event.kind \notin FailureKinds /\ Completes(account, event)
    BY <2>1 DEF EventOK, Accounts!Event, Accounts!Requests, FailureKinds, Completes, Purposes
  <2> HIDE DEF event
  <2> QED
    BY <1>1, <2>1, <2>2, PlanKeeps
<1> QED
  BY <1>2, <1>3, <1>4, <1>5, <1>6 DEF Accounts!UserCommand

\* The session of a login, when it ends.
Session(q, version, lost) ==
  [command |-> q.command, read |-> q.read.version, version |-> version, lost |-> lost]

\* A request ends; if it was a login, with a session.
LEMMA RequestEnds ==
  ASSUME AccountsInv, NEW w \in Actors, request[w] # "idle", Accounts!End(w),
         \/ UNCHANGED <<account, log>>
         \/ AccountTrue(account', log') /\ GrewBy(log, log', call[w].command),
         UNCHANGED <<commands, tokens>>,
         \/ UNCHANGED sessions
         \/ \E version, lost :
              /\ sessions' = sessions \cup {Session(call[w], version, lost)}
              /\ SessionTrue(Session(call[w], version, lost), account', log', commands)
  PROVE  AccountsInv'
<1>1. /\ request' = [request EXCEPT ![w] = "idle"]
      /\ call' = [call EXCEPT ![w] = Accounts!Idle]
  BY DEF Accounts!End, Accounts!Go
<1>2. commands' \in Nat /\ commands <= commands' /\ tokens' \in Nat
  BY DEF AccountsInv
<1>3. \A s \in sessions' :
        \/ s \in sessions
        \/ /\ SessionTrue(s, account', log', commands')
           /\ s.command = call[w].command
  <2>1. CASE UNCHANGED sessions
    BY <2>1
  <2>2. ASSUME NEW version, NEW lost,
               sessions' = sessions \cup {Session(call[w], version, lost)},
               SessionTrue(Session(call[w], version, lost), account', log', commands)
        PROVE  \A s \in sessions' :
                 \/ s \in sessions
                 \/ /\ SessionTrue(s, account', log', commands')
                    /\ s.command = call[w].command
    <3>1. Session(call[w], version, lost).command = call[w].command
      BY DEF Session
    <3>2. SessionTrue(Session(call[w], version, lost), account', log', commands')
      BY <2>2
    <3> QED
      BY <2>2, <3>1, <3>2
  <2> QED
    BY <2>1, <2>2
<1>4. \/ UNCHANGED <<account, log>>
      \/ /\ request[w] # "idle" /\ AccountTrue(account', log')
         /\ GrewBy(log, log', call[w].command)
  OBVIOUS
<1> HIDE DEF Session
<1> QED
  BY <1>1, <1>2, <1>3, <1>4, RequestMoves

LEMMA IssueIs ==
  ASSUME NEW w \in Actors, NEW version, NEW lost, Accounts!Issue(w, version, lost)
  PROVE  /\ sessions' = sessions \cup {Session(call[w], version, lost)}
         /\ Accounts!End(w)
BY DEF Accounts!Issue, Session

\* What a login knows of the account.
LEMMA LoginKnows ==
  ASSUME AccountsInv, NEW w \in Actors, request[w] \in {"verified", "append"},
         call[w].op = "login"
  PROVE  /\ call[w].command \in 1..commands /\ call[w].read.version \in 0..Len(log)
         /\ call[w].expectedVersion = call[w].read.version
         /\ account.version = Len(log) /\ Len(log) \in Nat
         /\ account.version = call[w].read.version => account.exists /\ account.enabled
         /\ \A i \in 1..Len(log) : log[i].command # call[w].command
<1>1. PICK S : log \in Seq(S)
  BY DEF AccountsInv, AccountTrue
<1>2. Len(log) \in Nat /\ account.version = Len(log)
  BY <1>1 DEF AccountsInv, AccountTrue
<1>3. CallTrue(call[w], request[w], account, log, commands)
  BY DEF AccountsInv, CallsTrue
<1> QED
  BY <1>2, <1>3 DEF CallTrue

\* A session at the version that the login has read.
LEMMA ReadSession ==
  ASSUME AccountsInv, NEW w \in Actors, request[w] \in {"verified", "append"},
         call[w].op = "login", NEW lost \in BOOLEAN
  PROVE  SessionTrue(Session(call[w], call[w].read.version, lost), account, log, commands)
<1> DEFINE s == Session(call[w], call[w].read.version, lost)
<1>1. /\ s.command = call[w].command /\ s.read = call[w].read.version
      /\ s.version = call[w].read.version /\ s.lost = lost
  BY DEF Session
<1>2. /\ s.read \in Nat /\ s.version <= Len(log) /\ s.version # s.read + 1
      /\ \A i \in s.version + 1..Len(log) : i \in 1..Len(log)
  BY <1>1, LoginKnows
<1> HIDE DEF s
<1>3. SessionTrue(s, account, log, commands)
  BY <1>1, <1>2, LoginKnows DEF SessionTrue
<1> QED
  BY <1>3 DEF s

\* A rehash changes nothing that a session depends on.
LEMMA RehashedAccount ==
  ASSUME NEW a, NEW e, DOMAIN a = Fields, a = [f \in DOMAIN a |-> a[f]],
         e.kind = "Rehashed", DOMAIN e.payload = {"hash"}
  PROVE  Accounts!Fold(a, e).exists = a.exists /\ Accounts!Fold(a, e).enabled = a.enabled
<1>1. Accounts!Revokes(e) = {}
  BY DEF Accounts!Revokes, Accounts!Disables
<1>2. {"exists", "enabled"} \subseteq Fields \ {"version", "linked", "link"}
  BY DEF Fields
<1>3. \A f \in Fields \ {"version", "linked", "link"} :
        Accounts!Fold(a, e)[f] =
          IF f \in Accounts!Revokes(e) THEN Accounts!NoChallenge
          ELSE IF f \in DOMAIN e.payload THEN e.payload[f] ELSE FoldBase(a, e)[f]
  BY FoldIs
<1> QED
  BY <1>1, <1>2, <1>3 DEF FoldBase

LEMMA FinishLoginKeeps ==
  ASSUME AccountsInv, NEW w \in Actors, Accounts!FinishLogin(w)
  PROVE  AccountsInv'
<1>1. /\ request[w] = "verified" /\ Accounts!Issue(w, call[w].read.version, FALSE)
      /\ UNCHANGED <<account, log, commands, tokens>>
  BY DEF Accounts!FinishLogin
<1>2. call[w].op = "login"
  BY <1>1 DEF AccountsInv, CallsTrue, CallTrue
<1>3. SessionTrue(Session(call[w], call[w].read.version, FALSE), account', log', commands)
  BY <1>1, <1>2, ReadSession
<1> QED
  BY <1>1, <1>3, IssueIs, RequestEnds

LEMMA RehashKeeps ==
  ASSUME AccountsInv, NEW w \in Actors, Accounts!Rehash(w)
  PROVE  AccountsInv'
<1> DEFINE e == Accounts!Event("Rehashed", [hash |-> Accounts!hash(call[w].password)], 0)
           q == [call[w] EXCEPT !.events = <<e>>]
<1>1. /\ request[w] = "verified" /\ UNCHANGED commands /\ Accounts!Unchanging
      /\ request' = [request EXCEPT ![w] = "append"] /\ call' = [call EXCEPT ![w] = q]
  BY DEF Accounts!Rehash, Accounts!Go
<1>2. UNCHANGED <<account, log, tokens, sessions>>
  BY <1>1 DEF Accounts!Unchanging, Accounts!Observed
<1>3. IsCall(call[w]) /\ CallTrue(call[w], "verified", account, log, commands)
  BY <1>1 DEF AccountsInv, CallsTrue
<1>4. /\ Len(<<e>>) = 1 /\ <<e>>[1] = e /\ \A i \in 1..1 : i = 1
      /\ e.kind = "Rehashed" /\ DOMAIN e.payload = {"hash"}
  BY DEF Accounts!Event
<1>5. Plain(e)
  BY <1>4 DEF Plain, Purposes
<1>6. EventsPlanned("login", <<e>>) /\ Completes(account, e)
  BY <1>4, <1>5, PlainEvents DEF EventsPlanned
<1> HIDE DEF e
<1>7. /\ q.command = call[w].command /\ q.op = call[w].op /\ q.read = call[w].read
      /\ q.events = <<e>> /\ q.password = call[w].password
      /\ q.expectedVersion = call[w].expectedVersion
      /\ IsCall(q)
  BY <1>3 DEF IsCall
<1> HIDE DEF q
<1>8. CallTrue(q, "append", account, log, commands)
  BY <1>3, <1>4, <1>6, <1>7 DEF CallTrue
<1>9. CallTrue(q, "append", account', log', commands')
  BY <1>1, <1>2, <1>8
<1>10. commands' \in Nat /\ commands <= commands' /\ tokens' \in Nat
  BY <1>1, <1>2 DEF AccountsInv
<1> QED
  BY <1>1, <1>2, <1>7, <1>9, <1>10, RequestMoves

LEMMA AppendCommitKeeps ==
  ASSUME AccountsInv, NEW w \in Actors, Accounts!AppendCommit(w)
  PROVE  AccountsInv'
<1>1. /\ request[w] = "append" /\ Accounts!Accepted(w) /\ Accounts!Written(w)
      /\ UNCHANGED <<tokens, commands>>
  BY DEF Accounts!AppendCommit
<1>2. /\ AccountTrue(account', log')
      /\ GrewBy(log, log', call[w].command)
      /\ log'[Len(log) + 1].event = call[w].events[1]
      /\ Len(call[w].events) = 1 =>
           account' = Accounts!Fold(account, call[w].events[1]) /\ Len(log') = Len(log) + 1
  BY <1>1, WrittenIs
<1>3. /\ IsCall(call[w]) /\ CallTrue(call[w], "append", account, log, commands)
      /\ EventsPlanned(call[w].op, call[w].events)
      /\ account.version = call[w].read.version /\ account.version = Len(log)
  BY <1>1 DEF AccountsInv, CallsTrue, CallTrue, Accounts!Accepted, AccountTrue
<1>4. CASE Accounts!End(w) /\ UNCHANGED sessions
  BY <1>1, <1>2, <1>4, RequestEnds
<1>5. CASE call[w].op = "login" /\ Accounts!Issue(w, account.version + 1, FALSE)
  <2> DEFINE s == Session(call[w], account.version + 1, FALSE)
  <2>1. /\ s.command = call[w].command /\ s.read = Len(log) /\ s.version = Len(log) + 1
        /\ s.lost = FALSE
    BY <1>3 DEF Session
  <2>2. /\ Len(call[w].events) = 1 /\ call[w].events[1].kind = "Rehashed"
        /\ DOMAIN call[w].events[1].payload = {"hash"}
    BY <1>3, <1>5 DEF EventsPlanned
  <2>3. /\ DOMAIN account = Fields /\ account = [f \in DOMAIN account |-> account[f]]
        /\ account.exists /\ account.enabled
    BY <1>1, <1>3, <1>5, LoginKnows, NoAccountIs DEF AccountsInv, AccountTrue
  <2>4. account'.exists /\ account'.enabled
    BY <1>2, <2>2, <2>3, RehashedAccount
  <2>5. Len(log') = Len(log) + 1 /\ Len(log) \in Nat /\ log'[Len(log) + 1].command = call[w].command
    BY <1>2, <2>2 DEF GrewBy
  <2> HIDE DEF s
  <2>6. \A i \in s.version + 1..Len(log') : FALSE
    BY <2>1, <2>5
  <2>7. s.command \in 1..commands
    BY <1>3, <2>1 DEF CallTrue
  <2>8. SessionTrue(s, account', log', commands)
    BY <2>1, <2>4, <2>5, <2>6, <2>7 DEF SessionTrue
  <2> USE DEF s
  <2> QED
    BY <1>1, <1>2, <1>5, <2>8, IssueIs, RequestEnds
<1>6. CASE call[w].op = "request" /\ Accounts!Go(w, "send", call[w]) /\ UNCHANGED sessions
  <2>1. request' = [request EXCEPT ![w] = "send"] /\ call' = [call EXCEPT ![w] = call[w]]
    BY <1>6 DEF Accounts!Go
  <2>2. Len(call[w].events) = 1 /\ Accounts!Requests(call[w].events[1])
    BY <1>3, <1>6 DEF EventsPlanned
  <2>3. /\ call[w].read.version \in 0..Len(log') /\ call[w].read.version < Len(log')
        /\ log'[call[w].read.version + 1].event = call[w].events[1]
    BY <1>2, <1>3 DEF GrewBy
  <2>4. CallTrue(call[w], "send", account', log', commands')
    BY <1>1, <1>3, <1>6, <2>2, <2>3 DEF CallTrue
  <2>5. commands' \in Nat /\ commands <= commands' /\ tokens' \in Nat
    BY <1>1 DEF AccountsInv
  <2> QED
    BY <1>1, <1>2, <1>3, <1>6, <2>1, <2>4, <2>5, RequestMoves
<1> QED
  BY <1>4, <1>5, <1>6 DEF Accounts!AppendCommit

LEMMA AppendConflictKeeps ==
  ASSUME AccountsInv, NEW w \in Actors, Accounts!AppendConflict(w)
  PROVE  AccountsInv'
<1>1. request[w] = "append" /\ UNCHANGED <<account, log, tokens, commands>>
  BY DEF Accounts!AppendConflict
<1>2. CASE Accounts!End(w) /\ UNCHANGED sessions
  BY <1>1, <1>2, RequestEnds
<1>3. CASE call[w].op = "login" /\ Accounts!Issue(w, call[w].read.version, FALSE)
  <2>1. SessionTrue(Session(call[w], call[w].read.version, FALSE), account', log', commands)
    BY <1>1, <1>3, ReadSession
  <2> QED
    BY <1>1, <1>3, <2>1, IssueIs, RequestEnds
<1> QED
  BY <1>2, <1>3 DEF Accounts!AppendConflict

LEMMA AppendErrorKeeps ==
  ASSUME AccountsInv, NEW w \in Actors, Accounts!AppendError(w)
  PROVE  AccountsInv'
<1>1. /\ request[w] = "append" /\ UNCHANGED <<tokens, commands>>
      /\ UNCHANGED <<account, log>> \/ (Accounts!Accepted(w) /\ Accounts!Written(w))
      /\ \/ call[w].op = "login" /\ Accounts!Issue(w, call[w].read.version, TRUE)
         \/ Accounts!End(w) /\ UNCHANGED sessions
  BY DEF Accounts!AppendError
<1>2. \/ UNCHANGED <<account, log>>
      \/ AccountTrue(account', log') /\ GrewBy(log, log', call[w].command)
  BY <1>1, WrittenIs
<1>3. CASE Accounts!End(w) /\ UNCHANGED sessions
  BY <1>1, <1>2, <1>3, RequestEnds
<1>4. CASE call[w].op = "login" /\ Accounts!Issue(w, call[w].read.version, TRUE)
  <2> DEFINE s == Session(call[w], call[w].read.version, TRUE)
  <2>1. SessionTrue(s, account, log, commands)
    BY <1>1, <1>4, ReadSession
  <2>2. SessionTrue(s, account', log', commands)
    <3>1. CASE UNCHANGED <<account, log>>
      BY <2>1, <3>1
    <3>2. CASE AccountTrue(account', log') /\ GrewBy(log, log', call[w].command)
      <4>1. /\ s.lost = TRUE /\ s.read = call[w].read.version /\ s.version = call[w].read.version
            /\ s.read \in Nat /\ s.version <= Len(log) /\ s.command \in 1..commands
        BY <2>1 DEF Session, SessionTrue
      <4> HIDE DEF s
      <4>2. /\ s.version <= Len(log') /\ account'.version # s.version
            /\ s.version # s.read + 1
        BY <3>2, <4>1 DEF AccountTrue, GrewBy
      <4> QED
        BY <4>1, <4>2 DEF SessionTrue
    <3> QED
      BY <1>2, <3>1, <3>2
  <2> QED
    BY <1>1, <1>2, <1>4, <2>2, IssueIs, RequestEnds
<1> QED
  BY <1>1, <1>3, <1>4

LEMMA SendFailsKeeps ==
  ASSUME AccountsInv, NEW w \in Actors, Accounts!SendFails(w)
  PROVE  AccountsInv'
<1> DEFINE e == Accounts!Event(Accounts!FailureKind(call[w].events[1].kind), Accounts!NoPayload,
                               Accounts!TokenOf(w))
           later == call[w].read.version + 1
           q == [call[w] EXCEPT !.expectedVersion = later, !.events = <<e>>]
<1>1. /\ request[w] = "send" /\ UNCHANGED <<account, log, tokens, sessions, commands>>
      /\ request' = [request EXCEPT ![w] = "mark"] /\ call' = [call EXCEPT ![w] = q]
  BY DEF Accounts!SendFails, Accounts!Go
<1>2. IsCall(call[w]) /\ CallTrue(call[w], "send", account, log, commands)
  BY <1>1 DEF AccountsInv, CallsTrue
<1>3. Len(<<e>>) = 1 /\ <<e>>[1] = e
  OBVIOUS
<1>4. e.kind \in FailureKinds /\ EventOK(e)
  BY DEF Accounts!Event, Accounts!FailureKind, Accounts!NoPayload, FailureKinds, EventOK,
         Accounts!Requests, Purposes
<1>5. FailureOf(call[w].events[1], e)
  <2>1. Accounts!Requests(call[w].events[1])
    BY <1>2 DEF CallTrue
  <2> QED
    BY <2>1 DEF FailureOf, Accounts!Event, Accounts!FailureKind, Accounts!TokenOf,
         Accounts!Requests, Accounts!Purpose
<1> DEFINE es == <<e>>
<1>0. q = [call[w] EXCEPT !.expectedVersion = later, !.events = es]
  OBVIOUS
<1> HIDE DEF later, q, es
<1>6. /\ q.command = call[w].command /\ q.op = call[w].op /\ q.read = call[w].read
      /\ q.events = es /\ q.password = call[w].password
      /\ q.expectedVersion = later
      /\ IsCall(q)
  <2> DEFINE fields == {"command", "op", "read", "events", "password", "expectedVersion"}
  <2>1. PICK c, op, read, old, password, v :
          call[w] = [command |-> c, op |-> op, read |-> read, events |-> old,
                     password |-> password, expectedVersion |-> v]
    BY <1>2 DEF IsCall
  <2> DEFINE r == [command |-> c, op |-> op, read |-> read, events |-> es,
                   password |-> password, expectedVersion |-> later]
  <2>2. DOMAIN call[w] = fields
    BY <2>1
  <2>3. q = [f \in fields |-> IF f = "events" THEN es
                              ELSE IF f = "expectedVersion" THEN later ELSE call[w][f]]
    BY <1>0, <2>2
  <2>4. r = [f \in fields |-> IF f = "events" THEN es
                              ELSE IF f = "expectedVersion" THEN later ELSE call[w][f]]
    BY <2>1
  <2>5. q = r
    BY <2>3, <2>4
  <2> QED
    BY <2>1, <2>5 DEF IsCall
<1> HIDE DEF e
<1>7. CallTrue(q, "mark", account, log, commands)
  BY <1>2, <1>3, <1>4, <1>5, <1>6 DEF CallTrue, later, es
<1>8. CallTrue(q, "mark", account', log', commands')
  BY <1>1, <1>7
<1>9. commands' \in Nat /\ commands <= commands' /\ tokens' \in Nat
  BY <1>1 DEF AccountsInv
<1> QED
  BY <1>1, <1>6, <1>8, <1>9, RequestMoves

LEMMA AccountsStep ==
  ASSUME AccountsInv, Accounts!Next
  PROVE  AccountsInv'
<1>1. ASSUME UNCHANGED <<account, log, tokens, sessions, request, call, commands>>
      PROVE  AccountsInv'
  BY <1>1 DEF AccountsInv, CallsTrue, SessionsTrue
<1>2. ASSUME NEW w \in Actors, Accounts!Send(w)
      PROVE  AccountsInv'
  <2>1. /\ request[w] = "send" /\ Accounts!End(w)
        /\ UNCHANGED <<account, log, tokens, sessions, commands>>
    BY <1>2 DEF Accounts!Send
  <2> QED
    BY <2>1, RequestEnds
<1>3. ASSUME NEW w \in Actors, Accounts!MarkRecoveryDeliveryFailed(w)
      PROVE  AccountsInv'
  <2>1. /\ request[w] = "mark" /\ Accounts!End(w) /\ UNCHANGED <<tokens, sessions, commands>>
        /\ \/ Accounts!Accepted(w) /\ Accounts!Written(w)
           \/ UNCHANGED <<account, log>>
    BY <1>3 DEF Accounts!MarkRecoveryDeliveryFailed
  <2>2. \/ UNCHANGED <<account, log>>
        \/ AccountTrue(account', log') /\ GrewBy(log, log', call[w].command)
    BY <2>1, WrittenIs
  <2> QED
    BY <2>1, <2>2, RequestEnds
<1>4. \A w \in Actors : Accounts!Step(w) => AccountsInv'
  BY <1>2, <1>3, FinishLoginKeeps, RehashKeeps, AppendCommitKeeps, AppendConflictKeeps,
     AppendErrorKeeps, SendFailsKeeps DEF Accounts!Step
<1>5. \A token \in 1..tokens : Accounts!Expire(token) => AccountsInv'
  BY <1>1 DEF Accounts!Expire
<1>6. Accounts!RaiseCost => AccountsInv'
  BY <1>1 DEF Accounts!RaiseCost
<1> QED
  BY <1>4, <1>5, <1>6, AdminKeeps, UserKeeps DEF Accounts!Next

LEMMA AccountsInits ==
  ASSUME Accounts!Init
  PROVE  AccountsInv
<1>1. /\ account = Accounts!NoAccount /\ log = <<>> /\ sessions = {} /\ tokens = 0 /\ commands = 0
      /\ request = [w \in Actors |-> "idle"] /\ call = [w \in Actors |-> Accounts!Idle]
  BY DEF Accounts!Init
<1>2. log \in Seq({}) /\ Len(log) = 0
  BY <1>1
<1>3. AccountTrue(account, log)
  <2>1. \A p \in Purposes : account[p].token = 0
    BY <1>1, NoAccountIs DEF Purposes
  <2>2. \A i \in 1..Len(log) : FALSE
    BY <1>2
  <2>3. account = [f \in DOMAIN account |-> account[f]]
    BY <1>1 DEF Accounts!NoAccount
  <2> QED
    BY <1>1, <1>2, <2>1, <2>2, <2>3, NoAccountIs DEF AccountTrue, ChallengesTrue, LogTrue
<1>4. CallsTrue /\ SessionsTrue
  BY <1>1 DEF CallsTrue, SessionsTrue
<1> QED
  BY <1>1, <1>2, <1>3, <1>4 DEF AccountsInv

LEMMA AccountsOfServices ==
  ServicesSpec => []AccountsInv
<1>1. ServicesInit => AccountsInv
  BY AccountsInits DEF ServicesInit
<1>2. AccountsInv /\ [ServicesNext]_<<service, patchVars, storeVars, rebuildVars, hubVars, accountVars>>
        => AccountsInv'
  <2>1. [ServicesNext]_<<service, patchVars, storeVars, rebuildVars, hubVars, accountVars>> =>
          Accounts!Next \/ UNCHANGED accountVars
    BY DEF ServicesNext
  <2>2. AccountsInv /\ UNCHANGED accountVars => AccountsInv'
    BY DEF AccountsInv, CallsTrue, SessionsTrue, accountVars
  <2> QED
    BY <2>1, <2>2, AccountsStep
<1> QED
  BY <1>1, <1>2, PTL DEF ServicesSpec

\* UserAccountService.authenticateAccount and ensureUserAccountSessionCurrent: a
\* session is accepted exactly while nobody but its own login has changed the
\* account since the login read it.
THEOREM SessionsLastUntilAChange ==
  ServicesSpec => []SessionsExact
<1>1. AccountsInv => SessionsExact
  <2> SUFFICES ASSUME AccountsInv, NEW s \in sessions
               PROVE  LET untouched == \A i \in s.read + 1..Len(log) : log[i].command = s.command
                      IN  /\ Accounts!SessionCurrent(s) => untouched
                          /\ untouched /\ ~ s.lost => Accounts!SessionCurrent(s)
    BY DEF SessionsExact, Accounts!SessionsExact
  <2>1. SessionTrue(s, account, log, commands) /\ account.version = Len(log)
    BY DEF AccountsInv, SessionsTrue, AccountTrue
  <2>2. PICK S : log \in Seq(S)
    BY DEF AccountsInv, AccountTrue
  <2>3. Len(log) \in Nat
    BY <2>2
  <2>4. Accounts!SessionCurrent(s) => \A i \in s.read + 1..Len(log) : log[i].command = s.command
    <3>1. ASSUME account.version = s.version, NEW i \in s.read + 1..Len(log)
          PROVE  i = s.version /\ s.version = s.read + 1
      BY <2>1, <2>3, <3>1 DEF SessionTrue
    <3> QED
      BY <2>1, <3>1 DEF SessionTrue, Accounts!SessionCurrent
  <2>5. ASSUME \A i \in s.read + 1..Len(log) : log[i].command = s.command, ~ s.lost
        PROVE  Accounts!SessionCurrent(s)
    <3>1. \A i \in s.version + 1..Len(log) : FALSE
      <4>1. \A i \in s.version + 1..Len(log) : i \in s.read + 1..Len(log)
        BY <2>1, <2>3 DEF SessionTrue
      <4> QED
        BY <2>1, <2>5, <4>1 DEF SessionTrue
    <3>2. s.version \in Nat /\ s.version <= Len(log)
      BY <2>1 DEF SessionTrue
    <3>3. s.version = Len(log)
      BY <2>3, <3>1, <3>2
    <3> QED
      BY <2>1, <3>3 DEF SessionTrue, Accounts!SessionCurrent
  <2> QED
    BY <2>4, <2>5
<1> QED
  BY <1>1, AccountsOfServices, PTL

\* UserAccountService.resetPassword and verifyEmail: a recovery token works once,
\* and only while it is the newest of its purpose and was not revoked.
THEOREM TokensWorkOnce ==
  ServicesSpec => []TokensSpentOnce
<1>1. AccountsInv => TokensSpentOnce
  BY DEF AccountsInv, AccountTrue, LogTrue, NewestIn, UnrevokedIn, CompletionKinds,
         TokensSpentOnce, Accounts!TokensSpentOnce, Accounts!IsNewest
<1> QED
  BY <1>1, AccountsOfServices, PTL

\* UserAccountService.markRecoveryDeliveryFailed: a delivery that failed takes
\* back its own token, never that of a later request.
THEOREM FailuresRevokeTheirOwn ==
  ServicesSpec => []FailureRevokesOwn
<1>1. AccountsInv => FailureRevokesOwn
  BY DEF AccountsInv, AccountTrue, LogTrue, NewestIn, FailureKinds,
         FailureRevokesOwn, Accounts!FailureRevokesOwn, Accounts!IsNewest
<1> QED
  BY <1>1, AccountsOfServices, PTL

-----------------------------------------------------------------------------
(* ProjectionRebuild.                                                      *)

Rows == [Rebuild!Docs -> Nat]

RunRecords == [status : {"none", "running", "completed", "aborted"}, cursor : Nat,
               errors : SUBSET Rebuild!Docs, version : Nat]

DriverRecords == [pc : {"idle", "list", "read", "save", "advance", "reread", "complete",
                        "abort"},
                  seen : RunRecords, batch : SUBSET Rebuild!Docs, last : BOOLEAN,
                  cursor : Nat, errors : SUBSET Rebuild!Docs, read : Nat]

PromoterRecords == [pc : {"idle", "enter", "reconcile", "compare", "decide"},
                    todo : SUBSET Rebuild!Docs, same : BOOLEAN]

Building == [base |-> "active", shadow |-> "building"]
Promoted == [base |-> "retired", shadow |-> "active"]

RebuildTypes ==
  /\ stream \in Rows
  /\ table \in [Rebuild!Targets -> Rows]
  /\ failed \in Rows
  /\ following \in 0..DocumentBound
  /\ run \in RunRecords
  /\ driver \in [Actors -> DriverRecords]
  /\ promoter \in PromoterRecords
  /\ raced \in BOOLEAN
  /\ state \in {Building, Promoted}

\* Who holds the barrier, and what holds while somebody does.
BarrierTrue ==
  /\ following # 0 <=> barrier = "commit"
  /\ following # 0 => stream[following] # 0
  /\ promoter.pc \in {"reconcile", "compare", "decide"} <=> barrier = "promote"
  /\ table["base"] = stream
  /\ promoter.todo \subseteq Rebuild!listStreams

\* No difference was found, and there is none.
SameTrue ==
  promoter.pc = "decide" /\ promoter.same /\ ~ raced /\ state = Building =>
    table["shadow"] = stream

\* A call of advance, while the run is r and the documents L have a stream.
DriverTrue(q, r, L) ==
  /\ q.pc \notin {"idle", "reread"} =>
       /\ q.seen.version <= r.version
       /\ q.seen.version = r.version => q.seen = r
  /\ q.pc \in {"read", "save"} => q.batch # {} /\ q.batch \subseteq L
  /\ q.pc = "list" => q.cursor = 0
  /\ q.pc = "save" => q.read # 0
  /\ q.pc = "advance" => q.batch = {}

DriversTrue ==
  /\ run.status = "none" => run = Rebuild!NoRun /\ \A w \in Actors : driver[w].pc = "idle"
  /\ \A w \in Actors : DriverTrue(driver[w], run, Rebuild!listStreams)

\* The documents that the new table has no row of and none to come, other than the
\* ones that a commit left the table nothing of.
Missing ==
  {d \in Rebuild!listStreams \ unfollowed :
     table["shadow"][d] = 0 /\ failed[d] = 0 /\ following # d}

\* Of the missing documents M a call has recorded an error, as far as it came.
DriverCovers(q, r, M) ==
  /\ q.pc \in {"read", "save", "advance"} =>
       \A d \in M \ q.batch :
         d > q.seen.cursor /\ (q.last \/ d <= q.cursor \/ \E e \in q.batch : d <= e) =>
           d \in q.errors
  /\ q.pc = "reread" => M \subseteq r.errors
  /\ q.pc = "complete" /\ q.seen.version = r.version => M \subseteq r.errors

RunCovers(r, M) ==
  /\ \A d \in M : d <= r.cursor => d \in r.errors
  /\ r.status = "completed" => M \subseteq r.errors

ScanTrue ==
  /\ RunCovers(run, Missing)
  /\ \A w \in Actors : DriverCovers(driver[w], run, Missing)

RebuildInv == RebuildTypes /\ BarrierTrue /\ SameTrue /\ DriversTrue /\ ScanTrue

LEMMA LeastIs ==
  ASSUME NEW S \in SUBSET Rebuild!Docs, S # {}
  PROVE  Rebuild!Least(S) \in S /\ \A e \in S : Rebuild!Least(S) <= e
<1>1. S \in SUBSET Nat
  BY RebuildAssumption DEF Rebuild!Docs
<1>2. \E d \in S : \A e \in S : d <= e
  BY <1>1, LeastNatural
<1> QED
  BY <1>2 DEF Rebuild!Least

\* Less is missing, the run has gone on or stays, and more documents exist.
LEMMA OthersCover ==
  ASSUME NEW q \in DriverRecords, NEW r \in RunRecords, NEW s \in RunRecords,
         NEW L, NEW K, NEW M, NEW N, DriverTrue(q, r, L), DriverCovers(q, r, M),
         s = r \/ (r.version < s.version /\ r.errors \subseteq s.errors),
         L \subseteq K, N \subseteq M
  PROVE  DriverTrue(q, s, K) /\ DriverCovers(q, s, N)
<1>1. q.seen.version \in Nat /\ r.version \in Nat /\ s.version \in Nat
  BY DEF DriverRecords, RunRecords
<1>2. q.pc \notin {"idle", "reread"} =>
        /\ q.seen.version <= s.version
        /\ q.seen.version = s.version => s = r
  BY <1>1 DEF DriverTrue
<1>3. DriverTrue(q, s, K)
  BY <1>2 DEF DriverTrue
<1>4. DriverCovers(q, s, N)
  BY <1>2 DEF DriverCovers
<1> QED
  BY <1>3, <1>4

\* The same while the run stands for nothing any more.
LEMMA OthersGoOn ==
  ASSUME NEW q \in DriverRecords, NEW r \in RunRecords, NEW s \in RunRecords,
         NEW L, NEW K, DriverTrue(q, r, L),
         s = r \/ r.version < s.version, L \subseteq K
  PROVE  DriverTrue(q, s, K)
<1>1. q.seen.version \in Nat /\ r.version \in Nat /\ s.version \in Nat
  BY DEF DriverRecords, RunRecords
<1> QED
  BY <1>1 DEF DriverTrue

\* A step of a commit or of a promotion.
LEMMA WorldMoves ==
  ASSUME RebuildInv, UNCHANGED <<run, driver>>, RebuildTypes', BarrierTrue', SameTrue',
         Rebuild!listStreams \subseteq Rebuild!listStreams',
         Missing' \subseteq Missing
  PROVE  RebuildInv'
<1>1. \A w \in Actors : driver[w] \in DriverRecords /\ run \in RunRecords
  BY DEF RebuildInv, RebuildTypes
<1>2. \A w \in Actors : DriverTrue(driver[w], run, Rebuild!listStreams')
  BY <1>1, OthersGoOn DEF RebuildInv, DriversTrue
<1>3. DriversTrue'
  <2>1. \A w \in Actors : DriverTrue(driver'[w], run', Rebuild!listStreams')
    BY <1>2
  <2> QED
    BY <2>1 DEF RebuildInv, DriversTrue, Rebuild!NoRun
<1>4. /\ RunCovers(run, Missing')
      /\ \A w \in Actors : DriverCovers(driver[w], run, Missing')
  <2>1. RunCovers(run, Missing)
        /\ \A w \in Actors : DriverCovers(driver[w], run, Missing)
    BY DEF RebuildInv, ScanTrue
  <2>2. Missing' \subseteq Missing
    OBVIOUS
  <2>3. RunCovers(run, Missing')
    BY <2>1, <2>2 DEF RunCovers
  <2> QED
    BY <1>1, <2>1, <2>2, <2>3, OthersCover DEF RebuildInv, DriversTrue
<1>5. ScanTrue'
  <2>1. /\ RunCovers(run', Missing')
        /\ \A w \in Actors : DriverCovers(driver'[w], run', Missing')
    BY <1>4
  <2> QED
    BY <2>1 DEF ScanTrue
<1> QED
  BY <1>3, <1>5 DEF RebuildInv

\* A step of a call of advance or abort.
LEMMA DriverMoves ==
  ASSUME RebuildInv, NEW w \in Actors, NEW q \in DriverRecords, run.status # "none",
         driver' = [driver EXCEPT ![w] = q],
         UNCHANGED <<stream, state, barrier, failed, following, promoter, unfollowed>>,
         table' \in [Rebuild!Targets -> Rows], table'["base"] = table["base"],
         raced' \in BOOLEAN, SameTrue', Missing' \subseteq Missing,
         run' \in RunRecords,
         \/ run' = run
         \/ /\ run.version < run'.version /\ run.errors \subseteq run'.errors
            /\ run'.status # "none"
            /\ RunCovers(run', Missing),
         DriverTrue(q, run', Rebuild!listStreams),
         DriverCovers(q, run', Missing')
  PROVE  RebuildInv'
<1>1. \A v \in Actors : driver[v] \in DriverRecords
  BY DEF RebuildInv, RebuildTypes
<1>2. run \in RunRecords
  BY DEF RebuildInv, RebuildTypes
<1>3. /\ driver' \in [Actors -> DriverRecords] /\ driver'[w] = q
      /\ \A v \in Actors : v # w => driver'[v] = driver[v]
  BY DEF RebuildInv, RebuildTypes
<1>4. RebuildTypes'
  BY <1>3 DEF RebuildInv, RebuildTypes, Rows, Rebuild!Docs, Rebuild!Targets, RunRecords,
              DriverRecords, PromoterRecords, Building, Promoted
<1>5. Rebuild!listStreams' = Rebuild!listStreams
  BY DEF Rebuild!listStreams, Rebuild!Docs
<1>6. BarrierTrue'
  BY <1>5 DEF RebuildInv, BarrierTrue
<1>7. \A v \in Actors : DriverTrue(driver'[v], run', Rebuild!listStreams)
  BY <1>1, <1>2, <1>3, OthersGoOn DEF RebuildInv, DriversTrue
<1>8. DriversTrue'
  <2>1. run'.status # "none"
    OBVIOUS
  <2>2. \A v \in Actors : DriverTrue(driver'[v], run', Rebuild!listStreams')
    BY <1>5, <1>7
  <2> QED
    BY <2>1, <2>2 DEF DriversTrue, Rebuild!NoRun
<1>9. /\ RunCovers(run', Missing')
      /\ \A v \in Actors : DriverCovers(driver'[v], run', Missing')
  <2>1. /\ RunCovers(run, Missing)
        /\ \A v \in Actors : DriverCovers(driver[v], run, Missing)
    BY DEF RebuildInv, ScanTrue
  <2>2. RunCovers(run', Missing)
    BY <2>1
  <2>3. RunCovers(run', Missing')
    BY <2>2 DEF RunCovers
  <2>4. ASSUME NEW v \in Actors, v # w
        PROVE  DriverCovers(driver[v], run', Missing')
    <3>1. DriverTrue(driver[v], run, Rebuild!listStreams) /\ DriverCovers(driver[v], run, Missing)
      BY <2>1 DEF RebuildInv, DriversTrue
    <3> QED
      BY <1>1, <1>2, <3>1, OthersCover
  <2> QED
    BY <1>3, <2>3, <2>4
<1>10. ScanTrue'
  <2>1. /\ RunCovers(run', Missing')
        /\ \A v \in Actors : DriverCovers(driver'[v], run', Missing')
    BY <1>9
  <2> QED
    BY <2>1 DEF ScanTrue
<1> QED
  BY <1>4, <1>6, <1>8, <1>10 DEF RebuildInv

\* The new table gets other rows.
LEMMA ShadowWritten ==
  ASSUME RebuildTypes, NEW rows \in Rows, table' = [table EXCEPT !["shadow"] = rows]
  PROVE  /\ table' \in [Rebuild!Targets -> Rows]
         /\ table'["base"] = table["base"]
         /\ table'["shadow"] = rows
BY DEF RebuildTypes, Rebuild!Targets

LEMMA ShadowRow ==
  ASSUME RebuildTypes, NEW d \in Rebuild!Docs, NEW v \in Nat,
         table' = [table EXCEPT !["shadow"][d] = v]
  PROVE  /\ table' \in [Rebuild!Targets -> Rows]
         /\ table'["base"] = table["base"]
         /\ table'["shadow"] = [table["shadow"] EXCEPT ![d] = v]
         /\ \A e \in Rebuild!Docs : table'["shadow"][e] = IF e = d THEN v ELSE table["shadow"][e]
<1> DEFINE rows == [table["shadow"] EXCEPT ![d] = v]
<1>1. table["shadow"] \in Rows
  BY DEF RebuildTypes, Rebuild!Targets
<1>2. rows \in Rows /\ \A e \in Rebuild!Docs : rows[e] = IF e = d THEN v ELSE table["shadow"][e]
  BY <1>1 DEF Rows
<1>3. table' = [table EXCEPT !["shadow"] = rows]
  OBVIOUS
<1> HIDE DEF rows
<1>4. /\ table' \in [Rebuild!Targets -> Rows] /\ table'["base"] = table["base"]
      /\ table'["shadow"] = rows
  BY <1>2, <1>3, ShadowWritten
<1> QED
  BY <1>2, <1>4 DEF rows

\* The kept writes are tried again.
LEMMA RetriedIs ==
  ASSUME RebuildTypes, table' = Rebuild!Retried
  PROVE  /\ table' \in [Rebuild!Targets -> Rows]
         /\ table'["base"] = table["base"]
         /\ \A d \in Rebuild!Docs :
              table'["shadow"][d] = IF failed[d] # 0 THEN failed[d] ELSE table["shadow"][d]
<1> DEFINE rows == [d \in Rebuild!Docs |-> IF failed[d] # 0 THEN failed[d] ELSE table["shadow"][d]]
<1>1. table["shadow"] \in Rows /\ failed \in Rows
  BY DEF RebuildTypes, Rebuild!Targets
<1>2. rows \in Rows
  BY <1>1 DEF Rows
<1>3. table' = [table EXCEPT !["shadow"] = rows]
  BY DEF Rebuild!Retried, RebuildTypes, Rebuild!Targets
<1> HIDE DEF rows
<1>4. /\ table' \in [Rebuild!Targets -> Rows] /\ table'["base"] = table["base"]
      /\ table'["shadow"] = rows
  BY <1>2, <1>3, ShadowWritten
<1> QED
  BY <1>4 DEF rows

LEMMA RebuildFacts ==
  ASSUME RebuildInv
  PROVE  /\ RebuildTypes /\ BarrierTrue
         /\ Rebuild!Docs \subseteq Nat \ {0}
         /\ following # 0 => following \in Rebuild!Docs
         /\ Rebuild!Follows <=> state = Building
         /\ barrier # "promote" => promoter.pc # "decide"
<1>1. RebuildTypes /\ BarrierTrue
  BY DEF RebuildInv
<1>2. Rebuild!Docs \subseteq Nat \ {0} /\ (following # 0 => following \in Rebuild!Docs)
  BY <1>1, RebuildAssumption DEF RebuildTypes, Rebuild!Docs
<1>3. Rebuild!Follows <=> state = Building
  <2>1. Building["shadow"] = "building" /\ Promoted["shadow"] = "active"
    BY DEF Building, Promoted
  <2> QED
    BY <1>1, <2>1 DEF RebuildTypes, Rebuild!Follows
<1> QED
  BY <1>1, <1>2, <1>3 DEF BarrierTrue

\* The stream and the base table move on; the follower write is due, or lost.
LEMMA CommitKeeps ==
  ASSUME RebuildInv, Rebuild!Commit \/ Rebuild!CommitThrows
  PROVE  RebuildInv'
<1>1. PICK d \in Rebuild!Docs :
        /\ barrier = "free"
        /\ stream' = [stream EXCEPT ![d] = @ + 1]
        /\ table' = [table EXCEPT !["base"][d] = stream[d] + 1]
        /\ \/ barrier' = "commit" /\ following' = d /\ UNCHANGED unfollowed
           \/ UNCHANGED <<barrier, following>> /\ unfollowed' = unfollowed \cup {d}
        /\ UNCHANGED <<state, failed, run, driver, promoter, raced>>
  BY DEF Rebuild!Commit, Rebuild!CommitThrows
<1>2. /\ RebuildTypes /\ BarrierTrue /\ d \in Nat \ {0} /\ promoter.pc # "decide"
      /\ promoter.pc \notin {"reconcile", "compare"} /\ following = 0
  BY <1>1, RebuildFacts DEF BarrierTrue
<1>3. /\ stream' \in Rows /\ stream'[d] # 0
      /\ \A e \in Rebuild!Docs : e # d => stream'[e] = stream[e]
  BY <1>1, <1>2 DEF RebuildTypes, Rows
<1>4. /\ table' \in [Rebuild!Targets -> Rows] /\ table'["shadow"] = table["shadow"]
      /\ table'["base"] = stream'
  <2>1. table["base"] = stream /\ stream \in Rows /\ table \in [Rebuild!Targets -> Rows]
    BY <1>2 DEF RebuildTypes, BarrierTrue
  <2>2. table' = [table EXCEPT !["base"] = stream']
    BY <1>1, <2>1 DEF Rebuild!Targets
  <2> QED
    BY <1>3, <2>1, <2>2 DEF Rebuild!Targets
<1>5. RebuildTypes'
  <2>1. following' \in 0..DocumentBound
    BY <1>1, <1>2, RebuildAssumption DEF Rebuild!Docs
  <2> QED
    BY <1>1, <1>2, <1>3, <1>4, <2>1 DEF RebuildTypes
<1>6. Rebuild!listStreams \subseteq Rebuild!listStreams'
  BY <1>3 DEF Rebuild!listStreams, Rebuild!Docs
<1>7. BarrierTrue'
  BY <1>1, <1>2, <1>3, <1>4, <1>6 DEF BarrierTrue
<1>8. Missing' \subseteq Missing
  BY <1>1, <1>2, <1>3, <1>4 DEF Missing, Rebuild!listStreams, Rebuild!Docs
<1>9. SameTrue'
  BY <1>1, <1>2 DEF SameTrue
<1> QED
  BY <1>1, <1>5, <1>6, <1>7, <1>8, <1>9, WorldMoves

\* A follower is written, or its write is kept, and the barrier is free again.
LEMMA FollowKeeps ==
  ASSUME RebuildInv, Rebuild!SaveFollowers \/ Rebuild!SaveFollowersFails
  PROVE  RebuildInv'
<1>1. /\ following # 0 /\ following' = 0 /\ barrier' = "free"
      /\ UNCHANGED <<stream, state, run, driver, promoter, raced>>
  BY DEF Rebuild!SaveFollowers, Rebuild!SaveFollowersFails
<1>2. /\ RebuildTypes /\ BarrierTrue /\ following \in Rebuild!Docs /\ stream[following] # 0
      /\ promoter.pc \notin {"reconcile", "compare", "decide"}
      /\ stream[following] \in Nat
  BY <1>1, RebuildFacts DEF BarrierTrue, RebuildTypes, Rows
<1>3. \/ /\ table' = [table EXCEPT !["shadow"][following] = stream[following]]
         /\ failed' = [failed EXCEPT ![following] = 0]
         /\ unfollowed' = unfollowed \ {following}
      \/ UNCHANGED <<table, failed>> /\ unfollowed' = unfollowed \cup {following}
      \/ /\ UNCHANGED table
         /\ failed' = [failed EXCEPT ![following] = stream[following]]
         /\ unfollowed' = unfollowed \ {following}
  BY DEF Rebuild!SaveFollowers, Rebuild!SaveFollowersFails
<1>4. /\ table' \in [Rebuild!Targets -> Rows] /\ failed' \in Rows
      /\ table'["base"] = table["base"]
      /\ \A e \in Rebuild!Docs \ {following} :
           table'["shadow"][e] = table["shadow"][e] /\ failed'[e] = failed[e]
      /\ \A e \in unfollowed : e = following \/ e \in unfollowed'
      /\ table'["shadow"][following] # 0 \/ failed'[following] # 0 \/ following \in unfollowed'
  <2>1. failed \in Rows /\ table \in [Rebuild!Targets -> Rows]
    BY <1>2 DEF RebuildTypes
  <2>2. CASE /\ table' = [table EXCEPT !["shadow"][following] = stream[following]]
             /\ failed' = [failed EXCEPT ![following] = 0]
             /\ unfollowed' = unfollowed \ {following}
    <3>1. /\ table' \in [Rebuild!Targets -> Rows] /\ table'["base"] = table["base"]
          /\ \A e \in Rebuild!Docs :
               table'["shadow"][e] = IF e = following THEN stream[following] ELSE table["shadow"][e]
      BY <1>2, <2>2, ShadowRow
    <3>2. failed' \in Rows /\ \A e \in Rebuild!Docs \ {following} : failed'[e] = failed[e]
      BY <1>2, <2>1, <2>2 DEF Rows
    <3> QED
      BY <1>2, <2>2, <3>1, <3>2
  <2>3. CASE UNCHANGED <<table, failed>> /\ unfollowed' = unfollowed \cup {following}
    BY <2>1, <2>3
  <2>4. CASE /\ UNCHANGED table
             /\ failed' = [failed EXCEPT ![following] = stream[following]]
             /\ unfollowed' = unfollowed \ {following}
    BY <1>2, <2>1, <2>4 DEF Rows
  <2> QED
    BY <1>3, <2>2, <2>3, <2>4
<1>5. RebuildTypes'
  <2>1. following' \in 0..DocumentBound
    BY <1>1, RebuildAssumption
  <2> QED
    BY <1>1, <1>2, <1>4, <2>1 DEF RebuildTypes
<1>6. Rebuild!listStreams' = Rebuild!listStreams
  BY <1>1 DEF Rebuild!listStreams, Rebuild!Docs
<1>7. BarrierTrue'
  BY <1>1, <1>2, <1>4, <1>6 DEF BarrierTrue
<1>8. Missing' \subseteq Missing
  BY <1>1, <1>4, <1>6 DEF Missing, Rebuild!listStreams
<1>9. SameTrue'
  BY <1>1, <1>2 DEF SameTrue
<1> QED
  BY <1>1, <1>5, <1>6, <1>7, <1>8, <1>9, WorldMoves

LEMMA RetryKeeps ==
  ASSUME RebuildInv, Rebuild!retryFailedFollowers
  PROVE  RebuildInv'
<1>1. /\ barrier = "free" /\ table' = Rebuild!Retried /\ failed' = [d \in Rebuild!Docs |-> 0]
      /\ UNCHANGED <<stream, state, barrier, following, run, driver, promoter, raced, unfollowed>>
  BY DEF Rebuild!retryFailedFollowers
<1>2. RebuildTypes /\ BarrierTrue /\ promoter.pc # "decide"
  BY <1>1, RebuildFacts
<1>3. /\ table' \in [Rebuild!Targets -> Rows] /\ table'["base"] = table["base"]
      /\ \A d \in Rebuild!Docs :
           table'["shadow"][d] = IF failed[d] # 0 THEN failed[d] ELSE table["shadow"][d]
  BY <1>1, <1>2, RetriedIs
<1>4. RebuildTypes'
  BY <1>1, <1>2, <1>3 DEF RebuildTypes, Rows
<1>5. Rebuild!listStreams' = Rebuild!listStreams
  BY <1>1 DEF Rebuild!listStreams, Rebuild!Docs
<1>6. BarrierTrue'
  BY <1>1, <1>2, <1>3, <1>5 DEF BarrierTrue
<1>7. Missing' \subseteq Missing
  BY <1>1, <1>3, <1>5 DEF Missing, Rebuild!listStreams
<1>8. SameTrue'
  BY <1>1, <1>2 DEF SameTrue
<1> QED
  BY <1>1, <1>4, <1>5, <1>6, <1>7, <1>8, WorldMoves

\* A step of a promotion that neither writes a table nor moves a stream.
LEMMA PromoterMoves ==
  ASSUME RebuildInv, promoter' \in PromoterRecords,
         promoter'.todo \subseteq Rebuild!listStreams,
         UNCHANGED <<stream, table, failed, following, run, driver, raced, unfollowed>>,
         following = 0 \/ barrier' = barrier,
         following = 0 => barrier' # "commit",
         promoter'.pc \in {"reconcile", "compare", "decide"} <=> barrier' = "promote",
         state' = state \/ state' = Promoted,
         SameTrue'
  PROVE  RebuildInv'
<1>1. RebuildTypes /\ BarrierTrue
  BY RebuildFacts
<1>2. RebuildTypes'
  BY <1>1 DEF RebuildTypes
<1>3. Rebuild!listStreams' = Rebuild!listStreams
  BY DEF Rebuild!listStreams, Rebuild!Docs
<1>4. BarrierTrue'
  BY <1>1, <1>3 DEF BarrierTrue
<1>5. Missing' = Missing
  BY <1>3 DEF Missing
<1> QED
  BY <1>2, <1>3, <1>4, <1>5, WorldMoves

\* A promotion ends, or has nothing of the barrier yet.
LEMMA IdlePromoterIs ==
  /\ Rebuild!IdlePromoter \in PromoterRecords
  /\ Rebuild!IdlePromoter.pc = "idle" /\ Rebuild!IdlePromoter.todo = {}
  /\ [Rebuild!IdlePromoter EXCEPT !.pc = "enter"] \in PromoterRecords
  /\ [Rebuild!IdlePromoter EXCEPT !.pc = "enter"].pc = "enter"
  /\ [Rebuild!IdlePromoter EXCEPT !.pc = "enter"].todo = {}
BY DEF Rebuild!IdlePromoter, PromoterRecords

LEMMA StartPromoteKeeps ==
  ASSUME RebuildInv, Rebuild!StartPromote
  PROVE  RebuildInv'
<1>1. /\ promoter.pc = "idle" /\ promoter' = [Rebuild!IdlePromoter EXCEPT !.pc = "enter"]
      /\ UNCHANGED <<stream, table, state, barrier, failed, following, run, driver,
                     raced, unfollowed>>
  BY DEF Rebuild!StartPromote
<1>2. promoter' \in PromoterRecords /\ promoter'.pc = "enter" /\ promoter'.todo = {}
  BY <1>1, IdlePromoterIs
<1>3. BarrierTrue
  BY RebuildFacts
<1>4. SameTrue'
  BY <1>2 DEF SameTrue
<1>5. /\ following = 0 \/ barrier' = barrier
      /\ following = 0 => barrier' # "commit"
      /\ promoter'.pc \in {"reconcile", "compare", "decide"} <=> barrier' = "promote"
  BY <1>1, <1>2, <1>3 DEF BarrierTrue
<1> QED
  BY <1>1, <1>2, <1>4, <1>5, PromoterMoves

\* Every way out of the barrier.
LEMMA LeaveKeeps ==
  ASSUME RebuildInv, promoter.pc \in {"reconcile", "compare", "decide"},
         Rebuild!LeaveBarrier, state' = state \/ state' = Promoted,
         UNCHANGED <<stream, table, failed, following, run, driver, raced, unfollowed>>
  PROVE  RebuildInv'
<1>1. barrier' = "free" /\ promoter' = Rebuild!IdlePromoter
  BY DEF Rebuild!LeaveBarrier
<1>2. promoter' \in PromoterRecords /\ promoter'.pc = "idle" /\ promoter'.todo = {}
  BY <1>1, IdlePromoterIs
<1>3. following = 0
  BY RebuildFacts DEF BarrierTrue
<1>4. SameTrue'
  BY <1>2 DEF SameTrue
<1>5. promoter'.pc \in {"reconcile", "compare", "decide"} <=> barrier' = "promote"
  BY <1>1, <1>2
<1> QED
  BY <1>1, <1>2, <1>3, <1>4, <1>5, PromoterMoves

\* A promotion takes the barrier, with the kept writes tried or not.
LEMMA EnterKeeps ==
  ASSUME RebuildInv, Rebuild!EnterBarrier \/ Rebuild!EnterBarrierRetryFails
  PROVE  RebuildInv'
<1> DEFINE p == [promoter EXCEPT !.pc = "reconcile", !.todo = Rebuild!listStreams]
<1>1. /\ promoter.pc = "enter" /\ barrier = "free" /\ barrier' = "promote"
      /\ promoter' = p
      /\ UNCHANGED <<stream, state, following, run, driver, raced, unfollowed>>
      /\ \/ table' = Rebuild!Retried /\ failed' = [d \in Rebuild!Docs |-> 0]
         \/ UNCHANGED <<table, failed>>
  BY DEF Rebuild!EnterBarrier, Rebuild!EnterBarrierRetryFails
<1>2. RebuildTypes /\ BarrierTrue /\ following = 0
  BY <1>1, RebuildFacts DEF BarrierTrue
<1>3. p \in PromoterRecords /\ p.pc = "reconcile" /\ p.todo = Rebuild!listStreams
  <2>1. Rebuild!listStreams \in SUBSET Rebuild!Docs
    BY DEF Rebuild!listStreams
  <2>2. promoter \in PromoterRecords
    BY <1>2 DEF RebuildTypes
  <2> QED
    BY <2>1, <2>2 DEF PromoterRecords
<1> HIDE DEF p
<1>4. /\ table' \in [Rebuild!Targets -> Rows] /\ table'["base"] = table["base"] /\ failed' \in Rows
      /\ \A d \in Rebuild!Docs : table'["shadow"][d] = 0 /\ failed'[d] = 0 =>
                                   table["shadow"][d] = 0 /\ failed[d] = 0
  <2>1. CASE table' = Rebuild!Retried /\ failed' = [d \in Rebuild!Docs |-> 0]
    <3>1. failed' \in Rows
      BY <2>1 DEF Rows
    <3> QED
      BY <1>2, <2>1, <3>1, RetriedIs
  <2>2. CASE UNCHANGED <<table, failed>>
    BY <1>2, <2>2 DEF RebuildTypes
  <2> QED
    BY <1>1, <2>1, <2>2
<1>5. RebuildTypes'
  BY <1>1, <1>2, <1>3, <1>4 DEF RebuildTypes
<1>6. Rebuild!listStreams' = Rebuild!listStreams
  BY <1>1 DEF Rebuild!listStreams, Rebuild!Docs
<1>7. BarrierTrue'
  BY <1>1, <1>2, <1>3, <1>4, <1>6 DEF BarrierTrue
<1>8. Missing' \subseteq Missing
  BY <1>1, <1>4, <1>6 DEF Missing, Rebuild!listStreams
<1>9. SameTrue'
  BY <1>1, <1>3 DEF SameTrue
<1> QED
  BY <1>1, <1>5, <1>6, <1>7, <1>8, <1>9, WorldMoves

\* The promotion writes the new table.
LEMMA PromoterWrites ==
  ASSUME RebuildInv, barrier = "promote",
         promoter' \in PromoterRecords, promoter'.pc \in {"reconcile", "compare"},
         promoter'.todo \subseteq Rebuild!listStreams,
         table' \in [Rebuild!Targets -> Rows], table'["base"] = table["base"],
         \A d \in Rebuild!listStreams : table'["shadow"][d] = 0 => table["shadow"][d] = 0,
         UNCHANGED <<stream, state, barrier, failed, following, run, driver, raced, unfollowed>>
  PROVE  RebuildInv'
<1>1. RebuildTypes /\ BarrierTrue
  BY RebuildFacts
<1>2. RebuildTypes'
  BY <1>1 DEF RebuildTypes
<1>3. Rebuild!listStreams' = Rebuild!listStreams
  BY DEF Rebuild!listStreams, Rebuild!Docs
<1>4. BarrierTrue'
  BY <1>1, <1>3 DEF BarrierTrue
<1>5. Missing' \subseteq Missing
  BY <1>3 DEF Missing
<1>6. SameTrue'
  BY DEF SameTrue
<1> QED
  BY <1>2, <1>3, <1>4, <1>5, <1>6, WorldMoves

LEMMA ReconcileKeeps ==
  ASSUME RebuildInv, Rebuild!Reconcile
  PROVE  RebuildInv'
<1> DEFINE d == Rebuild!Least(promoter.todo)
           p == [promoter EXCEPT !.todo = promoter.todo \ {d}]
<1>1. /\ promoter.pc = "reconcile" /\ promoter.todo # {}
      /\ table' = [table EXCEPT !["shadow"][d] = stream[d]]
      /\ promoter' = p
      /\ UNCHANGED <<stream, state, barrier, failed, following, run, driver, raced, unfollowed>>
  BY DEF Rebuild!Reconcile
<1>2. /\ RebuildTypes /\ BarrierTrue /\ barrier = "promote" /\ promoter \in PromoterRecords
      /\ promoter.todo \subseteq Rebuild!listStreams
  BY <1>1, RebuildFacts DEF BarrierTrue, RebuildTypes
<1>3. d \in Rebuild!Docs /\ stream[d] # 0 /\ stream[d] \in Nat
  <2>1. d \in promoter.todo
    BY <1>1, <1>2, LeastIs DEF PromoterRecords
  <2> QED
    BY <1>2, <2>1 DEF Rebuild!listStreams, RebuildTypes, Rows
<1> HIDE DEF d
<1>4. p \in PromoterRecords /\ p.pc = "reconcile" /\ p.todo \subseteq Rebuild!listStreams
  BY <1>1, <1>2 DEF PromoterRecords
<1> HIDE DEF p
<1>5. /\ table' \in [Rebuild!Targets -> Rows] /\ table'["base"] = table["base"]
      /\ \A e \in Rebuild!Docs : table'["shadow"][e] = IF e = d THEN stream[d] ELSE table["shadow"][e]
  BY <1>1, <1>2, <1>3, ShadowRow
<1>6. \A e \in Rebuild!listStreams : table'["shadow"][e] = 0 => table["shadow"][e] = 0
  BY <1>3, <1>5 DEF Rebuild!listStreams
<1> QED
  BY <1>1, <1>2, <1>4, <1>5, <1>6, PromoterWrites

LEMMA RemoveStaleKeeps ==
  ASSUME RebuildInv, Rebuild!RemoveStaleRows
  PROVE  RebuildInv'
<1> DEFINE rows == [d \in Rebuild!Docs |-> IF d \in Rebuild!listStreams THEN table["shadow"][d] ELSE 0]
           p == [promoter EXCEPT !.pc = "compare"]
<1>1. RebuildTypes /\ BarrierTrue
  BY RebuildFacts
<1>2. /\ promoter.pc = "reconcile"
      /\ table' = [table EXCEPT !["shadow"] = rows]
      /\ promoter' = p
      /\ UNCHANGED <<stream, state, barrier, failed, following, run, driver, raced, unfollowed>>
  BY <1>1 DEF Rebuild!RemoveStaleRows, RebuildTypes, Rebuild!Targets
<1>3. /\ barrier = "promote" /\ promoter \in PromoterRecords
      /\ promoter.todo \subseteq Rebuild!listStreams /\ table["shadow"] \in Rows
  BY <1>1, <1>2 DEF BarrierTrue, RebuildTypes, Rebuild!Targets
<1>4. p \in PromoterRecords /\ p.pc = "compare" /\ p.todo \subseteq Rebuild!listStreams
  BY <1>3 DEF PromoterRecords
<1>5. /\ rows \in Rows
      /\ \A d \in Rebuild!listStreams : rows[d] = table["shadow"][d]
  BY <1>3 DEF Rows, Rebuild!listStreams
<1> HIDE DEF p, rows
<1>6. /\ table' \in [Rebuild!Targets -> Rows] /\ table'["base"] = table["base"]
      /\ table'["shadow"] = rows
  BY <1>1, <1>2, <1>5, ShadowWritten
<1> QED
  BY <1>2, <1>3, <1>4, <1>5, <1>6, PromoterWrites

LEMMA CompareKeeps ==
  ASSUME RebuildInv, Rebuild!Compare
  PROVE  RebuildInv'
<1> DEFINE same == table["shadow"] = table[Rebuild!activeTarget]
           p == [promoter EXCEPT !.pc = "decide", !.same = same]
<1>1. /\ promoter.pc = "compare" /\ promoter' = p
      /\ UNCHANGED <<stream, table, state, barrier, failed, following, run, driver,
                     raced, unfollowed>>
  BY DEF Rebuild!Compare
<1>2. /\ RebuildTypes /\ BarrierTrue /\ barrier = "promote" /\ promoter \in PromoterRecords
      /\ promoter.todo \subseteq Rebuild!listStreams /\ following = 0 /\ table["base"] = stream
  BY <1>1, RebuildFacts DEF BarrierTrue, RebuildTypes
<1>3. same \in BOOLEAN
  OBVIOUS
<1>4. state = Building /\ same => table["shadow"] = stream
  <2>1. state = Building => Rebuild!activeTarget = "base"
    BY DEF Building, Rebuild!activeTarget, Rebuild!Targets
  <2> QED
    BY <1>2, <2>1
<1> HIDE DEF same
<1>5. /\ p \in PromoterRecords /\ p.pc = "decide" /\ p.todo \subseteq Rebuild!listStreams
      /\ p.same = same
  BY <1>2, <1>3 DEF PromoterRecords
<1> HIDE DEF p
<1>6. SameTrue'
  BY <1>1, <1>4, <1>5 DEF SameTrue, Building
<1> QED
  BY <1>1, <1>2, <1>5, <1>6, PromoterMoves

LEMMA PromoteStepKeeps ==
  ASSUME RebuildInv, Rebuild!PromoteStep
  PROVE  RebuildInv'
<1>1. ASSUME Rebuild!Promote
      PROVE  RebuildInv'
  <2>1. /\ promoter.pc = "decide" /\ Rebuild!LeaveBarrier /\ state' = Promoted
        /\ UNCHANGED <<stream, table, failed, following, run, driver, raced, unfollowed>>
    BY <1>1 DEF Rebuild!Promote, Promoted
  <2> QED
    BY <2>1, LeaveKeeps
<1>2. ASSUME Rebuild!RefusePromotion
      PROVE  RebuildInv'
  <2>1. /\ promoter.pc = "decide" /\ Rebuild!LeaveBarrier
        /\ UNCHANGED <<stream, table, state, failed, following, run, driver, raced, unfollowed>>
    BY <1>2 DEF Rebuild!RefusePromotion
  <2> QED
    BY <2>1, LeaveKeeps
<1>3. ASSUME Rebuild!PromotionFails
      PROVE  RebuildInv'
  <2>1. /\ promoter.pc \in {"reconcile", "compare"} /\ Rebuild!LeaveBarrier
        /\ UNCHANGED <<stream, table, state, failed, following, run, driver, raced, unfollowed>>
    BY <1>3 DEF Rebuild!PromotionFails
  <2> QED
    BY <2>1, LeaveKeeps
<1> QED
  BY <1>1, <1>2, <1>3, StartPromoteKeeps, EnterKeeps, ReconcileKeeps, RemoveStaleKeeps,
     CompareKeeps DEF Rebuild!PromoteStep

LEMMA StartKeeps ==
  ASSUME RebuildInv, Rebuild!Start
  PROVE  RebuildInv'
<1> DEFINE started == [Rebuild!NoRun EXCEPT !.status = "running", !.version = 1]
<1>1. /\ run.status = "none" /\ run' = started
      /\ UNCHANGED <<stream, table, state, barrier, failed, following, driver, promoter,
                     raced, unfollowed>>
  BY DEF Rebuild!Start
<1>2. /\ started \in RunRecords /\ started.status = "running" /\ started.cursor = 0
  BY DEF Rebuild!NoRun, RunRecords
<1> HIDE DEF started
<1>3. RebuildTypes /\ BarrierTrue /\ SameTrue /\ Rebuild!Docs \subseteq Nat \ {0}
  BY RebuildFacts DEF RebuildInv
<1>4. RebuildTypes'
  BY <1>1, <1>2, <1>3 DEF RebuildTypes
<1>5. Rebuild!listStreams' = Rebuild!listStreams
  BY <1>1 DEF Rebuild!listStreams, Rebuild!Docs
<1>6. BarrierTrue' /\ SameTrue'
  BY <1>1, <1>3, <1>5 DEF BarrierTrue, SameTrue, Building
<1>7. \A w \in Actors : driver'[w].pc = "idle"
  BY <1>1 DEF RebuildInv, DriversTrue
<1>8. DriversTrue'
  <2>1. \A w \in Actors : DriverTrue(driver'[w], run', Rebuild!listStreams')
    BY <1>7 DEF DriverTrue
  <2> QED
    BY <1>1, <1>2, <2>1 DEF DriversTrue
<1>9. ScanTrue'
  <2>1. \A w \in Actors : DriverCovers(driver'[w], run', Missing')
    BY <1>7 DEF DriverCovers
  <2>2. Missing' \subseteq Rebuild!Docs
    BY <1>5 DEF Missing, Rebuild!listStreams
  <2>3. \A d \in Missing' : ~ (d <= 0)
    BY <1>3, <2>2
  <2>4. RunCovers(run', Missing')
    BY <1>1, <1>2, <2>3 DEF RunCovers
  <2> QED
    BY <2>1, <2>4 DEF ScanTrue
<1> QED
  BY <1>4, <1>6, <1>8, <1>9 DEF RebuildInv

\* A step of a call of advance or abort that writes nothing.
LEMMA DriverTurns ==
  ASSUME RebuildInv, NEW w \in Actors, NEW q \in DriverRecords, run.status # "none",
         driver' = [driver EXCEPT ![w] = q],
         UNCHANGED <<stream, table, state, barrier, failed, following, run, promoter,
                     raced, unfollowed>>,
         DriverTrue(q, run, Rebuild!listStreams),
         DriverCovers(q, run, Missing)
  PROVE  RebuildInv'
<1>1. RebuildTypes /\ SameTrue
  BY DEF RebuildInv
<1>2. Missing' = Missing
  BY DEF Missing, Rebuild!listStreams, Rebuild!Docs
<1>3. SameTrue'
  BY <1>1 DEF SameTrue, Building
<1>4. /\ table' \in [Rebuild!Targets -> Rows] /\ table'["base"] = table["base"]
      /\ raced' \in BOOLEAN /\ run' \in RunRecords
  BY <1>1 DEF RebuildTypes
<1>5. DriverTrue(q, run', Rebuild!listStreams) /\ DriverCovers(q, run', Missing')
  BY <1>2
<1> QED
  BY <1>2, <1>3, <1>4, <1>5, DriverMoves

LEMMA IdleDriverIs ==
  ASSUME NEW r \in RunRecords, NEW L, NEW M
  PROVE  /\ Rebuild!IdleDriver \in DriverRecords
         /\ DriverTrue(Rebuild!IdleDriver, r, L) /\ DriverCovers(Rebuild!IdleDriver, r, M)
<1>1. Rebuild!IdleDriver \in DriverRecords /\ Rebuild!IdleDriver.pc = "idle"
  BY DEF Rebuild!IdleDriver, DriverRecords, RunRecords, Rebuild!NoRun
<1> QED
  BY <1>1 DEF DriverTrue, DriverCovers

\* What the invariant says of one call.
LEMMA DriverFacts ==
  ASSUME RebuildInv, NEW w \in Actors
  PROVE  /\ driver[w] \in DriverRecords /\ run \in RunRecords
         /\ DriverTrue(driver[w], run, Rebuild!listStreams)
         /\ RunCovers(run, Missing) /\ DriverCovers(driver[w], run, Missing)
         /\ driver[w].pc # "idle" => run.status # "none"
         /\ \A q : [driver EXCEPT ![w] = q][w] = q
BY DEF RebuildInv, RebuildTypes, DriversTrue, ScanTrue

\* The calls that begin, end or are beaten by another.
LEMMA DriverStarts ==
  ASSUME RebuildInv, NEW w \in Actors, Rebuild!StartAdvance(w) \/ Rebuild!StartAbort(w)
  PROVE  RebuildInv'
<1>1. PICK phase \in {"list", "abort"} :
        /\ run.status = "running"
        /\ driver' = [driver EXCEPT ![w] = [Rebuild!IdleDriver EXCEPT !.pc = phase, !.seen = run]]
        /\ UNCHANGED <<stream, table, state, barrier, failed, following, run, promoter,
                       raced, unfollowed>>
  BY DEF Rebuild!StartAdvance, Rebuild!StartAbort
<1> DEFINE q == [Rebuild!IdleDriver EXCEPT !.pc = phase, !.seen = run]
<1>2. run \in RunRecords
  BY DriverFacts
<1>3. q \in DriverRecords /\ q.pc = phase /\ q.seen = run /\ q.cursor = 0
  BY <1>2 DEF Rebuild!IdleDriver, DriverRecords, Rebuild!NoRun
<1>4. driver' = [driver EXCEPT ![w] = q]
  BY <1>1
<1> HIDE DEF q
<1>5. DriverTrue(q, run, Rebuild!listStreams) /\ DriverCovers(q, run, Missing)
  <2>1. run.version \in Nat
    BY <1>2 DEF RunRecords
  <2> QED
    BY <1>3, <2>1 DEF DriverTrue, DriverCovers
<1> QED
  BY <1>1, <1>3, <1>4, <1>5, DriverTurns

LEMMA DriverEnds ==
  ASSUME RebuildInv, NEW w \in Actors, Rebuild!AppendConflict(w) \/ Rebuild!DriverDies(w)
  PROVE  RebuildInv'
<1>1. /\ driver[w].pc # "idle" /\ driver' = [driver EXCEPT ![w] = Rebuild!IdleDriver]
      /\ UNCHANGED <<stream, table, state, barrier, failed, following, run, promoter,
                     raced, unfollowed>>
  BY DEF Rebuild!AppendConflict, Rebuild!DriverDies, Rebuild!EndDrive
<1>2. run \in RunRecords /\ run.status # "none"
  BY <1>1, DriverFacts
<1> QED
  BY <1>1, <1>2, IdleDriverIs, DriverTurns

LEMMA RereadKeeps ==
  ASSUME RebuildInv, NEW w \in Actors, Rebuild!RereadRun(w)
  PROVE  RebuildInv'
<1> DEFINE q == [driver[w] EXCEPT !.pc = "complete", !.seen = run]
<1>1. /\ driver[w].pc = "reread"
      /\ driver' = [driver EXCEPT ![w] = q]
      /\ UNCHANGED <<stream, table, state, barrier, failed, following, run, promoter,
                     raced, unfollowed>>
  BY DEF Rebuild!RereadRun
<1>2. /\ driver[w] \in DriverRecords /\ run \in RunRecords /\ run.status # "none"
      /\ DriverCovers(driver[w], run, Missing)
  BY <1>1, DriverFacts
<1>3. q \in DriverRecords /\ q.pc = "complete" /\ q.seen = run
  BY <1>2 DEF DriverRecords
<1> HIDE DEF q
<1>4. run.version \in Nat
  BY <1>2 DEF RunRecords
<1>5. DriverTrue(q, run, Rebuild!listStreams)
  BY <1>3, <1>4 DEF DriverTrue
<1>6. DriverCovers(q, run, Missing)
  BY <1>1, <1>2, <1>3 DEF DriverCovers
<1> QED
  BY <1>1, <1>2, <1>3, <1>5, <1>6, DriverTurns

\* A call of advance or abort records something: the run is as the call has seen it.
LEMMA RunMoves ==
  ASSUME RebuildInv, NEW w \in Actors, NEW q \in DriverRecords, NEW r \in RunRecords,
         run.status # "none", driver' = [driver EXCEPT ![w] = q], run' = r,
         UNCHANGED <<stream, table, state, barrier, failed, following, promoter, raced, unfollowed>>,
         r.version = run.version + 1, run.errors \subseteq r.errors, r.status # "none",
         DriverTrue(q, r, Rebuild!listStreams),
         RunCovers(r, Missing) /\ DriverCovers(q, r, Missing)
  PROVE  RebuildInv'
<1>1. RebuildTypes /\ SameTrue
  BY DEF RebuildInv
<1>2. Missing' = Missing
  BY DEF Missing, Rebuild!listStreams, Rebuild!Docs
<1>3. SameTrue'
  BY <1>1 DEF SameTrue, Building
<1>4. /\ table' \in [Rebuild!Targets -> Rows] /\ table'["base"] = table["base"]
      /\ raced' \in BOOLEAN /\ run' \in RunRecords
  BY <1>1 DEF RebuildTypes
<1>5. run.version < run'.version
  BY <1>1 DEF RebuildTypes, RunRecords
<1>6. DriverTrue(q, run', Rebuild!listStreams) /\ DriverCovers(q, run', Missing')
  BY <1>2
<1>7. /\ run.errors \subseteq run'.errors /\ run'.status # "none"
      /\ RunCovers(run', Missing)
  OBVIOUS
<1> QED
  BY <1>2, <1>3, <1>4, <1>5, <1>6, <1>7, DriverMoves

LEMMA AppendsSeen ==
  ASSUME RebuildInv, NEW w \in Actors, Rebuild!Appends(w),
         driver[w].pc \in {"advance", "complete", "abort"}
  PROVE  driver[w].seen = run
<1>1. DriverTrue(driver[w], run, Rebuild!listStreams)
  BY DriverFacts
<1> QED
  BY <1>1 DEF DriverTrue, Rebuild!Appends

LEMMA AppendAdvancedKeeps ==
  ASSUME RebuildInv, NEW w \in Actors, Rebuild!AppendAdvanced(w)
  PROVE  RebuildInv'
<1> DEFINE n == run.version + 1
           r == [run EXCEPT !.cursor = driver[w].cursor, !.version = n,
                            !.errors = run.errors \cup driver[w].errors]
           q == IF driver[w].last THEN [Rebuild!IdleDriver EXCEPT !.pc = "reread"]
                ELSE Rebuild!IdleDriver
<1>1. /\ driver[w].pc = "advance" /\ Rebuild!Appends(w)
      /\ run' = r /\ driver' = [driver EXCEPT ![w] = q]
      /\ UNCHANGED <<stream, table, state, barrier, failed, following, promoter, raced, unfollowed>>
  BY DEF Rebuild!AppendAdvanced
<1>2. /\ driver[w] \in DriverRecords /\ run \in RunRecords /\ run.status # "none"
      /\ DriverTrue(driver[w], run, Rebuild!listStreams)
      /\ RunCovers(run, Missing) /\ DriverCovers(driver[w], run, Missing)
  BY <1>1, DriverFacts
<1>3. /\ r \in RunRecords /\ r.version = n /\ r.cursor = driver[w].cursor
      /\ r.errors = run.errors \cup driver[w].errors /\ r.status = run.status
  <2>1. n \in Nat
    BY <1>2 DEF RunRecords
  <2> HIDE DEF n
  <2> QED
    BY <1>2, <2>1 DEF RunRecords, DriverRecords
<1>4. /\ q \in DriverRecords /\ (driver[w].last => q.pc = "reread") /\ (~ driver[w].last => q.pc = "idle")
      /\ q.pc \in {"idle", "reread"}
  BY DEF Rebuild!IdleDriver, DriverRecords, RunRecords, Rebuild!NoRun
<1> HIDE DEF q, r
<1>5. driver[w].seen = run /\ driver[w].batch = {}
  BY <1>1, <1>2, AppendsSeen DEF DriverTrue
<1>6. RunCovers(r, Missing) /\ DriverCovers(q, r, Missing)
  <2>1. \A d \in Missing :
          /\ d <= run.cursor => d \in run.errors
          /\ d > run.cursor /\ (driver[w].last \/ d <= driver[w].cursor) => d \in driver[w].errors
    BY <1>1, <1>2, <1>5 DEF RunCovers, DriverCovers
  <2>2. Missing \subseteq Nat /\ run.cursor \in Nat
    BY <1>2, RebuildFacts DEF Missing, Rebuild!listStreams, RunRecords
  <2>3. \A d \in Missing : driver[w].last \/ d <= driver[w].cursor => d \in r.errors
    <3>1. \A d \in Missing : d <= run.cursor \/ d > run.cursor
      BY <2>2
    <3>2. run.errors \subseteq r.errors /\ driver[w].errors \subseteq r.errors
      BY <1>3
    <3> QED
      BY <2>1, <3>1, <3>2, Zenon
  <2>4. run.status = "completed" => Missing \subseteq run.errors
    BY <1>2 DEF RunCovers
  <2>5. RunCovers(r, Missing)
    BY <1>3, <2>3, <2>4 DEF RunCovers
  <2>6. DriverCovers(q, r, Missing)
    BY <1>4, <2>3 DEF DriverCovers
  <2> QED
    BY <2>5, <2>6
<1>7. DriverTrue(q, r, Rebuild!listStreams)
  BY <1>4 DEF DriverTrue
<1> QED
  BY <1>1, <1>2, <1>3, <1>4, <1>6, <1>7, RunMoves

\* ProjectionRebuildCompleted and ProjectionRebuildAborted.
LEMMA AppendFinishedKeeps ==
  ASSUME RebuildInv, NEW w \in Actors, Rebuild!AppendCompleted(w) \/ Rebuild!AppendAborted(w)
  PROVE  RebuildInv'
<1>1. PICK status \in {"completed", "aborted"} :
        /\ status = "completed" => driver[w].pc = "complete"
        /\ driver[w].pc \in {"complete", "abort"} /\ Rebuild!Appends(w)
        /\ run' = [run EXCEPT !.status = status, !.version = run.version + 1]
        /\ driver' = [driver EXCEPT ![w] = Rebuild!IdleDriver]
        /\ UNCHANGED <<stream, table, state, barrier, failed, following, promoter,
                       raced, unfollowed>>
  BY DEF Rebuild!AppendCompleted, Rebuild!AppendAborted, Rebuild!EndDrive
<1> DEFINE n == run.version + 1
           r == [run EXCEPT !.status = status, !.version = n]
<1>2. /\ driver[w] \in DriverRecords /\ run \in RunRecords /\ run.status # "none"
      /\ DriverTrue(driver[w], run, Rebuild!listStreams)
      /\ RunCovers(run, Missing) /\ DriverCovers(driver[w], run, Missing)
  BY <1>1, DriverFacts
<1>3. /\ r \in RunRecords /\ r.version = n /\ r.cursor = run.cursor
      /\ r.errors = run.errors /\ r.status = status
  <2>1. n \in Nat
    BY <1>2 DEF RunRecords
  <2> HIDE DEF n
  <2> QED
    BY <1>2, <2>1 DEF RunRecords
<1>4. run' = r
  BY <1>1
<1> HIDE DEF r
<1>5. driver[w].seen = run
  BY <1>1, AppendsSeen
<1>6. RunCovers(r, Missing)
  BY <1>1, <1>2, <1>3, <1>5 DEF RunCovers, DriverCovers
<1>7. /\ Rebuild!IdleDriver \in DriverRecords /\ DriverTrue(Rebuild!IdleDriver, r, Rebuild!listStreams)
      /\ DriverCovers(Rebuild!IdleDriver, r, Missing)
  BY <1>3, IdleDriverIs
<1>8. run.errors \subseteq r.errors /\ r.status # "none"
  BY <1>1, <1>3
<1> QED
  BY <1>1, <1>2, <1>3, <1>4, <1>6, <1>7, <1>8, RunMoves

LEMMA ReadStreamKeeps ==
  ASSUME RebuildInv, NEW w \in Actors, Rebuild!ReadStream(w)
  PROVE  RebuildInv'
<1> DEFINE d == Rebuild!Least(driver[w].batch)
           q == [driver[w] EXCEPT !.pc = "save", !.read = stream[d]]
<1>1. /\ driver[w].pc = "read"
      /\ driver' = [driver EXCEPT ![w] = q]
      /\ UNCHANGED <<stream, table, state, barrier, failed, following, run, promoter,
                     raced, unfollowed>>
  BY DEF Rebuild!ReadStream
<1>2. /\ driver[w] \in DriverRecords /\ run \in RunRecords /\ run.status # "none"
      /\ DriverTrue(driver[w], run, Rebuild!listStreams)
      /\ DriverCovers(driver[w], run, Missing)
  BY <1>1, DriverFacts
<1>3. driver[w].batch # {} /\ driver[w].batch \subseteq Rebuild!listStreams
  BY <1>1, <1>2 DEF DriverTrue
<1>4. stream[d] \in Nat \ {0}
  <2>1. d \in driver[w].batch
    BY <1>2, <1>3, LeastIs DEF DriverRecords
  <2> QED
    BY <1>3, <2>1, RebuildFacts DEF Rebuild!listStreams, RebuildTypes, Rows
<1> HIDE DEF d
<1>5. /\ q \in DriverRecords /\ q.pc = "save" /\ q.seen = driver[w].seen /\ q.batch = driver[w].batch
      /\ q.last = driver[w].last /\ q.cursor = driver[w].cursor /\ q.errors = driver[w].errors
      /\ q.read = stream[d]
  BY <1>2, <1>4 DEF DriverRecords
<1> HIDE DEF q
<1>6. DriverTrue(q, run, Rebuild!listStreams)
  BY <1>1, <1>2, <1>3, <1>4, <1>5 DEF DriverTrue
<1>7. DriverCovers(q, run, Missing)
  BY <1>1, <1>2, <1>5 DEF DriverCovers
<1> QED
  BY <1>1, <1>2, <1>5, <1>6, <1>7, DriverTurns

\* The first documents of a set, in order.
LEMMA FirstOfIs ==
  ASSUME NEW S \in SUBSET Rebuild!Docs
  PROVE  /\ Rebuild!FirstOf(S) \subseteq S
         /\ S # {} => Rebuild!FirstOf(S) # {}
         /\ \A d \in S \ Rebuild!FirstOf(S) :
              /\ ~ (Rebuild!Cardinality(S) <= BatchSize)
              /\ \A e \in Rebuild!FirstOf(S) : ~ (d <= e)
<1> DEFINE Before(d) == {e \in S : e < d}
<1>1. S \in SUBSET Nat /\ IsFiniteSet(S) /\ BatchSize \in Nat \ {0}
  <2>1. IsFiniteSet(Rebuild!Docs) /\ Rebuild!Docs \subseteq Nat
    BY RebuildAssumption, FS_Interval DEF Rebuild!Docs
  <2> QED
    BY <2>1, FS_Subset, RebuildAssumption
<1>2. \A T : Rebuild!Cardinality(T) = Cardinality(T)
  BY DEF Rebuild!Cardinality, Cardinality
<1>3. \A d \in S : d \in Rebuild!FirstOf(S) <=> Cardinality(Before(d)) < BatchSize
  BY <1>2 DEF Rebuild!FirstOf
<1>4. \A d : IsFiniteSet(Before(d)) /\ Before(d) \subseteq S
  BY <1>1, FS_Subset
<1>5. Rebuild!FirstOf(S) \subseteq S
  BY DEF Rebuild!FirstOf
<1>6. ASSUME S # {}
      PROVE  Rebuild!FirstOf(S) # {}
  <2>1. PICK d \in S : \A e \in S : d <= e
    BY <1>1, <1>6, LeastNatural
  <2>2. Before(d) = {}
    <3>1. ASSUME NEW e \in S
          PROVE  ~ (e < d)
      <4>1. d \in Nat /\ e \in Nat /\ d <= e
        BY <1>1, <2>1, <3>1
      <4> QED
        BY <4>1
    <3> QED
      BY <3>1
  <2>3. Cardinality(Before(d)) = 0
    BY <2>2, FS_EmptySet
  <2> QED
    BY <1>1, <1>3, <2>3
<1>7. ASSUME NEW d \in S, d \notin Rebuild!FirstOf(S)
      PROVE  ~ (Cardinality(S) <= BatchSize)
  <2>1. d \notin Before(d)
    BY <1>1
  <2>2. /\ Cardinality(Before(d)) <= Cardinality(S) /\ Cardinality(Before(d)) # Cardinality(S)
        /\ Cardinality(Before(d)) \in Nat /\ Cardinality(S) \in Nat
    <3>1. Before(d) \subseteq S /\ Before(d) # S
      BY <1>4, <2>1
    <3> HIDE DEF Before
    <3> QED
      BY <1>1, <1>4, <3>1, FS_Subset, FS_CardinalityType
  <2>3. ~ (Cardinality(Before(d)) < BatchSize)
    BY <1>3, <1>7
  <2> HIDE DEF Before
  <2> QED
    BY <1>1, <2>2, <2>3
<1>8. ASSUME NEW d \in S, d \notin Rebuild!FirstOf(S), NEW e \in Rebuild!FirstOf(S), d <= e
      PROVE  FALSE
  <2>1. e \in S /\ Before(d) \subseteq Before(e)
    <3>1. e \in S
      BY <1>5, <1>8
    <3>2. ASSUME NEW f \in S, f < d
          PROVE  f < e
      <4>1. d \in Nat /\ e \in Nat /\ f \in Nat
        BY <1>1, <1>8, <3>1, <3>2
      <4> QED
        BY <1>8, <3>2, <4>1
    <3> QED
      BY <3>1, <3>2
  <2>2. /\ Cardinality(Before(d)) <= Cardinality(Before(e))
        /\ Cardinality(Before(d)) \in Nat /\ Cardinality(Before(e)) \in Nat
    <3>1. IsFiniteSet(Before(d)) /\ IsFiniteSet(Before(e))
      BY <1>4
    <3> HIDE DEF Before
    <3> QED
      BY <2>1, <3>1, FS_Subset, FS_CardinalityType
  <2>3. Cardinality(Before(e)) < BatchSize /\ ~ (Cardinality(Before(d)) < BatchSize)
    BY <1>3, <1>8, <2>1
  <2> HIDE DEF Before
  <2> QED
    BY <1>1, <2>2, <2>3
<1> QED
  BY <1>2, <1>5, <1>6, <1>7, <1>8

LEMMA ListStreamsKeeps ==
  ASSUME RebuildInv, NEW w \in Actors, Rebuild!ListStreams(w)
  PROVE  RebuildInv'
<1> DEFINE S == Rebuild!pending(w)
           phase == IF S = {} THEN "complete" ELSE "read"
           batch == Rebuild!FirstOf(S)
           last == Rebuild!Cardinality(S) <= BatchSize
           q == [driver[w] EXCEPT !.pc = phase, !.batch = batch, !.last = last]
<1>1. /\ driver[w].pc = "list"
      /\ driver' = [driver EXCEPT ![w] = q]
      /\ UNCHANGED <<stream, table, state, barrier, failed, following, run, promoter,
                     raced, unfollowed>>
  BY DEF Rebuild!ListStreams
<1>2. /\ driver[w] \in DriverRecords /\ run \in RunRecords /\ run.status # "none"
      /\ DriverTrue(driver[w], run, Rebuild!listStreams)
      /\ RunCovers(run, Missing)
  BY <1>1, DriverFacts
<1>3. /\ S = {d \in Rebuild!listStreams : d > driver[w].seen.cursor}
      /\ S \in SUBSET Rebuild!Docs
  BY DEF Rebuild!pending, Rebuild!listStreams
<1>4. /\ batch \subseteq S
      /\ S # {} => batch # {}
      /\ \A d \in S \ batch : ~ last /\ \A e \in batch : ~ (d <= e)
  BY <1>3, FirstOfIs
<1>5. last \in BOOLEAN /\ phase \in {"complete", "read"} /\ (phase = "complete" <=> S = {})
  OBVIOUS
<1> HIDE DEF batch, last, phase, S
<1>6. /\ q \in DriverRecords /\ q.pc = phase /\ q.seen = driver[w].seen /\ q.batch = batch
      /\ q.last = last /\ q.cursor = driver[w].cursor
  BY <1>2, <1>3, <1>4, <1>5 DEF DriverRecords
<1> HIDE DEF q
<1>7. /\ q.seen.version <= run.version /\ (q.seen.version = run.version => q.seen = run)
      /\ q.cursor = 0
  BY <1>1, <1>2, <1>6 DEF DriverTrue
<1>8. DriverTrue(q, run, Rebuild!listStreams)
  <2>1. batch \subseteq Rebuild!listStreams
    BY <1>3, <1>4
  <2>2. q.pc \in {"complete", "read"} /\ (q.pc = "read" => q.batch # {})
    BY <1>4, <1>5, <1>6
  <2> QED
    BY <1>6, <1>7, <2>1, <2>2 DEF DriverTrue
<1>9. DriverCovers(q, run, Missing)
  <2>1. Missing \subseteq Rebuild!listStreams /\ \A d \in Missing : ~ (d <= 0) /\ d \in Nat
    BY RebuildFacts DEF Missing, Rebuild!listStreams
  <2>2. \A d \in Missing \ q.batch : d > q.seen.cursor =>
          ~ (q.last \/ d <= q.cursor \/ \E e \in q.batch : d <= e)
    BY <1>3, <1>4, <1>6, <1>7, <2>1
  <2>3. ASSUME q.pc = "complete", q.seen.version = run.version
        PROVE  Missing \subseteq run.errors
    <3>1. q.seen = run /\ S = {} /\ run.cursor \in Nat
      BY <1>2, <1>5, <1>6, <1>7, <2>3 DEF RunRecords
    <3>2. \A d \in Missing : ~ (d > run.cursor)
      BY <1>3, <1>6, <2>1, <3>1
    <3>3. \A d \in Missing : d <= run.cursor
      BY <2>1, <3>1, <3>2
    <3> QED
      BY <1>2, <3>3 DEF RunCovers
  <2>4. q.pc \in {"complete", "read"}
    BY <1>5, <1>6
  <2> QED
    BY <2>2, <2>3, <2>4 DEF DriverCovers
<1> QED
  BY <1>1, <1>2, <1>6, <1>8, <1>9, DriverTurns

\* The cursor of a call moves past its next stream: its row was written, or there
\* is an error.
LEMMA PassedIs ==
  ASSUME RebuildInv, NEW w \in Actors, driver[w].pc \in {"read", "save"},
         NEW E, E \subseteq {Rebuild!Least(driver[w].batch)}, NEW N, N \subseteq Missing,
         Rebuild!Least(driver[w].batch) \in N => Rebuild!Least(driver[w].batch) \in E
  PROVE  /\ Rebuild!Passed(w, E) \in DriverRecords
         /\ DriverTrue(Rebuild!Passed(w, E), run, Rebuild!listStreams)
         /\ DriverCovers(Rebuild!Passed(w, E), run, N)
         /\ Rebuild!Least(driver[w].batch) \in Rebuild!Docs
<1> DEFINE d == Rebuild!Least(driver[w].batch)
           phase == IF driver[w].batch = {d} THEN "advance" ELSE "read"
           q == [driver[w] EXCEPT !.pc = phase, !.batch = driver[w].batch \ {d}, !.cursor = d,
                                  !.errors = driver[w].errors \cup E]
<1>1. Rebuild!Passed(w, E) = q
  BY DEF Rebuild!Passed
<1>2. /\ driver[w] \in DriverRecords /\ run \in RunRecords
      /\ DriverTrue(driver[w], run, Rebuild!listStreams)
      /\ DriverCovers(driver[w], run, Missing)
  BY DriverFacts
<1>3. driver[w].batch # {} /\ driver[w].batch \subseteq Rebuild!listStreams
  BY <1>2 DEF DriverTrue
<1>4. d \in driver[w].batch /\ d \in Rebuild!Docs /\ d \in Nat
  BY <1>2, <1>3, LeastIs, RebuildFacts DEF DriverRecords
<1>5. E \subseteq {d} /\ (d \in N => d \in E)
  OBVIOUS
<1> HIDE DEF d
<1>6. /\ phase \in {"advance", "read"} /\ (phase = "advance" => driver[w].batch = {d})
      /\ phase = "read" => driver[w].batch # {d}
  OBVIOUS
<1> HIDE DEF phase
<1>7. /\ q \in DriverRecords /\ q.pc = phase /\ q.batch = driver[w].batch \ {d} /\ q.cursor = d
      /\ q.errors = driver[w].errors \cup E /\ q.seen = driver[w].seen /\ q.last = driver[w].last
  BY <1>2, <1>4, <1>5, <1>6 DEF DriverRecords
<1> HIDE DEF q
<1>8. DriverTrue(q, run, Rebuild!listStreams)
  <2>1. q.pc = "read" => q.batch # {}
    BY <1>4, <1>6, <1>7
  <2>2. q.pc = "advance" => q.batch = {}
    BY <1>6, <1>7
  <2>3. /\ q.seen.version <= run.version /\ (q.seen.version = run.version => q.seen = run)
        /\ q.batch \subseteq Rebuild!listStreams /\ q.pc \in {"advance", "read"}
    BY <1>2, <1>3, <1>6, <1>7 DEF DriverTrue
  <2> QED
    BY <2>1, <2>2, <2>3 DEF DriverTrue
<1>9. DriverCovers(q, run, N)
  <2>1. ASSUME NEW e \in N \ q.batch, e > q.seen.cursor,
               q.last \/ e <= q.cursor \/ \E f \in q.batch : e <= f
        PROVE  e \in q.errors
    <3>1. CASE e = d
      BY <1>5, <1>7, <3>1
    <3>2. CASE e # d
      <4>1. e \in Missing \ driver[w].batch /\ e > driver[w].seen.cursor
        BY <1>7, <2>1, <3>2
      <4>2. driver[w].last \/ \E f \in driver[w].batch : e <= f
        BY <1>4, <1>7, <2>1
      <4>3. e \in driver[w].errors
        BY <1>2, <4>1, <4>2 DEF DriverCovers
      <4> QED
        BY <1>7, <4>3
    <3> QED
      BY <3>1, <3>2
  <2>2. q.pc \in {"advance", "read"}
    BY <1>6, <1>7
  <2> QED
    BY <2>1, <2>2 DEF DriverCovers
<1> QED
  BY <1>1, <1>4, <1>7, <1>8, <1>9 DEF d

LEMMA RebuildErrorKeeps ==
  ASSUME RebuildInv, NEW w \in Actors, Rebuild!RebuildError(w)
  PROVE  RebuildInv'
<1> DEFINE E == {Rebuild!Least(driver[w].batch)}
           q == Rebuild!Passed(w, E)
<1>1. /\ driver[w].pc \in {"read", "save"} /\ driver' = [driver EXCEPT ![w] = q]
      /\ UNCHANGED <<stream, table, state, barrier, failed, following, run, promoter,
                     raced, unfollowed>>
  BY DEF Rebuild!RebuildError
<1>2. /\ q \in DriverRecords /\ DriverTrue(q, run, Rebuild!listStreams)
      /\ DriverCovers(q, run, Missing)
  BY <1>1, PassedIs
<1>3. run.status # "none"
  BY <1>1, DriverFacts
<1> HIDE DEF q
<1> QED
  BY <1>1, <1>2, <1>3, DriverTurns

LEMMA SaveRowKeeps ==
  ASSUME RebuildInv, NEW w \in Actors, Rebuild!SaveRow(w)
  PROVE  RebuildInv'
<1> DEFINE d == Rebuild!Least(driver[w].batch)
           q == Rebuild!Passed(w, {})
<1>1. /\ driver[w].pc = "save" /\ driver' = [driver EXCEPT ![w] = q]
      /\ table' = [table EXCEPT !["shadow"][d] = driver[w].read]
      /\ raced' = (raced \/ promoter.pc \notin {"idle", "enter"} \/ state["shadow"] = "active")
      /\ UNCHANGED <<stream, state, barrier, failed, following, run, promoter, unfollowed>>
  BY DEF Rebuild!SaveRow
<1>2. /\ run \in RunRecords /\ run.status # "none" /\ driver[w].read \in Nat \ {0}
      /\ RebuildTypes
  BY <1>1, DriverFacts, RebuildFacts DEF DriverTrue, DriverRecords
<1>3. d \in Rebuild!Docs
  <2>1. {} \subseteq Missing /\ ~ (d \in {}) /\ {} \subseteq {d}
    OBVIOUS
  <2> QED
    BY <1>1, <2>1, PassedIs
<1>4. /\ table' \in [Rebuild!Targets -> Rows] /\ table'["base"] = table["base"]
      /\ \A e \in Rebuild!Docs : table'["shadow"][e] = IF e = d THEN driver[w].read ELSE table["shadow"][e]
  BY <1>1, <1>2, <1>3, ShadowRow
<1>5. Missing' \subseteq Missing /\ d \notin Missing'
  <2>1. Rebuild!listStreams' = Rebuild!listStreams /\ Rebuild!listStreams \subseteq Rebuild!Docs
    BY <1>1 DEF Rebuild!listStreams, Rebuild!Docs
  <2> QED
    BY <1>1, <1>2, <1>3, <1>4, <2>1 DEF Missing
<1>6. /\ q \in DriverRecords /\ DriverTrue(q, run, Rebuild!listStreams)
      /\ DriverCovers(q, run, Missing')
  BY <1>1, <1>5, PassedIs
<1>7. SameTrue' /\ raced' \in BOOLEAN
  BY <1>1 DEF SameTrue
<1> HIDE DEF q, d
<1>8. /\ run' = run /\ run' \in RunRecords /\ DriverTrue(q, run', Rebuild!listStreams)
      /\ DriverCovers(q, run', Missing')
  BY <1>1, <1>2, <1>6
<1> QED
  BY <1>1, <1>2, <1>4, <1>5, <1>6, <1>7, <1>8, DriverMoves

\* Streams, tables and the run stay; what the instance had not written counts as
\* unfollowed.
LEMMA RestartKeeps ==
  ASSUME RebuildInv, Rebuild!Restart
  PROVE  RebuildInv'
<1>1. /\ state' = Building \/ state' = state
      /\ barrier' = "free" /\ failed' = [d \in Rebuild!Docs |-> 0] /\ following' = 0
      /\ driver' = [w \in Actors |-> Rebuild!IdleDriver] /\ promoter' = Rebuild!IdlePromoter
      /\ unfollowed' = unfollowed \cup {d \in Rebuild!Docs : failed[d] # 0 \/ following = d}
      /\ UNCHANGED <<stream, table, run, raced>>
  BY DEF Rebuild!Restart, Rebuild!Mounted, Building
<1>2. RebuildTypes /\ BarrierTrue /\ run \in RunRecords
  BY DEF RebuildInv, RebuildTypes
<1>3. promoter' \in PromoterRecords /\ promoter'.pc = "idle" /\ promoter'.todo = {}
  BY <1>1, IdlePromoterIs
<1>4. Rebuild!IdleDriver \in DriverRecords /\ Rebuild!IdleDriver.pc = "idle"
  BY <1>2, IdleDriverIs DEF Rebuild!IdleDriver
<1>5. \A w \in Actors : driver'[w] = Rebuild!IdleDriver
  BY <1>1
<1>6. RebuildTypes'
  <2>1. failed' \in Rows /\ following' \in 0..DocumentBound
    BY <1>1, RebuildAssumption DEF Rows
  <2>2. driver' \in [Actors -> DriverRecords]
    BY <1>1, <1>4
  <2> QED
    BY <1>1, <1>2, <1>3, <2>1, <2>2 DEF RebuildTypes
<1>7. Rebuild!listStreams' = Rebuild!listStreams /\ Rebuild!listStreams \subseteq Rebuild!Docs
  BY <1>1 DEF Rebuild!listStreams, Rebuild!Docs
<1>8. BarrierTrue' /\ SameTrue'
  BY <1>1, <1>2, <1>3 DEF BarrierTrue, SameTrue
<1>9. DriversTrue'
  <2>1. \A w \in Actors : driver'[w].pc = "idle"
    BY <1>4, <1>5
  <2>2. run.status = "none" => run = Rebuild!NoRun
    BY DEF RebuildInv, DriversTrue
  <2> QED
    BY <1>1, <2>1, <2>2 DEF DriversTrue, DriverTrue, Rebuild!NoRun
<1>10. ScanTrue'
  <2>1. Missing' \subseteq Missing
    BY <1>1, <1>7 DEF Missing
  <2>2. RunCovers(run, Missing)
    BY DEF RebuildInv, ScanTrue
  <2>3. RunCovers(run', Missing')
    BY <1>1, <2>1, <2>2 DEF RunCovers
  <2>4. \A w \in Actors : DriverCovers(driver'[w], run', Missing')
    BY <1>4, <1>5 DEF DriverCovers
  <2> QED
    BY <2>3, <2>4 DEF ScanTrue
<1> QED
  BY <1>6, <1>8, <1>9, <1>10 DEF RebuildInv

LEMMA RebuildStep ==
  ASSUME RebuildInv, Rebuild!Next
  PROVE  RebuildInv'
<1>1. Rebuild!CommitStep => RebuildInv'
  BY CommitKeeps, FollowKeeps, RetryKeeps DEF Rebuild!CommitStep
<1>2. \A w \in Actors : Rebuild!DriverStep(w) => RebuildInv'
  BY DriverStarts, ListStreamsKeeps, ReadStreamKeeps, SaveRowKeeps, RebuildErrorKeeps,
     AppendAdvancedKeeps, RereadKeeps, AppendFinishedKeeps, DriverEnds DEF Rebuild!DriverStep
<1> QED
  BY <1>1, <1>2, StartKeeps, PromoteStepKeeps, RestartKeeps DEF Rebuild!Next

LEMMA RebuildInits ==
  ASSUME Rebuild!Init
  PROVE  RebuildInv
<1>1. PICK remains \in SUBSET {d \in Rebuild!Docs : stream[d] = 0} :
        /\ stream \in [Rebuild!Docs -> {0, 1}]
        /\ table = [t \in Rebuild!Targets |-> IF t = "base" THEN stream
                      ELSE [d \in Rebuild!Docs |-> IF d \in remains THEN 1 ELSE 0]]
        /\ state = Building /\ barrier = "free" /\ failed = [d \in Rebuild!Docs |-> 0]
        /\ following = 0 /\ run = Rebuild!NoRun /\ driver = [w \in Actors |-> Rebuild!IdleDriver]
        /\ promoter = Rebuild!IdlePromoter /\ raced = FALSE
  BY DEF Rebuild!Init, Rebuild!Mounted, Building
<1>2. run \in RunRecords /\ run.status = "none" /\ run.cursor = 0
  BY <1>1 DEF Rebuild!NoRun, RunRecords
<1>3. /\ promoter \in PromoterRecords /\ promoter.pc = "idle" /\ promoter.todo = {}
      /\ Rebuild!IdleDriver \in DriverRecords /\ Rebuild!IdleDriver.pc = "idle"
  <2>1. Rebuild!IdleDriver.pc = "idle"
    BY DEF Rebuild!IdleDriver
  <2> QED
    BY <1>1, <1>2, <2>1, IdlePromoterIs, IdleDriverIs
<1>4. \A w \in Actors :
        /\ driver[w].pc = "idle" /\ DriverTrue(driver[w], run, Rebuild!listStreams)
        /\ DriverCovers(driver[w], run, Missing)
  BY <1>1, <1>2, <1>3, IdleDriverIs
<1>5. RebuildTypes
  <2>1. stream \in Rows /\ failed \in Rows
    BY <1>1 DEF Rows
  <2>2. [d \in Rebuild!Docs |-> IF d \in remains THEN 1 ELSE 0] \in Rows
    BY DEF Rows
  <2>3. table \in [Rebuild!Targets -> Rows]
    BY <1>1, <2>1, <2>2
  <2>4. following \in 0..DocumentBound
    BY <1>1, RebuildAssumption
  <2>5. driver \in [Actors -> DriverRecords]
    BY <1>1, <1>3
  <2> QED
    BY <1>1, <1>2, <1>3, <2>1, <2>3, <2>4, <2>5 DEF RebuildTypes
<1>6. BarrierTrue /\ SameTrue
  BY <1>1, <1>3 DEF BarrierTrue, SameTrue, Rebuild!Targets
<1>7. DriversTrue
  BY <1>1, <1>4 DEF DriversTrue
<1>8. ScanTrue
  <2>1. \A d \in Missing : ~ (d <= 0)
    BY RebuildAssumption DEF Missing, Rebuild!listStreams, Rebuild!Docs
  <2>2. RunCovers(run, Missing)
    BY <1>2, <2>1 DEF RunCovers
  <2> QED
    BY <1>4, <2>2 DEF ScanTrue
<1> QED
  BY <1>5, <1>6, <1>7, <1>8 DEF RebuildInv

LEMMA RebuildStutters ==
  ASSUME RebuildInv, UNCHANGED rebuildVars
  PROVE  RebuildInv'
<1>1. UNCHANGED <<stream, table, state, barrier, failed, following, run, driver, promoter,
                  raced, unfollowed>>
  BY DEF rebuildVars
<1>2. Rebuild!listStreams' = Rebuild!listStreams /\ RebuildTypes /\ BarrierTrue /\ SameTrue
  BY <1>1 DEF Rebuild!listStreams, Rebuild!Docs, RebuildInv
<1>3. RebuildTypes'
  BY <1>1, <1>2 DEF RebuildTypes
<1>4. BarrierTrue'
  BY <1>1, <1>2 DEF BarrierTrue
<1>5. SameTrue'
  BY <1>1, <1>2 DEF SameTrue, Building
<1>6. Missing' = Missing
  BY <1>1, <1>2 DEF Missing
<1> QED
  BY <1>1, <1>2, <1>3, <1>4, <1>5, <1>6, WorldMoves

LEMMA RebuildOfServices ==
  ServicesSpec => []RebuildInv
<1>1. ServicesInit => RebuildInv
  BY RebuildInits DEF ServicesInit
<1>2. RebuildInv /\ [ServicesNext]_<<service, patchVars, storeVars, rebuildVars, hubVars, accountVars>>
        => RebuildInv'
  <2>1. [ServicesNext]_<<service, patchVars, storeVars, rebuildVars, hubVars, accountVars>> =>
          Rebuild!Next \/ UNCHANGED rebuildVars
    BY DEF ServicesNext
  <2> QED
    BY <2>1, RebuildStep, RebuildStutters
<1> QED
  BY <1>1, <1>2, PTL DEF ServicesSpec

\* ProjectionRebuildService.advance, whatever commits behind its cursor, whatever two
\* calls do at once and whichever dies: a completed scan has lost no document but one
\* whose last commit left the target nothing.
THEOREM CompletedScansCover ==
  ServicesSpec => []CompletedCovers
<1>1. RebuildInv => CompletedCovers
  <2>1. ASSUME RebuildInv, run.status = "completed", NEW d \in Rebuild!listStreams \ unfollowed
        PROVE  table["shadow"][d] # 0 \/ d \in run.errors \/ failed[d] # 0 \/ following = d
    <3>1. Missing \subseteq run.errors
      BY <2>1 DEF RebuildInv, ScanTrue, RunCovers
    <3> QED
      BY <2>1, <3>1 DEF Missing
  <2> QED
    BY <2>1 DEF CompletedCovers, Rebuild!CompletedCovers
<1> QED
  BY <1>1, RebuildOfServices, PTL

\* ProjectionRebuildService.promote under the router's write barrier: the swap finds
\* the new table equal to the streams, row for row, unless a call of advance was
\* still writing it.
THEOREM PromotionIsCurrent ==
  ServicesSpec => PromotedIsCurrent
<1>1. RebuildInv /\ [ServicesNext]_<<service, patchVars, storeVars, rebuildVars, hubVars, accountVars>>
        => [state["shadow"] # "active" /\ state'["shadow"] = "active" /\ ~raced
              => table["shadow"] = stream]_(Rebuild!vars)
  <2> SUFFICES ASSUME RebuildInv, Rebuild!Next \/ UNCHANGED rebuildVars,
                      state["shadow"] # "active", state'["shadow"] = "active", ~raced
               PROVE  table["shadow"] = stream
    BY DEF ServicesNext
  <2>1. state' # state /\ ~ Rebuild!Restart
    BY DEF Rebuild!Restart, Rebuild!Mounted
  <2>2. Rebuild!Promote
    BY <2>1 DEF rebuildVars, Rebuild!Next, Rebuild!Start, Rebuild!CommitStep, Rebuild!Commit,
           Rebuild!CommitThrows, Rebuild!SaveFollowers, Rebuild!SaveFollowersFails, Rebuild!retryFailedFollowers,
           Rebuild!DriverStep, Rebuild!StartAdvance, Rebuild!ListStreams, Rebuild!ReadStream,
           Rebuild!SaveRow, Rebuild!RebuildError, Rebuild!AppendAdvanced, Rebuild!RereadRun,
           Rebuild!AppendCompleted, Rebuild!StartAbort, Rebuild!AppendAborted,
           Rebuild!AppendConflict, Rebuild!DriverDies, Rebuild!PromoteStep, Rebuild!StartPromote,
           Rebuild!EnterBarrier, Rebuild!EnterBarrierRetryFails, Rebuild!Reconcile,
           Rebuild!RemoveStaleRows, Rebuild!Compare, Rebuild!RefusePromotion,
           Rebuild!PromotionFails
  <2>3. promoter.pc = "decide" /\ promoter.same /\ state["shadow"] = "building"
    BY <2>2 DEF Rebuild!Promote
  <2>4. state = Building
    BY <2>3 DEF RebuildInv, RebuildTypes, Promoted
  <2> QED
    BY <2>3, <2>4 DEF RebuildInv, SameTrue
<1> QED
  BY <1>1, RebuildOfServices, PTL DEF ServicesSpec, PromotedIsCurrent, Rebuild!PromotedIsCurrent

-----------------------------------------------------------------------------
(* DocumentStore.                                                          *)

EventRecords == [stream : Store!Streams, sequence : Nat \ {0}, id : Store!Commands]

FoldRecords == [version : Nat, log : Seq(Store!Commands)]

EventRow(s, n, c) == [stream |-> s, sequence |-> n, id |-> c]

\* The events 1..n of the stream are among the rows, and no other.
EndsAt(R, s, n) ==
  n \in Nat /\ \A i \in Nat \ {0} : (\E r \in R : r.stream = s /\ r.sequence = i) <=> i <= n

\* The events of each stream are numbered from one, without a gap and without a double.
Dense(R) ==
  /\ R \in SUBSET EventRecords
  /\ \A r, q \in R : r.stream = q.stream /\ r.sequence = q.sequence => r = q
  /\ \A s \in Store!Streams : \E n \in Nat : EndsAt(R, s, n)

\* The state f is what the first events of the stream fold to.
FoldOf(R, s, f) ==
  f.version = Len(f.log) /\ \A i \in 1..Len(f.log) : EventRow(s, i, f.log[i]) \in R

VersionIn(R, s) == Store!Max({r.sequence : r \in {q \in R : q.stream = s}} \cup {0})

EventIn(R, s, n) == (CHOOSE r \in {q \in R : q.stream = s} : r.sequence = n).id

LEMMA VersionIs ==
  ASSUME NEW R, R \in SUBSET EventRecords, NEW s, NEW n, EndsAt(R, s, n)
  PROVE  VersionIn(R, s) = n
<1> DEFINE S == {r.sequence : r \in {q \in R : q.stream = s}} \cup {0}
<1>1. n \in Nat /\ \A i \in Nat \ {0} : (\E r \in R : r.stream = s /\ r.sequence = i) <=> i <= n
  BY DEF EndsAt
<1>2. \A r \in R : r.sequence \in Nat \ {0}
  BY DEF EventRecords
<1>3. S = 0..n
  <2>1. \A i \in S : i \in 0..n
    <3>1. ASSUME NEW r \in R, r.stream = s
          PROVE  r.sequence \in 0..n
      <4>1. r.sequence \in Nat /\ r.sequence <= n
        BY <1>1, <1>2, <3>1
      <4> QED
        BY <1>1, <4>1
    <3> QED
      BY <1>1, <3>1
  <2>2. \A i \in 0..n : i \in S
    BY <1>1
  <2> QED
    BY <2>1, <2>2
<1> HIDE DEF S
<1>4. Store!Max(S) = n
  <2>1. n \in S /\ \A y \in S : n >= y
    BY <1>1, <1>3
  <2>2. \A x \in S : (\A y \in S : x >= y) => x = n
    BY <1>1, <1>3
  <2> QED
    BY <2>1, <2>2 DEF Store!Max
<1> QED
  BY <1>4 DEF S, VersionIn

LEMMA EventIs ==
  ASSUME NEW R, Dense(R), NEW r \in R
  PROVE  EventIn(R, r.stream, r.sequence) = r.id
BY DEF Dense, EventIn

\* What readStream gives, from the beginning.
LogIn(R, s) == [i \in 1..VersionIn(R, s) |-> EventIn(R, s, i)]

LEMMA LogIs ==
  ASSUME NEW R, Dense(R), NEW s \in Store!Streams
  PROVE  /\ LogIn(R, s) \in Seq(Store!Commands)
         /\ EndsAt(R, s, Len(LogIn(R, s))) /\ VersionIn(R, s) = Len(LogIn(R, s))
         /\ Len(LogIn(R, s)) \in Nat
         /\ \A i \in 1..Len(LogIn(R, s)) : EventRow(s, i, LogIn(R, s)[i]) \in R
<1>1. PICK n \in Nat : EndsAt(R, s, n)
  BY DEF Dense
<1>2. VersionIn(R, s) = n
  BY <1>1, VersionIs DEF Dense
<1>3. ASSUME NEW i \in 1..n
      PROVE  EventIn(R, s, i) \in Store!Commands /\ EventRow(s, i, EventIn(R, s, i)) \in R
  <2>1. PICK r \in R : r.stream = s /\ r.sequence = i
    BY <1>1 DEF EndsAt
  <2>2. EventIn(R, s, i) = r.id
    BY <2>1, EventIs
  <2>3. r = EventRow(s, i, r.id) /\ r.id \in Store!Commands
    BY <2>1 DEF Dense, EventRecords, EventRow
  <2> QED
    BY <2>2, <2>3
<1> DEFINE f == [i \in 1..n |-> EventIn(R, s, i)]
<1>4. LogIn(R, s) = f
  BY <1>2 DEF LogIn
<1>5. f \in Seq(Store!Commands) /\ Len(f) = n /\ \A i \in 1..n : f[i] = EventIn(R, s, i)
  BY <1>3
<1> HIDE DEF f
<1> QED
  BY <1>1, <1>2, <1>3, <1>4, <1>5

\* A state is the fold of a prefix: the log tells which.
LEMMA FoldPrefixIs ==
  ASSUME NEW R, Dense(R), NEW s \in Store!Streams, NEW f \in FoldRecords, FoldOf(R, s, f)
  PROVE  /\ f.version <= Len(LogIn(R, s)) /\ f.version \in Nat
         /\ \A i \in 1..f.version : f.log[i] = EventIn(R, s, i) /\ f.log[i] = LogIn(R, s)[i]
         /\ f.version = Len(LogIn(R, s)) => f.log = LogIn(R, s)
<1>1. f.log \in Seq(Store!Commands) /\ f.version = Len(f.log) /\ f.version \in Nat
  BY DEF FoldOf, FoldRecords
<1>2. /\ LogIn(R, s) \in Seq(Store!Commands) /\ EndsAt(R, s, Len(LogIn(R, s)))
      /\ Len(LogIn(R, s)) = VersionIn(R, s) /\ Len(LogIn(R, s)) \in Nat
  BY LogIs
<1>3. f.version <= Len(LogIn(R, s))
  <2>1. CASE f.version = 0
    BY <1>2, <2>1
  <2>2. CASE f.version # 0
    <3> DEFINE r == EventRow(s, f.version, f.log[f.version])
    <3>1. r \in R /\ r.stream = s /\ r.sequence = f.version
      BY <1>1, <2>2 DEF FoldOf, EventRow
    <3> QED
      BY <1>1, <1>2, <2>2, <3>1 DEF EndsAt
  <2> QED
    BY <2>1, <2>2
<1>4. ASSUME NEW i \in 1..f.version
      PROVE  f.log[i] = EventIn(R, s, i) /\ f.log[i] = LogIn(R, s)[i]
  <2> DEFINE r == EventRow(s, i, f.log[i])
  <2>1. r \in R
    BY <1>1 DEF FoldOf
  <2>2. r.stream = s /\ r.sequence = i /\ r.id = f.log[i]
    BY DEF EventRow
  <2>3. EventIn(R, s, i) = f.log[i]
    BY <2>1, <2>2, EventIs
  <2>4. i \in 1..VersionIn(R, s)
    BY <1>1, <1>2, <1>3
  <2> QED
    BY <2>3, <2>4 DEF LogIn
<1>5. ASSUME f.version = Len(LogIn(R, s))
      PROVE  f.log = LogIn(R, s)
  <2>1. \A i \in 1..Len(f.log) : f.log[i] = LogIn(R, s)[i]
    BY <1>1, <1>4
  <2> HIDE DEF LogIn
  <2> QED
    BY <1>1, <1>2, <1>5, <2>1, SeqEqual
<1> QED
  BY <1>1, <1>3, <1>4, <1>5

\* The rows that a batch inserts, and the folds it projects.
NewRows(E, basis, c) ==
  UNION {{EventRow(s, basis[s].version + n, c) : n \in 1..Store!EventsOf(s)} : s \in E}

Grown(f, s, c) ==
  [version |-> f.version + Store!EventsOf(s),
   log |-> f.log \o [i \in 1..Store!EventsOf(s) |-> c]]

LEMMA EventsOfIs == \A s : Store!EventsOf(s) \in Nat \ {0}
BY DEF Store!EventsOf

LEMMA NewRowIs ==
  ASSUME NEW E, NEW basis, NEW c, NEW x
  PROVE  x \in NewRows(E, basis, c) <=>
           \E s \in E : \E n \in 1..Store!EventsOf(s) : x = EventRow(s, basis[s].version + n, c)
BY DEF NewRows

\* The unique index finds out whether a state that a command has read is out of date.
LEMMA BatchMeetsTheEnd ==
  ASSUME NEW R, Dense(R), NEW s \in Store!Streams, NEW f \in FoldRecords, FoldOf(R, s, f),
         \A r \in R : r.stream = s => r.sequence # f.version + 1
  PROVE  f.version = Len(LogIn(R, s)) /\ f.log = LogIn(R, s) /\ EndsAt(R, s, f.version)
<1>1. /\ f.version <= Len(LogIn(R, s)) /\ f.version \in Nat
      /\ f.version = Len(LogIn(R, s)) => f.log = LogIn(R, s)
  BY FoldPrefixIs
<1>2. EndsAt(R, s, Len(LogIn(R, s))) /\ Len(LogIn(R, s)) \in Nat
  BY LogIs
<1>3. ~ (f.version + 1 <= Len(LogIn(R, s)))
  <2>1. f.version + 1 \in Nat \ {0}
    BY <1>1
  <2> QED
    BY <1>2, <2>1 DEF EndsAt
<1>4. f.version = Len(LogIn(R, s))
  BY <1>1, <1>2, <1>3
<1> QED
  BY <1>1, <1>2, <1>4

LEMMA GrownIs ==
  ASSUME NEW R, NEW s, NEW f \in FoldRecords, NEW c \in Store!Commands, FoldOf(R, s, f),
         NEW Q, R \subseteq Q,
         \A n \in 1..Store!EventsOf(s) : EventRow(s, f.version + n, c) \in Q
  PROVE  Grown(f, s, c) \in FoldRecords /\ FoldOf(Q, s, Grown(f, s, c))
<1> DEFINE k == Store!EventsOf(s)
           tail == [i \in 1..k |-> c]
           g == f.log \o tail
<1>1. k \in Nat \ {0}
  BY EventsOfIs
<1>2. f.log \in Seq(Store!Commands) /\ f.version = Len(f.log) /\ f.version \in Nat
  BY DEF FoldOf, FoldRecords
<1> HIDE DEF k
<1>3. tail \in Seq(Store!Commands) /\ Len(tail) = k /\ \A i \in 1..k : tail[i] = c
  BY <1>1
<1> HIDE DEF tail
<1>4. /\ g \in Seq(Store!Commands) /\ Len(g) = f.version + k
      /\ \A i \in 1..f.version : g[i] = f.log[i]
      /\ \A i \in 1..Len(g) : i > f.version => g[i] = c /\ i - f.version \in 1..k
  BY <1>1, <1>2, <1>3
<1> HIDE DEF g
<1>5. ASSUME NEW i \in 1..Len(g)
      PROVE  EventRow(s, i, g[i]) \in Q
  <2>1. CASE i <= f.version
    <3>1. EventRow(s, i, f.log[i]) \in R /\ g[i] = f.log[i]
      BY <1>2, <1>4, <2>1 DEF FoldOf
    <3> QED
      BY <3>1
  <2>2. CASE ~ (i <= f.version)
    <3> DEFINE n == i - f.version
    <3>1. n \in 1..k /\ f.version + n = i /\ g[i] = c
      BY <1>2, <1>4, <2>2
    <3>2. EventRow(s, f.version + n, c) \in Q
      BY <3>1 DEF k
    <3> QED
      BY <3>1, <3>2
  <2> QED
    BY <2>1, <2>2
<1>6. Grown(f, s, c) = [version |-> f.version + k, log |-> g]
  BY DEF Grown, g, k, tail
<1>7. f.version + k \in Nat
  BY <1>1, <1>2
<1> QED
  BY <1>4, <1>5, <1>6, <1>7 DEF FoldOf, FoldRecords

\* A batch that the unique index lets through.
Insertable(R, E, basis, c) ==
  /\ Dense(R) /\ E \in SUBSET Store!Streams
  /\ basis \in [Store!Streams -> FoldRecords] /\ c \in Store!Commands
  /\ \A s \in E : FoldOf(R, s, basis[s])
  /\ \A x \in NewRows(E, basis, c) : \A r \in R : r.stream = x.stream => r.sequence # x.sequence

\* The rows Q after it: what was read is the end of each stream, and what is projected
\* the new end.
Extended(R, Q, E, basis, c) ==
  /\ Dense(Q)
  /\ \A s \in E : /\ basis[s].log = LogIn(R, s)
                  /\ Grown(basis[s], s, c) \in FoldRecords
                  /\ FoldOf(Q, s, Grown(basis[s], s, c))
                  /\ LogIn(Q, s) = Grown(basis[s], s, c).log
  /\ \A s \in Store!Streams \ E : LogIn(Q, s) = LogIn(R, s)

LEMMA InsertIs ==
  ASSUME NEW R, NEW E, NEW basis, NEW c, Insertable(R, E, basis, c),
         NEW Q, Q = R \cup NewRows(E, basis, c)
  PROVE  Extended(R, Q, E, basis, c)
<1> USE DEF Insertable
<1> DEFINE N == NewRows(E, basis, c)
<1>1. \A s \in E : \A n \in 1..Store!EventsOf(s) : EventRow(s, basis[s].version + n, c) \in N
  BY NewRowIs
<1>2. \A x \in N : \E s \in E : \E n \in 1..Store!EventsOf(s) : x = EventRow(s, basis[s].version + n, c)
  BY NewRowIs
<1> HIDE DEF N
<1>3. ASSUME NEW s \in E
      PROVE  /\ basis[s] \in FoldRecords /\ basis[s].version \in Nat
             /\ basis[s].log = LogIn(R, s) /\ EndsAt(R, s, basis[s].version)
  <2>1. 1 \in 1..Store!EventsOf(s)
    BY EventsOfIs
  <2>2. EventRow(s, basis[s].version + 1, c) \in N
    BY <1>1, <2>1
  <2>3. \A r \in R : r.stream = s => r.sequence # basis[s].version + 1
    BY <2>2 DEF N, EventRow
  <2>4. basis[s] \in FoldRecords
    OBVIOUS
  <2> QED
    BY <2>3, <2>4, BatchMeetsTheEnd DEF FoldRecords
<1>4. ASSUME NEW s \in E
      PROVE  EndsAt(Q, s, basis[s].version + Store!EventsOf(s))
  <2> DEFINE v == basis[s].version
             k == Store!EventsOf(s)
  <2>1. v \in Nat /\ k \in Nat \ {0} /\ EndsAt(R, s, v)
    BY <1>3, EventsOfIs
  <2> HIDE DEF v, k
  <2>2. ASSUME NEW i \in Nat \ {0}
        PROVE  (\E r \in Q : r.stream = s /\ r.sequence = i) <=> i <= v + k
    <3>1. ASSUME i <= v
          PROVE  \E r \in Q : r.stream = s /\ r.sequence = i
      BY <2>1, <3>1 DEF EndsAt
    <3>2. ASSUME i > v, i <= v + k
          PROVE  \E r \in Q : r.stream = s /\ r.sequence = i
      <4> DEFINE n == i - v
      <4>1. n \in 1..k /\ v + n = i
        BY <2>1, <3>2
      <4> HIDE DEF n
      <4>2. EventRow(s, v + n, c) \in N
        BY <1>1, <4>1 DEF v, k
      <4>3. EventRow(s, i, c) \in Q
        BY <4>1, <4>2 DEF N
      <4> QED
        BY <4>3 DEF EventRow
    <3>3. ASSUME NEW r \in Q, r.stream = s, r.sequence = i
          PROVE  i <= v + k
      <4>1. CASE r \in R
        <5>1. i <= v
          BY <2>1, <3>3, <4>1 DEF EndsAt
        <5> QED
          BY <2>1, <5>1
      <4>2. CASE r \in N
        <5>10. PICK t \in E : \E n \in 1..Store!EventsOf(t) : r = EventRow(t, basis[t].version + n, c)
          BY <1>2, <4>2
        <5>1. PICK n \in 1..Store!EventsOf(t) : r = EventRow(t, basis[t].version + n, c)
          BY <5>10
        <5>2. t = s /\ i = basis[t].version + n
          BY <3>3, <5>1 DEF EventRow
        <5>3. i = v + n /\ n \in 1..k
          BY <5>1, <5>2 DEF v, k
        <5> QED
          BY <2>1, <5>3
      <4> QED
        BY <3>3, <4>1, <4>2 DEF N
    <3>4. i <= v \/ i > v
      BY <2>1
    <3> QED
      BY <3>1, <3>2, <3>3, <3>4
  <2>3. v + k \in Nat
    BY <2>1
  <2> QED
    BY <2>2, <2>3 DEF EndsAt, v, k
<1>5. ASSUME NEW s \in Store!Streams \ E, NEW r \in Q, r.stream = s
      PROVE  r \in R
  BY <1>2, <1>5 DEF N, EventRow
<1>6. Dense(Q)
  <2>1. Q \in SUBSET EventRecords
    <3>1. ASSUME NEW x \in N
          PROVE  x \in EventRecords
      <4>10. PICK s \in E : \E n \in 1..Store!EventsOf(s) : x = EventRow(s, basis[s].version + n, c)
        BY <1>2
      <4>1. PICK n \in 1..Store!EventsOf(s) : x = EventRow(s, basis[s].version + n, c)
        BY <4>10
      <4> DEFINE i == basis[s].version + n
      <4>2. i \in Nat \ {0}
        BY <1>3, EventsOfIs
      <4> HIDE DEF i
      <4> QED
        BY <4>1, <4>2 DEF EventRecords, EventRow, i
    <3> QED
      BY <3>1 DEF Dense, N
  <2>2. ASSUME NEW r \in Q, NEW q \in Q, r.stream = q.stream, r.sequence = q.sequence
        PROVE  r = q
    <3>1. CASE r \in R /\ q \in R
      BY <2>2, <3>1 DEF Dense
    <3>2. CASE r \in N /\ q \in N
      <4>10. PICK s \in E : \E n \in 1..Store!EventsOf(s) : r = EventRow(s, basis[s].version + n, c)
        BY <1>2, <3>2
      <4>1. PICK n \in 1..Store!EventsOf(s) : r = EventRow(s, basis[s].version + n, c)
        BY <4>10
      <4>20. PICK t \in E : \E m \in 1..Store!EventsOf(t) : q = EventRow(t, basis[t].version + m, c)
        BY <1>2, <3>2
      <4>2. PICK m \in 1..Store!EventsOf(t) : q = EventRow(t, basis[t].version + m, c)
        BY <4>20
      <4> DEFINE i == basis[s].version + n
                 j == basis[t].version + m
      <4> HIDE DEF i, j
      <4>3. s = t /\ i = j
        BY <2>2, <4>1, <4>2 DEF EventRow, i, j
      <4> QED
        BY <4>1, <4>2, <4>3 DEF i, j
    <3>3. r \in R \/ r \in N
      BY <2>2 DEF N
    <3>4. q \in R \/ q \in N
      BY <2>2 DEF N
    <3>5. ~ (r \in R /\ q \in N) /\ ~ (q \in R /\ r \in N)
      BY <2>2 DEF N
    <3> QED
      BY <3>1, <3>2, <3>3, <3>4, <3>5
  <2>3. ASSUME NEW s \in Store!Streams
        PROVE  \E n \in Nat : EndsAt(Q, s, n)
    <3>1. CASE s \in E
      BY <1>4, <3>1 DEF EndsAt
    <3>2. CASE s \notin E
      <4>1. PICK n \in Nat : EndsAt(R, s, n)
        BY DEF Dense
      <4>2. EndsAt(Q, s, n)
        BY <1>5, <3>2, <4>1 DEF EndsAt
      <4> QED
        BY <4>2
    <3> QED
      BY <3>1, <3>2
  <2> QED
    BY <2>1, <2>2, <2>3 DEF Dense
<1>7. ASSUME NEW s \in E
      PROVE  /\ Grown(basis[s], s, c) \in FoldRecords
             /\ FoldOf(Q, s, Grown(basis[s], s, c))
             /\ LogIn(Q, s) = Grown(basis[s], s, c).log
  <2> DEFINE g == Grown(basis[s], s, c)
  <2>1. \A n \in 1..Store!EventsOf(s) : EventRow(s, basis[s].version + n, c) \in Q
    BY <1>1 DEF N
  <2>2. R \subseteq Q /\ basis[s] \in FoldRecords /\ FoldOf(R, s, basis[s])
    OBVIOUS
  <2>3. g \in FoldRecords /\ FoldOf(Q, s, g)
    BY <2>1, <2>2, GrownIs
  <2>4. EndsAt(Q, s, g.version)
    BY <1>4 DEF Grown
  <2> HIDE DEF g
  <2>5. g.version = Len(LogIn(Q, s))
    <3>1. VersionIn(Q, s) = g.version
      BY <1>6, <2>4, VersionIs DEF Dense
    <3> QED
      BY <1>6, <3>1, LogIs
  <2>6. LogIn(Q, s) = g.log
    BY <1>6, <2>3, <2>5, FoldPrefixIs
  <2> QED
    BY <2>3, <2>6 DEF g
<1>8. ASSUME NEW s \in Store!Streams \ E
      PROVE  LogIn(Q, s) = LogIn(R, s)
  <2>1. {q \in Q : q.stream = s} = {q \in R : q.stream = s}
    <3>1. R \subseteq Q /\ \A r \in Q : r.stream = s => r \in R
      BY <1>5
    <3> QED
      BY <3>1
  <2>2. VersionIn(Q, s) = VersionIn(R, s)
    BY <2>1, Zenon DEF VersionIn
  <2>3. \A i : EventIn(Q, s, i) = EventIn(R, s, i)
    BY <2>1, Zenon DEF EventIn
  <2> HIDE DEF VersionIn, EventIn
  <2> QED
    BY <2>2, <2>3 DEF LogIn
<1> QED
  BY <1>3, <1>6, <1>7, <1>8 DEF Extended

SnapshotRecords == [upto : Nat, state : FoldRecords]

WriterRecords ==
  [pc : {"idle", "snapshot", "tail", "read", "check", "batch", "record"}, id : Nat,
   entries : Seq(Store!Streams), at : Nat, base : SnapshotRecords,
   basis : [Store!Streams -> FoldRecords]]

StoreTypes ==
  /\ writer \in [Actors -> WriterRecords]
  /\ snapshots \in [Documents -> SnapshotRecords]
  /\ answers \in [Store!Commands -> {"open", "stored", "refused", "failed"}]
  /\ given \in 0..CommandBound

EntriesOf(q) == {q.entries[i] : i \in DOMAIN q.entries}

\* The document of a request.
DocOf(q) == CHOOSE d \in Documents : \E i \in DOMAIN q.entries : q.entries[i] = d

\* A snapshot covers the events that it says it covers.
SnapshotTrue(R, d, k) == k.upto = k.state.version /\ FoldOf(R, d, k.state)

\* What a request has read is a fold of events that are there to stay, and its own
\* events are there exactly when its batch is through.
RequestTrue(R, q) ==
  /\ \A s \in Store!Streams : FoldOf(R, s, q.basis[s])
  /\ q.pc # "idle" => EntriesOf(q) # {}
  /\ q.pc \in {"snapshot", "tail"} => EntriesOf(q) \cap Documents # {}
  /\ q.pc = "tail" => SnapshotTrue(R, DocOf(q), q.base)
  /\ q.pc \notin {"idle", "record"} => \A r \in R : r.id # q.id
  /\ q.pc = "record" => /\ \E r \in R : r.id = q.id
                        /\ \A s \in EntriesOf(q) : FoldOf(R, s, Grown(q.basis[s], s, q.id))

\* A command has one request, and no answer before it ends.
IdsTrue ==
  /\ \A w \in Actors : writer[w].pc # "idle" =>
       writer[w].id \in 1..given /\ answers[writer[w].id] = "open"
  /\ \A v, w \in Actors : v # w /\ writer[v].pc # "idle" /\ writer[w].pc # "idle" =>
       writer[v].id # writer[w].id
  /\ \A r \in eventRows : r.id <= given
  /\ \A c \in Store!Commands : c > given => answers[c] = "open"

StoreInv ==
  /\ StoreTypes
  /\ Dense(eventRows)
  /\ \A d \in Documents : SnapshotTrue(eventRows, d, snapshots[d])
  /\ \A w \in Actors : RequestTrue(eventRows, writer[w])
  /\ IdsTrue

LEMMA FoldStays ==
  ASSUME NEW R, NEW Q, R \subseteq Q, NEW s, NEW f, FoldOf(R, s, f)
  PROVE  FoldOf(Q, s, f)
BY DEF FoldOf

\* The events of another command are stored.
LEMMA RequestStays ==
  ASSUME NEW R, NEW Q, R \subseteq Q, NEW q, RequestTrue(R, q),
         q.pc # "idle" => \A r \in Q \ R : r.id # q.id
  PROVE  RequestTrue(Q, q)
<1>1. \A s \in Store!Streams : FoldOf(Q, s, q.basis[s])
  BY FoldStays DEF RequestTrue
<1>2. q.pc = "tail" => SnapshotTrue(Q, DocOf(q), q.base)
  BY FoldStays DEF RequestTrue, SnapshotTrue
<1>3. q.pc = "record" => \A s \in EntriesOf(q) : FoldOf(Q, s, Grown(q.basis[s], s, q.id))
  BY FoldStays DEF RequestTrue
<1>4. q.pc \notin {"idle", "record"} => \A r \in Q : r.id # q.id
  BY DEF RequestTrue
<1> QED
  BY <1>1, <1>2, <1>3, <1>4 DEF RequestTrue

LEMMA StoreMoves ==
  ASSUME StoreInv, NEW w \in Actors, NEW q \in WriterRecords, writer[w].pc # "idle",
         writer' = [writer EXCEPT ![w] = q], given' = given,
         eventRows \subseteq eventRows', Dense(eventRows'),
         \A r \in eventRows' \ eventRows : r.id = writer[w].id,
         snapshots' \in [Documents -> SnapshotRecords],
         \A d \in Documents : SnapshotTrue(eventRows', d, snapshots'[d]),
         RequestTrue(eventRows', q), q.pc # "idle" => q.id = writer[w].id,
         \/ answers' = answers
         \/ /\ q.pc = "idle"
            /\ \E a \in {"stored", "refused", "failed"} : answers' = [answers EXCEPT ![writer[w].id] = a]
  PROVE  StoreInv'
<1>1. /\ writer \in [Actors -> WriterRecords] /\ given \in 0..CommandBound
      /\ answers \in [Store!Commands -> {"open", "stored", "refused", "failed"}] /\ IdsTrue
      /\ \A v \in Actors : RequestTrue(eventRows, writer[v])
  BY DEF StoreInv, StoreTypes
<1>2. /\ writer' \in [Actors -> WriterRecords] /\ writer'[w] = q
      /\ \A v \in Actors : v # w => writer'[v] = writer[v]
  BY <1>1
<1>3. writer[w].id \in 1..given /\ answers[writer[w].id] = "open"
  BY <1>1 DEF IdsTrue
<1>4. writer[w].id \in Store!Commands /\ writer[w].id <= given
  BY <1>1, <1>3, CommandBoundAssumption DEF Store!Commands
<1>5. /\ answers' \in [Store!Commands -> {"open", "stored", "refused", "failed"}]
      /\ \A c \in Store!Commands : c # writer[w].id => answers'[c] = answers[c]
      /\ q.pc # "idle" => answers' = answers
  BY <1>1, <1>4
<1>6. StoreTypes'
  BY <1>1, <1>2, <1>5 DEF StoreTypes, Store!Commands
<1>7. ASSUME NEW v \in Actors
      PROVE  RequestTrue(eventRows', writer'[v])
  <2>1. CASE v = w
    BY <1>2, <2>1
  <2>2. CASE v # w
    <3>1. writer[v].pc # "idle" => writer[v].id # writer[w].id
      BY <1>1, <2>2 DEF IdsTrue
    <3>2. writer[v].pc # "idle" => \A r \in eventRows' \ eventRows : r.id # writer[v].id
      BY <3>1
    <3> QED
      BY <1>1, <1>2, <2>2, <3>2, RequestStays
  <2> QED
    BY <2>1, <2>2
<1>8. IdsTrue'
  <2>1. ASSUME NEW v \in Actors, writer'[v].pc # "idle"
        PROVE  writer[v].pc # "idle" /\ writer'[v].id = writer[v].id
    BY <1>2, <2>1
  <2>2. \A v \in Actors : writer'[v].pc # "idle" =>
          writer'[v].id \in 1..given' /\ answers'[writer'[v].id] = "open"
    <3>1. ASSUME NEW v \in Actors, writer'[v].pc # "idle"
          PROVE  answers'[writer[v].id] = "open" /\ writer[v].id \in 1..given
      <4>1. writer[v].id \in 1..given /\ answers[writer[v].id] = "open"
        BY <1>1, <2>1, <3>1 DEF IdsTrue
      <4>2. writer[v].id \in Store!Commands
        BY <1>1, <4>1, CommandBoundAssumption DEF Store!Commands
      <4>3. CASE v = w
        BY <1>2, <1>5, <3>1, <4>1, <4>3
      <4>4. CASE v # w
        <5>1. writer[v].id # writer[w].id
          BY <1>1, <2>1, <3>1, <4>4 DEF IdsTrue
        <5> QED
          BY <1>5, <4>1, <4>2, <5>1
      <4> QED
        BY <4>3, <4>4
    <3> QED
      BY <2>1, <3>1
  <2>3. \A u, v \in Actors : u # v /\ writer'[u].pc # "idle" /\ writer'[v].pc # "idle" =>
          writer'[u].id # writer'[v].id
    BY <1>1, <2>1 DEF IdsTrue
  <2>4. \A r \in eventRows' : r.id <= given'
    BY <1>1, <1>4 DEF IdsTrue
  <2>5. \A c \in Store!Commands : c > given' => answers'[c] = "open"
    <3>1. ASSUME NEW c \in Store!Commands, c > given
          PROVE  answers'[c] = "open"
      <4>1. c # writer[w].id
        BY <1>1, <1>3, <3>1
      <4> QED
        BY <1>1, <1>5, <3>1, <4>1 DEF IdsTrue
    <3> QED
      BY <3>1
  <2> QED
    BY <2>2, <2>3, <2>4, <2>5 DEF IdsTrue, Store!Commands
<1> QED
  BY <1>6, <1>7, <1>8 DEF StoreInv

\* Nothing is stored.
LEMMA StoreTurns ==
  ASSUME StoreInv, NEW w \in Actors, NEW q \in WriterRecords, writer[w].pc # "idle",
         writer' = [writer EXCEPT ![w] = q], UNCHANGED <<eventRows, snapshots, given>>,
         RequestTrue(eventRows, q), q.pc # "idle" => q.id = writer[w].id,
         \/ answers' = answers
         \/ /\ q.pc = "idle"
            /\ \E a \in {"stored", "refused", "failed"} : answers' = [answers EXCEPT ![writer[w].id] = a]
  PROVE  StoreInv'
<1>1. /\ eventRows \subseteq eventRows' /\ Dense(eventRows')
      /\ \A r \in eventRows' \ eventRows : r.id = writer[w].id
      /\ snapshots' \in [Documents -> SnapshotRecords]
      /\ \A d \in Documents : SnapshotTrue(eventRows', d, snapshots'[d])
      /\ RequestTrue(eventRows', q)
  BY DEF StoreInv, StoreTypes
<1> QED
  BY <1>1, StoreMoves

LEMMA EmptyFoldIs ==
  /\ Store!EmptyFold \in FoldRecords /\ Store!NoSnapshot \in SnapshotRecords
  /\ \A R, s : FoldOf(R, s, Store!EmptyFold) /\ SnapshotTrue(R, s, Store!NoSnapshot)
<1>1. <<>> \in Seq(Store!Commands) /\ Len(<<>>) = 0
  OBVIOUS
<1>2. Store!EmptyFold \in FoldRecords /\ Store!EmptyFold.version = 0 /\ Store!EmptyFold.log = <<>>
  BY <1>1 DEF Store!EmptyFold, FoldRecords
<1>3. \A R, s : FoldOf(R, s, Store!EmptyFold)
  BY <1>1, <1>2 DEF FoldOf
<1>4. /\ Store!NoSnapshot \in SnapshotRecords /\ Store!NoSnapshot.upto = 0
      /\ Store!NoSnapshot.state = Store!EmptyFold
  BY <1>2 DEF Store!NoSnapshot, SnapshotRecords
<1> QED
  BY <1>2, <1>3, <1>4 DEF SnapshotTrue

LEMMA IdleRequestIs ==
  /\ Store!Idle \in WriterRecords /\ Store!Idle.pc = "idle"
  /\ \A s \in Store!Streams : Store!Idle.basis[s] = Store!EmptyFold
  /\ \A R : RequestTrue(R, Store!Idle)
<1>1. [s \in Store!Streams |-> Store!EmptyFold] \in [Store!Streams -> FoldRecords]
  BY EmptyFoldIs
<1>2. <<>> \in Seq(Store!Streams)
  OBVIOUS
<1>3. Store!Idle \in WriterRecords /\ Store!Idle.pc = "idle"
  BY <1>1, <1>2, EmptyFoldIs DEF Store!Idle, WriterRecords
<1>4. \A s \in Store!Streams : Store!Idle.basis[s] = Store!EmptyFold
  BY DEF Store!Idle
<1> QED
  BY <1>3, <1>4, EmptyFoldIs DEF RequestTrue

\* What the invariant says of one request.
LEMMA RequestFacts ==
  ASSUME StoreInv, NEW w \in Actors
  PROVE  /\ writer[w] \in WriterRecords /\ RequestTrue(eventRows, writer[w])
         /\ Dense(eventRows)
         /\ writer[w].pc # "idle" => /\ writer[w].id \in Store!Commands
                                     /\ answers[writer[w].id] = "open"
         /\ Store!EntryStreams(w) = EntriesOf(writer[w])
         /\ EntriesOf(writer[w]) \in SUBSET Store!Streams
         /\ Store!DocumentOf(w) = DocOf(writer[w])
         /\ EntriesOf(writer[w]) \cap Documents # {} =>
              DocOf(writer[w]) \in EntriesOf(writer[w]) \cap Documents
<1>1. writer[w] \in WriterRecords /\ RequestTrue(eventRows, writer[w]) /\ Dense(eventRows)
  BY DEF StoreInv, StoreTypes
<1>2. ASSUME writer[w].pc # "idle"
      PROVE  writer[w].id \in Store!Commands /\ answers[writer[w].id] = "open"
  <2>1. writer[w].id \in 1..given /\ answers[writer[w].id] = "open" /\ given \in 0..CommandBound
    BY <1>2 DEF StoreInv, IdsTrue, StoreTypes
  <2> QED
    BY <2>1, CommandBoundAssumption DEF Store!Commands
<1>3. Store!EntryStreams(w) = EntriesOf(writer[w]) /\ Store!DocumentOf(w) = DocOf(writer[w])
  BY DEF Store!EntryStreams, EntriesOf, Store!DocumentOf, DocOf
<1>4. EntriesOf(writer[w]) \in SUBSET Store!Streams
  <2>1. writer[w].entries \in Seq(Store!Streams)
    BY <1>1 DEF WriterRecords
  <2> QED
    BY <2>1 DEF EntriesOf
<1>5. ASSUME EntriesOf(writer[w]) \cap Documents # {}
      PROVE  DocOf(writer[w]) \in EntriesOf(writer[w]) \cap Documents
  <2>1. \E d \in Documents : \E i \in DOMAIN writer[w].entries : writer[w].entries[i] = d
    BY <1>5 DEF EntriesOf
  <2>2. /\ DocOf(writer[w]) \in Documents
        /\ \E i \in DOMAIN writer[w].entries : writer[w].entries[i] = DocOf(writer[w])
    BY <2>1 DEF DocOf
  <2> QED
    BY <2>2 DEF EntriesOf
<1> QED
  BY <1>1, <1>2, <1>3, <1>4, <1>5

\* A request ends, and its caller may be told.
LEMMA RequestEndsKeeps ==
  ASSUME StoreInv, NEW w \in Actors, writer[w].pc # "idle",
         writer' = [writer EXCEPT ![w] = Store!Idle], UNCHANGED <<eventRows, snapshots, given>>,
         \/ answers' = answers
         \/ \E a \in {"stored", "refused", "failed"} : answers' = [answers EXCEPT ![writer[w].id] = a]
  PROVE  StoreInv'
BY IdleRequestIs, StoreTurns

LEMMA GiveKeeps ==
  ASSUME StoreInv, NEW w \in Actors, NEW place \in {"snapshot", "read"},
         NEW entries \in Seq(Store!Streams), Len(entries) > 0,
         place = "snapshot" => \E i \in 1..Len(entries) : entries[i] \in Documents,
         Store!Give(w, place, entries)
  PROVE  StoreInv'
<1> DEFINE n == given + 1
           q == [Store!Idle EXCEPT !.pc = place, !.id = n, !.entries = entries, !.at = 1]
<1>1. /\ writer[w].pc = "idle" /\ given < CommandBound /\ given' = n
      /\ writer' = [writer EXCEPT ![w] = q]
      /\ UNCHANGED <<eventRows, snapshots, answers>>
  BY DEF Store!Give
<1>2. /\ writer \in [Actors -> WriterRecords] /\ given \in 0..CommandBound
      /\ snapshots \in [Documents -> SnapshotRecords]
      /\ answers \in [Store!Commands -> {"open", "stored", "refused", "failed"}] /\ IdsTrue
      /\ \A v \in Actors : RequestTrue(eventRows, writer[v])
  BY DEF StoreInv, StoreTypes
<1>3. /\ n \in 0..CommandBound /\ n \in Store!Commands /\ n \in 1..n /\ n > given /\ n \in Nat
      /\ \A i \in 1..given : i \in 1..n /\ i # n
      /\ \A i : i <= given /\ i \in Nat => i <= n /\ i # n
      /\ \A i \in Nat : i > n => i > given
  BY <1>1, <1>2, CommandBoundAssumption DEF Store!Commands
<1> HIDE DEF n
<1>4. /\ q \in WriterRecords /\ q.pc = place /\ q.id = n /\ q.entries = entries
      /\ q.basis = Store!Idle.basis
  <2>1. Store!Idle \in WriterRecords
    BY IdleRequestIs
  <2> HIDE DEF Store!Idle
  <2> QED
    BY <1>3, <2>1 DEF WriterRecords
<1> HIDE DEF q
<1>5. \A r \in eventRows : r.id \in Nat /\ r.id <= given /\ r.id <= n /\ r.id # n
  <2>1. \A r \in eventRows : r.id \in Nat /\ r.id <= given
    BY <1>2, CommandBoundAssumption DEF IdsTrue, StoreInv, Dense, EventRecords, Store!Commands
  <2> QED
    BY <1>3, <2>1
<1>6. RequestTrue(eventRows, q)
  <2>1. \A s \in Store!Streams : FoldOf(eventRows, s, q.basis[s])
    BY <1>4, IdleRequestIs, EmptyFoldIs
  <2>2. DOMAIN entries = 1..Len(entries) /\ 1 \in DOMAIN entries
    OBVIOUS
  <2>3. EntriesOf(q) # {} /\ (q.pc = "snapshot" => EntriesOf(q) \cap Documents # {})
    BY <1>4, <2>2 DEF EntriesOf
  <2> QED
    BY <1>4, <1>5, <2>1, <2>3 DEF RequestTrue
<1>7. /\ writer' \in [Actors -> WriterRecords] /\ writer'[w] = q
      /\ \A v \in Actors : v # w => writer'[v] = writer[v]
  BY <1>1, <1>2, <1>4
<1>8. StoreTypes'
  BY <1>1, <1>2, <1>3, <1>7 DEF StoreTypes, Store!Commands
<1>9. \A v \in Actors : RequestTrue(eventRows', writer'[v])
  BY <1>1, <1>2, <1>6, <1>7
<1>10. IdsTrue'
  <2>1. answers[n] = "open"
    BY <1>2, <1>3 DEF IdsTrue
  <2>2. \A v \in Actors : v # w /\ writer[v].pc # "idle" =>
          writer[v].id \in 1..n /\ writer[v].id # n /\ answers[writer[v].id] = "open"
    BY <1>2, <1>3 DEF IdsTrue
  <2>3. \A v \in Actors : writer'[v].pc # "idle" =>
          writer'[v].id \in 1..given' /\ answers'[writer'[v].id] = "open"
    BY <1>1, <1>3, <1>4, <1>7, <2>1, <2>2
  <2>4. \A u, v \in Actors : u # v /\ writer'[u].pc # "idle" /\ writer'[v].pc # "idle" =>
          writer'[u].id # writer'[v].id
    <3>1. ASSUME NEW u \in Actors, NEW v \in Actors, u # v,
                 writer'[u].pc # "idle", writer'[v].pc # "idle"
          PROVE  writer'[u].id # writer'[v].id
      <4>1. CASE u = w
        BY <1>4, <1>7, <2>2, <3>1, <4>1
      <4>2. CASE v = w
        BY <1>4, <1>7, <2>2, <3>1, <4>2
      <4>3. CASE u # w /\ v # w
        BY <1>2, <1>7, <3>1, <4>3 DEF IdsTrue
      <4> QED
        BY <4>1, <4>2, <4>3
    <3> QED
      BY <3>1
  <2>5. \A r \in eventRows' : r.id <= given'
    BY <1>1, <1>5
  <2>6. \A c \in Store!Commands : c > given' => answers'[c] = "open"
    <3>1. \A c \in Store!Commands : c \in Nat
      BY CommandBoundAssumption DEF Store!Commands
    <3> QED
      BY <1>1, <1>2, <1>3, <3>1 DEF IdsTrue
  <2> QED
    BY <2>3, <2>4, <2>5, <2>6 DEF IdsTrue, Store!Commands
<1> QED
  BY <1>1, <1>8, <1>9, <1>10 DEF StoreInv

LEMMA AtMostOne ==
  ASSUME NEW S, NEW T, T \subseteq S, NEW s \in {<<>>} \cup {<<u>> : u \in T}
  PROVE  s \in Seq(S)
<1>1. CASE s = <<>>
  BY <1>1
<1>2. ASSUME NEW u \in T, s = <<u>>
      PROVE  s \in Seq(S)
  <2>1. u \in S
    OBVIOUS
  <2>2. <<u>> \in Seq(S)
    BY <2>1
  <2> QED
    BY <1>2, <2>2
<1> QED
  BY <1>1, <1>2

LEMMA StartKeepsStore ==
  ASSUME StoreInv, NEW w \in Actors, Store!StartDocumentCommand(w) \/ Store!StartAppend(w)
  PROVE  StoreInv'
<1>1. ASSUME Store!StartDocumentCommand(w)
      PROVE  StoreInv'
  <2>1. PICK d \in Documents, fires \in BOOLEAN,
             reserved \in {<<>>} \cup {<<u>> : u \in Reservations} :
               Store!Give(w, "snapshot", Store!DocumentEntries(d, reserved, fires))
    BY <1>1 DEF Store!StartDocumentCommand
  <2> DEFINE last == IF fires THEN <<given + 1>> ELSE <<>>
             entries == reserved \o <<d>> \o last
  <2>2. reserved \in Seq(Store!Streams) /\ <<d>> \in Seq(Store!Streams)
    <3>1. Reservations \subseteq Store!Streams /\ d \in Store!Streams
      BY DEF Store!Streams
    <3> QED
      BY <3>1, AtMostOne
  <2>3. last \in Seq(Store!Streams)
    <3>1. given \in 0..CommandBound /\ given < CommandBound
      BY <2>1 DEF StoreInv, StoreTypes, Store!Give
    <3>2. given + 1 \in Store!Streams
      BY <3>1, CommandBoundAssumption DEF Store!Streams, Store!Runs, Store!Commands
    <3> QED
      BY <3>2
  <2>4. entries = Store!DocumentEntries(d, reserved, fires)
    BY DEF Store!DocumentEntries
  <2> HIDE DEF last
  <2> DEFINE i == Len(reserved) + 1
             head == reserved \o <<d>>
  <2>5. head \in Seq(Store!Streams) /\ Len(head) = i /\ i \in Nat \ {0} /\ head[i] = d
    BY <2>2
  <2> HIDE DEF head, i
  <2>6. entries = head \o last
    BY DEF head
  <2>7. /\ entries \in Seq(Store!Streams) /\ Len(entries) > 0 /\ i \in 1..Len(entries)
        /\ entries[i] = d
    <3> HIDE DEF entries
    <3>1. /\ head \o last \in Seq(Store!Streams) /\ Len(head \o last) = Len(head) + Len(last)
          /\ Len(last) \in Nat /\ \A k \in 1..Len(head) : (head \o last)[k] = head[k]
      BY <2>3, <2>5
    <3>2. i \in 1..Len(head) /\ i <= Len(head) + Len(last)
      BY <2>5, <3>1
    <3> QED
      BY <2>5, <2>6, <3>1, <3>2
  <2> HIDE DEF entries
  <2> QED
    BY <2>1, <2>4, <2>7, GiveKeeps
<1>2. ASSUME Store!StartAppend(w)
      PROVE  StoreInv'
  <2>1. PICK l \in Logs : \E rest \in {<<>>} \cup {<<k>> : k \in Logs \ {l}} :
          Store!Give(w, "read", <<l>> \o rest)
    BY <1>2 DEF Store!StartAppend
  <2>2. PICK rest \in {<<>>} \cup {<<k>> : k \in Logs \ {l}} : Store!Give(w, "read", <<l>> \o rest)
    BY <2>1
  <2>3. rest \in Seq(Store!Streams) /\ <<l>> \in Seq(Store!Streams)
    <3>1. Logs \ {l} \subseteq Store!Streams /\ l \in Store!Streams
      BY DEF Store!Streams
    <3> QED
      BY <3>1, AtMostOne
  <2>4. <<l>> \o rest \in Seq(Store!Streams) /\ Len(<<l>> \o rest) > 0
    BY <2>3
  <2> QED
    BY <2>2, <2>4, GiveKeeps
<1> QED
  BY <1>1, <1>2

ReadIn(R, s, min) ==
  [i \in 1..(IF min > VersionIn(R, s) THEN 0 ELSE VersionIn(R, s) + 1 - min) |->
     EventIn(R, s, min + i - 1)]

LEMMA ReadStreamIs ==
  /\ \A s, min : Store!readStream(s, min) = ReadIn(eventRows, s, min)
  /\ \A s : Store!currentVersion(s) = VersionIn(eventRows, s)
  /\ \A s, n : Store!EventAt(s, n) = EventIn(eventRows, s, n)
<1>1. \A s : Store!currentVersion(s) = VersionIn(eventRows, s)
  BY DEF Store!currentVersion, VersionIn, Store!RowsOf
<1>2. \A s, n : Store!EventAt(s, n) = EventIn(eventRows, s, n)
  BY DEF Store!EventAt, EventIn, Store!RowsOf
<1>3. \A s, min : Store!readStream(s, min) = ReadIn(eventRows, s, min)
  BY <1>1, <1>2 DEF Store!readStream, ReadIn
<1> QED
  BY <1>1, <1>2, <1>3

LEMMA ReadFromIs ==
  ASSUME NEW R, Dense(R), NEW s \in Store!Streams, NEW v \in Nat, v <= Len(LogIn(R, s))
  PROVE  /\ ReadIn(R, s, v + 1) \in Seq(Store!Commands)
         /\ Len(ReadIn(R, s, v + 1)) = Len(LogIn(R, s)) - v
         /\ \A i \in 1..(Len(LogIn(R, s)) - v) : ReadIn(R, s, v + 1)[i] = LogIn(R, s)[v + i]
<1> DEFINE n == VersionIn(R, s)
           f == [i \in 1..(n - v) |-> EventIn(R, s, v + i)]
<1>1. n \in Nat /\ n = Len(LogIn(R, s)) /\ v <= n /\ LogIn(R, s) \in Seq(Store!Commands)
  BY LogIs
<1>2. \A i \in 1..n : LogIn(R, s)[i] = EventIn(R, s, i)
  BY DEF LogIn
<1> HIDE DEF n
<1>3. /\ (IF v + 1 > n THEN 0 ELSE n + 1 - (v + 1)) = n - v /\ n - v \in Nat
      /\ \A i \in 1..(n - v) : (v + 1) + i - 1 = v + i /\ v + i \in 1..n
  BY <1>1
<1>4. ReadIn(R, s, v + 1) = f
  BY <1>3 DEF ReadIn, n
<1>5. ASSUME NEW i \in 1..(n - v)
      PROVE  EventIn(R, s, v + i) = LogIn(R, s)[v + i] /\ LogIn(R, s)[v + i] \in Store!Commands
  <2>1. v + i \in 1..n
    BY <1>3
  <2> HIDE DEF LogIn
  <2> QED
    BY <1>1, <1>2, <2>1
<1>6. /\ f \in Seq(Store!Commands) /\ Len(f) = n - v
      /\ \A i \in 1..(n - v) : f[i] = EventIn(R, s, v + i)
  BY <1>3, <1>5
<1> HIDE DEF f
<1> QED
  BY <1>1, <1>4, <1>5, <1>6

\* Read from its beginning, a stream is its log.
LEMMA ReadAllIs ==
  ASSUME NEW R, Dense(R), NEW s \in Store!Streams
  PROVE  ReadIn(R, s, 1) = LogIn(R, s)
<1>1. LogIn(R, s) \in Seq(Store!Commands) /\ Len(LogIn(R, s)) \in Nat
  BY LogIs
<1>2. 0 \in Nat /\ 0 <= Len(LogIn(R, s)) /\ 0 + 1 = 1 /\ Len(LogIn(R, s)) - 0 = Len(LogIn(R, s))
  BY <1>1
<1>3. /\ ReadIn(R, s, 0 + 1) \in Seq(Store!Commands)
      /\ Len(ReadIn(R, s, 0 + 1)) = Len(LogIn(R, s)) - 0
      /\ \A i \in 1..(Len(LogIn(R, s)) - 0) : ReadIn(R, s, 0 + 1)[i] = LogIn(R, s)[0 + i]
  BY <1>2, ReadFromIs
<1> DEFINE read == ReadIn(R, s, 1)
<1>4. read \in Seq(Store!Commands) /\ Len(read) = Len(LogIn(R, s))
  BY <1>2, <1>3
<1>5. \A i \in 1..Len(LogIn(R, s)) : read[i] = LogIn(R, s)[i]
  <2>1. \A i \in 1..Len(LogIn(R, s)) : 0 + i = i
    OBVIOUS
  <2> QED
    BY <1>2, <1>3, <2>1
<1> HIDE DEF read
<1>6. read = LogIn(R, s)
  BY <1>1, <1>4, <1>5, SeqEqual
<1> QED
  BY <1>6 DEF read

\* DocumentFoldSnapshots.resume: the tail after a true snapshot completes it.
LEMMA ResumedIs ==
  ASSUME NEW R, Dense(R), NEW s \in Store!Streams, NEW f \in FoldRecords, FoldOf(R, s, f)
  PROVE  /\ Store!foldDocumentFrom(f, f.version + 1, ReadIn(R, s, f.version + 1)) \in FoldRecords
         /\ FoldOf(R, s, Store!foldDocumentFrom(f, f.version + 1, ReadIn(R, s, f.version + 1)))
<1> DEFINE v == f.version
           n == Len(LogIn(R, s))
           tail == ReadIn(R, s, v + 1)
           g == f.log \o tail
           version == IF tail = <<>> THEN v ELSE v + 1 + Len(tail) - 1
<1>1. v \in Nat /\ v = Len(f.log) /\ f.log \in Seq(Store!Commands)
  BY DEF FoldOf, FoldRecords
<1>2. v <= n /\ n \in Nat /\ \A i \in 1..n : EventRow(s, i, LogIn(R, s)[i]) \in R
  BY FoldPrefixIs, LogIs
<1> HIDE DEF v
<1>3. /\ tail \in Seq(Store!Commands) /\ Len(tail) = n - v
      /\ \A i \in 1..(n - v) : tail[i] = LogIn(R, s)[v + i]
  <2>1. v \in Nat /\ v <= Len(LogIn(R, s))
    BY <1>1, <1>2
  <2> QED
    BY <2>1, ReadFromIs, Zenon
<1>4. Store!foldDocumentFrom(f, v + 1, tail) = [version |-> version, log |-> g]
  BY DEF Store!foldDocumentFrom, v
<1> HIDE DEF n, tail
<1>5. version = n
  <2>1. tail = <<>> => Len(tail) = 0
    OBVIOUS
  <2>0. v \in Nat /\ n \in Nat
    BY <1>1, <1>2
  <2>2. v + 1 + (n - v) - 1 = n /\ (n - v = 0 => v = n)
    BY <2>0
  <2> QED
    BY <1>3, <2>1, <2>2
<1>6. /\ g \in Seq(Store!Commands) /\ Len(g) = n
      /\ \A i \in 1..v : g[i] = f.log[i]
      /\ \A i \in 1..n : i > v => g[i] = tail[i - v] /\ i - v \in 1..(n - v) /\ v + (i - v) = i
  <2>1. /\ g \in Seq(Store!Commands) /\ Len(g) = Len(f.log) + Len(tail)
        /\ \A i \in 1..Len(f.log) + Len(tail) :
             g[i] = IF i <= Len(f.log) THEN f.log[i] ELSE tail[i - Len(f.log)]
    BY <1>1, <1>3, ConcatProperties
  <2> HIDE DEF g, version
  <2>2. v \in Nat /\ n \in Nat /\ v <= n
    BY <1>1, <1>2
  <2>3. v + (n - v) = n
    BY <2>2
  <2>4. Len(g) = n /\ \A i \in 1..n : g[i] = IF i <= v THEN f.log[i] ELSE tail[i - v]
    BY <1>1, <1>3, <2>1, <2>3
  <2>5. \A i \in 1..v : i \in 1..n /\ i <= v
    BY <2>2
  <2>6. \A i \in 1..n : i > v => ~(i <= v) /\ i - v \in 1..(n - v) /\ v + (i - v) = i
    BY <2>2
  <2> QED
    BY <2>1, <2>4, <2>5, <2>6
<1> HIDE DEF g, version
<1>7. ASSUME NEW i \in 1..n
      PROVE  EventRow(s, i, g[i]) \in R
  <2>1. CASE i <= v
    <3>1. EventRow(s, i, f.log[i]) \in R /\ g[i] = f.log[i]
      BY <1>1, <1>2, <1>6, <2>1 DEF FoldOf
    <3> QED
      BY <3>1
  <2>2. CASE ~ (i <= v)
    <3>1. i > v
      BY <1>1, <2>2
    <3>2. g[i] = LogIn(R, s)[i]
      BY <1>3, <1>6, <3>1
    <3> QED
      BY <1>2, <3>2
  <2> QED
    BY <2>1, <2>2
<1>8. [version |-> version, log |-> g] \in FoldRecords /\ FoldOf(R, s, [version |-> version, log |-> g])
  BY <1>2, <1>5, <1>6, <1>7 DEF FoldOf, FoldRecords
<1> QED
  BY <1>4, <1>8 DEF v, tail

\* The request has a base to resume its document from.
LEMMA BaseKeeps ==
  ASSUME StoreInv, NEW w \in Actors,
         Store!ReadSnapshot(w) \/ Store!ReadSnapshotFails(w) \/ Store!IgnoreSnapshot(w)
  PROVE  StoreInv'
<1>1. PICK k :
        /\ k = Store!NoSnapshot \/ k = snapshots[Store!DocumentOf(w)]
        /\ writer[w].pc \in {"snapshot", "tail"}
        /\ \/ writer' = [writer EXCEPT ![w] = [writer[w] EXCEPT !.pc = "tail", !.base = k]]
           \/ /\ writer[w].pc = "tail"
              /\ writer' = [writer EXCEPT ![w] = [writer[w] EXCEPT !.base = k]]
        /\ UNCHANGED <<eventRows, snapshots, answers, given>>
  <2>1. CASE Store!ReadSnapshot(w)
    BY <2>1 DEF Store!ReadSnapshot
  <2>2. CASE Store!ReadSnapshotFails(w)
    BY <2>2 DEF Store!ReadSnapshotFails
  <2>3. CASE Store!IgnoreSnapshot(w)
    BY <2>3 DEF Store!IgnoreSnapshot
  <2> QED
    BY <2>1, <2>2, <2>3
<1>2. /\ writer[w] \in WriterRecords /\ RequestTrue(eventRows, writer[w])
      /\ Store!DocumentOf(w) = DocOf(writer[w])
      /\ EntriesOf(writer[w]) \cap Documents # {} => DocOf(writer[w]) \in Documents
  BY RequestFacts
<1>3. DocOf(writer[w]) \in Documents
  BY <1>1, <1>2 DEF RequestTrue
<1>4. k \in SnapshotRecords /\ SnapshotTrue(eventRows, DocOf(writer[w]), k)
  BY <1>1, <1>2, <1>3, EmptyFoldIs DEF StoreInv, StoreTypes
<1>5. PICK q \in WriterRecords :
        /\ writer' = [writer EXCEPT ![w] = q]
        /\ q.pc = "tail" /\ q.base = k /\ q.id = writer[w].id /\ q.entries = writer[w].entries
        /\ q.basis = writer[w].basis
  <2>1. CASE writer' = [writer EXCEPT ![w] = [writer[w] EXCEPT !.pc = "tail", !.base = k]]
    <3> DEFINE q == [writer[w] EXCEPT !.pc = "tail", !.base = k]
    <3>1. /\ q \in WriterRecords
          /\ q.pc = "tail" /\ q.base = k /\ q.id = writer[w].id /\ q.entries = writer[w].entries
          /\ q.basis = writer[w].basis
      BY <1>2, <1>4 DEF WriterRecords
    <3> QED
      BY <2>1, <3>1
  <2>2. CASE /\ writer[w].pc = "tail"
             /\ writer' = [writer EXCEPT ![w] = [writer[w] EXCEPT !.base = k]]
    <3> DEFINE q == [writer[w] EXCEPT !.base = k]
    <3>1. /\ q \in WriterRecords
          /\ q.pc = "tail" /\ q.base = k /\ q.id = writer[w].id /\ q.entries = writer[w].entries
          /\ q.basis = writer[w].basis
      BY <1>2, <1>4, <2>2 DEF WriterRecords
    <3> QED
      BY <2>2, <3>1
  <2> QED
    BY <1>1, <2>1, <2>2
<1>6. EntriesOf(q) = EntriesOf(writer[w]) /\ DocOf(q) = DocOf(writer[w])
  BY <1>5 DEF EntriesOf, DocOf
<1>7. RequestTrue(eventRows, q)
  BY <1>1, <1>2, <1>4, <1>5, <1>6 DEF RequestTrue
<1> QED
  BY <1>1, <1>5, <1>7, StoreTurns

\* A request goes on with what it has, or with one more stream folded.
LEMMA ReadKeeps ==
  ASSUME StoreInv, NEW w \in Actors, writer[w].pc \in {"tail", "read", "check"},
         NEW q \in WriterRecords, writer' = [writer EXCEPT ![w] = q],
         q.pc \in {"read", "check", "batch"}, q.id = writer[w].id, q.entries = writer[w].entries,
         \A s \in Store!Streams : q.basis[s] = writer[w].basis[s] \/ FoldOf(eventRows, s, q.basis[s]),
         UNCHANGED <<eventRows, snapshots, answers, given>>
  PROVE  StoreInv'
<1>1. writer[w] \in WriterRecords /\ RequestTrue(eventRows, writer[w])
  BY RequestFacts
<1>2. EntriesOf(q) = EntriesOf(writer[w])
  BY DEF EntriesOf
<1>3. RequestTrue(eventRows, q)
  BY <1>1, <1>2 DEF RequestTrue
<1> QED
  BY <1>3, StoreTurns

LEMMA ResumeKeeps ==
  ASSUME StoreInv, NEW w \in Actors, Store!Resume(w)
  PROVE  StoreInv'
<1> DEFINE f == writer[w].base.state
           d == DocOf(writer[w])
           g == Store!foldDocumentFrom(f, f.version + 1, ReadIn(eventRows, d, f.version + 1))
           basis == [writer[w].basis EXCEPT ![d] = g]
           q == [writer[w] EXCEPT !.pc = "read", !.basis = basis]
<1>1. /\ writer[w] \in WriterRecords /\ RequestTrue(eventRows, writer[w]) /\ Dense(eventRows)
      /\ Store!DocumentOf(w) = d
      /\ EntriesOf(writer[w]) \cap Documents # {} => d \in Documents
  BY RequestFacts
<1>2. writer[w].pc = "tail" /\ UNCHANGED <<eventRows, snapshots, answers, given>>
  BY DEF Store!Resume
<1>3. /\ writer[w].base.upto = f.version /\ FoldOf(eventRows, d, f) /\ d \in Documents
      /\ f \in FoldRecords /\ d \in Store!Streams /\ writer[w].basis \in [Store!Streams -> FoldRecords]
  <2>1. d \in Documents /\ SnapshotTrue(eventRows, d, writer[w].base)
    BY <1>1, <1>2 DEF RequestTrue
  <2> QED
    BY <1>1, <2>1 DEF SnapshotTrue, WriterRecords, SnapshotRecords, Store!Streams
<1>4. writer' = [writer EXCEPT ![w] = q]
  BY <1>1, <1>3, ReadStreamIs DEF Store!Resume, Store!TailStart
<1>5. g \in FoldRecords /\ FoldOf(eventRows, d, g)
  BY <1>1, <1>3, ResumedIs
<1> HIDE DEF g
<1>6. /\ basis \in [Store!Streams -> FoldRecords] /\ basis[d] = g
      /\ \A s \in Store!Streams : s # d => basis[s] = writer[w].basis[s]
  BY <1>3, <1>5
<1> HIDE DEF basis
<1>7. /\ q \in WriterRecords /\ q.pc = "read" /\ q.id = writer[w].id
      /\ q.entries = writer[w].entries /\ q.basis = basis
  BY <1>1, <1>6 DEF WriterRecords
<1> HIDE DEF q
<1>8. \A s \in Store!Streams : q.basis[s] = writer[w].basis[s] \/ FoldOf(eventRows, s, q.basis[s])
  BY <1>5, <1>6, <1>7
<1> QED
  BY <1>2, <1>4, <1>7, <1>8, ReadKeeps

LEMMA AdvanceIs ==
  ASSUME StoreInv, NEW w \in Actors, NEW place \in {"check", "batch"},
         writer[w].pc \in {"read", "check"}
  PROVE  /\ Store!Advance(w, place) \in WriterRecords
         /\ Store!Advance(w, place).pc \in {"read", "check", "batch"}
         /\ Store!Advance(w, place).id = writer[w].id
         /\ Store!Advance(w, place).entries = writer[w].entries
         /\ Store!Advance(w, place).basis = writer[w].basis
<1> DEFINE pc1 == IF Store!LastEntry(w) THEN place ELSE writer[w].pc
           at1 == IF Store!LastEntry(w) THEN 1 ELSE writer[w].at + 1
<1>1. Store!Advance(w, place) = [writer[w] EXCEPT !.pc = pc1, !.at = at1]
  BY DEF Store!Advance
<1>2. writer[w] \in WriterRecords
  BY RequestFacts
<1>3. at1 \in Nat /\ pc1 \in {"read", "check", "batch"}
  <2>1. writer[w].at \in Nat
    BY <1>2 DEF WriterRecords
  <2> QED
    BY <2>1
<1> HIDE DEF at1, pc1
<1> QED
  BY <1>1, <1>2, <1>3 DEF WriterRecords

LEMMA ReadEntryKeeps ==
  ASSUME StoreInv, NEW w \in Actors, Store!ReadEntry(w) \/ Store!CheckVersion(w)
  PROVE  StoreInv'
<1>1. CASE Store!CheckVersion(w)
  <2>1. /\ writer[w].pc = "check" /\ writer' = [writer EXCEPT ![w] = Store!Advance(w, "batch")]
        /\ UNCHANGED <<eventRows, snapshots, answers, given>>
    BY <1>1 DEF Store!CheckVersion
  <2> QED
    BY <2>1, AdvanceIs, ReadKeeps
<1>2. CASE Store!ReadEntry(w)
  <2> DEFINE s == Store!Entry(w)
             p1 == Store!Advance(w, "check")
             g == Store!foldDocument(s)
             basis == [p1.basis EXCEPT ![s] = g]
             q == [p1 EXCEPT !.basis = basis]
  <2>1. /\ writer[w].pc = "read"
        /\ UNCHANGED <<eventRows, snapshots, answers, given>>
        /\ \/ /\ s \in Reservations \cup Logs
              /\ writer' = [writer EXCEPT ![w] = q]
           \/ writer' = [writer EXCEPT ![w] = p1]
    BY <1>2 DEF Store!ReadEntry
  <2>2. /\ p1 \in WriterRecords /\ p1.pc \in {"read", "check", "batch"} /\ p1.id = writer[w].id
        /\ p1.entries = writer[w].entries /\ p1.basis = writer[w].basis
    BY <2>1, AdvanceIs
  <2> HIDE DEF p1
  <2>3. CASE writer' = [writer EXCEPT ![w] = p1]
    BY <2>1, <2>2, <2>3, ReadKeeps
  <2>4. CASE s \in Reservations \cup Logs /\ writer' = [writer EXCEPT ![w] = q]
    <3>1. s \in Store!Streams
      BY <2>4 DEF Store!Streams
    <3>2. Dense(eventRows)
      BY RequestFacts
    <3> HIDE DEF s
    <3>3. g \in FoldRecords /\ FoldOf(eventRows, s, g)
      <4> DEFINE e == Store!EmptyFold
      <4>1. e \in FoldRecords /\ FoldOf(eventRows, s, e)
        BY EmptyFoldIs
      <4>2. e.version + 1 = 1
        BY DEF Store!EmptyFold
      <4>3. g = Store!foldDocumentFrom(e, e.version + 1, ReadIn(eventRows, s, e.version + 1))
        BY <4>2, ReadStreamIs DEF Store!foldDocument
      <4> HIDE DEF e, g
      <4>4. /\ Store!foldDocumentFrom(e, e.version + 1, ReadIn(eventRows, s, e.version + 1)) \in FoldRecords
            /\ FoldOf(eventRows, s, Store!foldDocumentFrom(e, e.version + 1, ReadIn(eventRows, s, e.version + 1)))
        BY <3>1, <3>2, <4>1, ResumedIs
      <4> QED
        BY <4>3, <4>4
    <3> HIDE DEF g
    <3>4. /\ basis \in [Store!Streams -> FoldRecords] /\ basis[s] = g
          /\ \A t \in Store!Streams : t # s => basis[t] = writer[w].basis[t]
      BY <2>2, <3>1, <3>3 DEF WriterRecords
    <3> HIDE DEF basis
    <3>5. /\ q \in WriterRecords /\ q.pc = p1.pc /\ q.id = p1.id /\ q.entries = p1.entries
          /\ q.basis = basis
      BY <2>2, <3>4 DEF WriterRecords
    <3> HIDE DEF q
    <3>6. \A t \in Store!Streams : q.basis[t] = writer[w].basis[t] \/ FoldOf(eventRows, t, q.basis[t])
      BY <3>3, <3>4, <3>5
    <3>7. /\ writer' = [writer EXCEPT ![w] = q] /\ writer[w].pc \in {"tail", "read", "check"}
          /\ q.pc \in {"read", "check", "batch"} /\ q.id = writer[w].id
          /\ q.entries = writer[w].entries
      BY <2>1, <2>2, <2>4, <3>5
    <3> QED
      BY <2>1, <3>5, <3>6, <3>7, ReadKeeps
  <2> QED
    BY <2>1, <2>3, <2>4
<1> QED
  BY <1>1, <1>2


\* The batch goes through: what the request has read is the end of each of its
\* streams, and what it projects the new end.
LEMMA InsertFacts ==
  ASSUME StoreInv, NEW w \in Actors, writer[w].pc = "batch", Store!Insert(w)
  PROVE  /\ Dense(eventRows') /\ eventRows \subseteq eventRows'
         /\ \A r \in eventRows' \ eventRows : r.id = writer[w].id
         /\ \E r \in eventRows' : r.id = writer[w].id
         /\ \A s \in EntriesOf(writer[w]) :
              /\ FoldOf(eventRows', s, Grown(writer[w].basis[s], s, writer[w].id))
              /\ LogIn(eventRows', s) = Grown(writer[w].basis[s], s, writer[w].id).log
              /\ writer[w].basis[s].log = LogIn(eventRows, s)
         /\ \A s \in Store!Streams \ EntriesOf(writer[w]) : LogIn(eventRows', s) = LogIn(eventRows, s)
<1> DEFINE E == EntriesOf(writer[w])
           basis == writer[w].basis
           c == writer[w].id
<1>1. /\ writer[w] \in WriterRecords /\ RequestTrue(eventRows, writer[w]) /\ Dense(eventRows)
      /\ c \in Store!Commands /\ Store!EntryStreams(w) = E /\ E \in SUBSET Store!Streams
  BY RequestFacts
<1>2. basis \in [Store!Streams -> FoldRecords] /\ E # {} /\ \A s \in E : FoldOf(eventRows, s, basis[s])
  BY <1>1 DEF WriterRecords, RequestTrue
<1>3. Store!sequenceEvents(w) = NewRows(E, basis, c)
  BY <1>1 DEF Store!sequenceEvents, Store!expectedVersion, NewRows, EventRow
<1>4. eventRows' = eventRows \cup NewRows(E, basis, c)
  BY <1>3 DEF Store!Insert
<1>5. \A x \in NewRows(E, basis, c) : \A r \in eventRows : r.stream = x.stream => r.sequence # x.sequence
  BY <1>3 DEF Store!Insert, Store!UniqueViolated, Store!RowsOf
<1>6. \A x \in NewRows(E, basis, c) : x.id = c
  BY NewRowIs DEF EventRow
<1>7. \E r \in NewRows(E, basis, c) : r.id = c
  <2>1. PICK s \in E : TRUE
    BY <1>2
  <2>2. 1 \in 1..Store!EventsOf(s)
    BY EventsOfIs
  <2>3. EventRow(s, basis[s].version + 1, c) \in NewRows(E, basis, c)
    BY <2>2, NewRowIs
  <2> QED
    BY <1>6, <2>3
<1> HIDE DEF E, basis, c
<1>8. /\ Dense(eventRows')
      /\ \A s \in E : /\ basis[s].log = LogIn(eventRows, s)
                      /\ FoldOf(eventRows', s, Grown(basis[s], s, c))
                      /\ LogIn(eventRows', s) = Grown(basis[s], s, c).log
      /\ \A s \in Store!Streams \ E : LogIn(eventRows', s) = LogIn(eventRows, s)
  <2>1. /\ Dense(eventRows) /\ E \in SUBSET Store!Streams
        /\ basis \in [Store!Streams -> FoldRecords] /\ c \in Store!Commands
    BY <1>1, <1>2 DEF E, basis, c
  <2>2. Insertable(eventRows, E, basis, c)
    BY <1>2, <1>5, <2>1 DEF Insertable
  <2>3. Extended(eventRows, eventRows', E, basis, c)
    BY <1>4, <2>2, InsertIs
  <2> QED
    BY <2>3 DEF Extended
<1>9. /\ eventRows \subseteq eventRows' /\ \A r \in eventRows' \ eventRows : r.id = c
      /\ \E r \in eventRows' : r.id = c
  BY <1>4, <1>6, <1>7
<1> QED
  BY <1>8, <1>9 DEF E, basis, c

LEMMA SnapshotsStay ==
  ASSUME StoreInv, eventRows \subseteq eventRows', snapshots' = snapshots
  PROVE  /\ snapshots' \in [Documents -> SnapshotRecords]
         /\ \A d \in Documents : SnapshotTrue(eventRows', d, snapshots'[d])
<1>1. \A d \in Documents : SnapshotTrue(eventRows, d, snapshots[d])
  BY DEF StoreInv
<1>2. \A d \in Documents : SnapshotTrue(eventRows', d, snapshots[d])
  BY <1>1, FoldStays DEF SnapshotTrue
<1> QED
  BY <1>2 DEF StoreInv, StoreTypes

LEMMA CommitBatchKeeps ==
  ASSUME StoreInv, NEW w \in Actors, Store!CommitBatch(w) \/ Store!AppendBatch(w)
  PROVE  StoreInv'
<1> DEFINE q == [writer[w] EXCEPT !.pc = "record"]
<1>1. /\ writer[w].pc = "batch" /\ Store!Insert(w) /\ writer' = [writer EXCEPT ![w] = q]
      /\ UNCHANGED <<snapshots, answers, given>>
  BY DEF Store!CommitBatch, Store!AppendBatch, Store!Move
<1>2. writer[w] \in WriterRecords /\ RequestTrue(eventRows, writer[w])
  BY RequestFacts
<1>3. /\ Dense(eventRows') /\ eventRows \subseteq eventRows'
      /\ \A r \in eventRows' \ eventRows : r.id = writer[w].id
      /\ \E r \in eventRows' : r.id = writer[w].id
      /\ \A s \in EntriesOf(writer[w]) :
           FoldOf(eventRows', s, Grown(writer[w].basis[s], s, writer[w].id))
  BY <1>1, InsertFacts
<1>4. /\ q \in WriterRecords /\ q.pc = "record" /\ q.id = writer[w].id
      /\ q.entries = writer[w].entries /\ q.basis = writer[w].basis
  BY <1>2 DEF WriterRecords
<1> HIDE DEF q
<1>5. EntriesOf(q) = EntriesOf(writer[w])
  BY <1>4 DEF EntriesOf
<1>6. RequestTrue(eventRows', q)
  <2>1. \A s \in Store!Streams : FoldOf(eventRows', s, q.basis[s])
    BY <1>2, <1>3, <1>4, FoldStays DEF RequestTrue
  <2>2. EntriesOf(q) # {}
    BY <1>1, <1>2, <1>5 DEF RequestTrue
  <2>3. (\E r \in eventRows' : r.id = q.id)
        /\ \A s \in EntriesOf(q) : FoldOf(eventRows', s, Grown(q.basis[s], s, q.id))
    BY <1>3, <1>4, <1>5
  <2> QED
    BY <1>4, <2>1, <2>2, <2>3 DEF RequestTrue
<1>7. /\ snapshots' \in [Documents -> SnapshotRecords]
      /\ \A d \in Documents : SnapshotTrue(eventRows', d, snapshots'[d])
  BY <1>1, <1>3, SnapshotsStay
<1> QED
  BY <1>1, <1>3, <1>4, <1>6, <1>7, StoreMoves

LEMMA BatchAnswerLostKeeps ==
  ASSUME StoreInv, NEW w \in Actors, Store!BatchAnswerLost(w)
  PROVE  StoreInv'
<1>1. /\ writer[w].pc = "batch" /\ Store!Insert(w) /\ writer' = [writer EXCEPT ![w] = Store!Idle]
      /\ answers' = [answers EXCEPT ![writer[w].id] = "failed"] /\ UNCHANGED <<snapshots, given>>
  BY DEF Store!BatchAnswerLost, Store!Tell
<1>2. /\ Dense(eventRows') /\ eventRows \subseteq eventRows'
      /\ \A r \in eventRows' \ eventRows : r.id = writer[w].id
  BY <1>1, InsertFacts
<1>3. /\ snapshots' \in [Documents -> SnapshotRecords]
      /\ \A d \in Documents : SnapshotTrue(eventRows', d, snapshots'[d])
  BY <1>1, <1>2, SnapshotsStay
<1>4. Store!Idle \in WriterRecords /\ Store!Idle.pc = "idle" /\ RequestTrue(eventRows', Store!Idle)
  BY IdleRequestIs
<1> QED
  BY <1>1, <1>2, <1>3, <1>4, StoreMoves

\* DocumentFoldSnapshots.record: the snapshot of a slower command does not replace a
\* newer one, and a newer one is the fold of what was committed.
LEMMA RecordSnapshotKeeps ==
  ASSUME StoreInv, NEW w \in Actors, Store!RecordSnapshot(w)
  PROVE  StoreInv'
<1> DEFINE d == DocOf(writer[w])
           g == Grown(writer[w].basis[d], d, writer[w].id)
           k == [upto |-> g.version, state |-> g]
<1>1. /\ writer[w] \in WriterRecords /\ RequestTrue(eventRows, writer[w]) /\ Dense(eventRows)
      /\ Store!EntryStreams(w) = EntriesOf(writer[w]) /\ Store!DocumentOf(w) = d
      /\ EntriesOf(writer[w]) \cap Documents # {} => d \in EntriesOf(writer[w]) \cap Documents
  BY RequestFacts
<1>2. /\ writer[w].pc = "record" /\ writer' = [writer EXCEPT ![w] = Store!Idle]
      /\ answers' = [answers EXCEPT ![writer[w].id] = "stored"] /\ UNCHANGED <<eventRows, given>>
      /\ d \in EntriesOf(writer[w]) /\ d \in Documents
  BY <1>1 DEF Store!RecordSnapshot, Store!Tell, Store!Commits
<1>3. Store!Projection(w, d) = g /\ Store!uptoSequence(w) = g.version
  BY <1>1 DEF Store!Projection, Store!uptoSequence, Store!expectedVersion, Grown
<1>4. g \in FoldRecords /\ FoldOf(eventRows, d, g)
  <2>1. FoldOf(eventRows, d, g)
    BY <1>1, <1>2 DEF RequestTrue
  <2>2. writer[w].basis[d] \in FoldRecords /\ FoldOf(eventRows, d, writer[w].basis[d])
    BY <1>1, <1>2 DEF WriterRecords, RequestTrue, Store!Streams
  <2>3. writer[w].id \in Store!Commands
    BY <1>2, RequestFacts
  <2> DEFINE t == [i \in 1..Store!EventsOf(d) |-> writer[w].id]
  <2>4. t \in Seq(Store!Commands)
    BY <2>3, EventsOfIs
  <2> HIDE DEF t
  <2> DEFINE v == writer[w].basis[d].version + Store!EventsOf(d)
             l == writer[w].basis[d].log \o t
  <2>5. v \in Nat /\ l \in Seq(Store!Commands)
    BY <2>2, <2>4, EventsOfIs DEF FoldRecords
  <2>6. g = [version |-> v, log |-> l]
    BY DEF Grown, t
  <2> HIDE DEF v, l
  <2> QED
    BY <2>1, <2>5, <2>6 DEF FoldRecords
<1> HIDE DEF g
<1>5. k \in SnapshotRecords /\ SnapshotTrue(eventRows, d, k)
  BY <1>4 DEF SnapshotRecords, SnapshotTrue, FoldRecords
<1>6. \/ snapshots' = [snapshots EXCEPT ![d] = k]
      \/ snapshots' = [snapshots EXCEPT ![d] = snapshots[d]]
  BY <1>1, <1>3 DEF Store!RecordSnapshot
<1> HIDE DEF k
<1>7. /\ snapshots' \in [Documents -> SnapshotRecords]
      /\ \A e \in Documents : SnapshotTrue(eventRows', e, snapshots'[e])
  <2>1. /\ snapshots \in [Documents -> SnapshotRecords]
        /\ \A e \in Documents : SnapshotTrue(eventRows, e, snapshots[e])
    BY DEF StoreInv, StoreTypes
  <2>2. /\ snapshots' \in [Documents -> SnapshotRecords]
        /\ \A e \in Documents : snapshots'[e] = snapshots[e] \/ (e = d /\ snapshots'[e] = k)
    BY <1>2, <1>5, <1>6, <2>1
  <2> QED
    BY <1>2, <1>5, <2>1, <2>2
<1>8. /\ Store!Idle \in WriterRecords /\ Store!Idle.pc = "idle" /\ RequestTrue(eventRows', Store!Idle)
      /\ eventRows \subseteq eventRows' /\ Dense(eventRows')
      /\ \A r \in eventRows' \ eventRows : r.id = writer[w].id
  BY <1>1, <1>2, IdleRequestIs
<1> QED
  BY <1>2, <1>7, <1>8, StoreMoves

LEMMA StoreStep ==
  ASSUME StoreInv, Store!Next
  PROVE  StoreInv'
<1> SUFFICES ASSUME NEW w \in Actors,
        \/ Store!StartDocumentCommand(w) \/ Store!StartAppend(w)
        \/ Store!ReadSnapshot(w) \/ Store!ReadSnapshotFails(w) \/ Store!Resume(w) \/ Store!ReadEntry(w)
        \/ Store!CheckVersion(w) \/ Store!VersionConflict(w)
        \/ Store!CommitBatch(w) \/ Store!AppendBatch(w) \/ Store!ConstraintError(w)
        \/ Store!RecordSnapshot(w) \/ Store!AnswerAppend(w)
        \/ Store!RecordSnapshotFails(w) \/ Store!IgnoreSnapshot(w) \/ Store!CallFails(w)
        \/ Store!BatchAnswerLost(w) \/ Store!WriterDies(w)
             PROVE  StoreInv'
  BY DEF Store!Next
<1>1. ASSUME \/ Store!VersionConflict(w) \/ Store!ConstraintError(w) \/ Store!AnswerAppend(w)
             \/ Store!RecordSnapshotFails(w) \/ Store!CallFails(w) \/ Store!WriterDies(w)
      PROVE  StoreInv'
  <2>1. /\ writer[w].pc # "idle" /\ writer' = [writer EXCEPT ![w] = Store!Idle]
        /\ UNCHANGED <<eventRows, snapshots, given>>
        /\ \/ answers' = answers
           \/ \E a \in {"stored", "refused", "failed"} : answers' = [answers EXCEPT ![writer[w].id] = a]
    BY <1>1 DEF Store!VersionConflict, Store!ConstraintError, Store!AnswerAppend,
                Store!RecordSnapshotFails, Store!CallFails, Store!WriterDies, Store!Tell
  <2> QED
    BY <2>1, RequestEndsKeeps
<1> QED
  BY <1>1, StartKeepsStore, BaseKeeps, ResumeKeeps, ReadEntryKeeps, CommitBatchKeeps,
     BatchAnswerLostKeeps, RecordSnapshotKeeps

LEMMA StoreInits ==
  ASSUME Store!Init
  PROVE  StoreInv
<1>1. /\ eventRows = {} /\ snapshots = [d \in Documents |-> Store!NoSnapshot]
      /\ writer = [w \in Actors |-> Store!Idle] /\ answers = [c \in Store!Commands |-> "open"]
      /\ given = 0
  BY DEF Store!Init
<1>2. \A w \in Actors : writer[w] = Store!Idle /\ writer[w].pc = "idle"
  BY <1>1, IdleRequestIs
<1>3. StoreTypes
  BY <1>1, IdleRequestIs, EmptyFoldIs, CommandBoundAssumption DEF StoreTypes
<1>4. Dense(eventRows)
  <2>1. \A s \in Store!Streams : EndsAt(eventRows, s, 0)
    BY <1>1 DEF EndsAt
  <2> QED
    BY <1>1, <2>1 DEF Dense
<1>5. \A d \in Documents : SnapshotTrue(eventRows, d, snapshots[d])
  BY <1>1, EmptyFoldIs
<1>6. \A w \in Actors : RequestTrue(eventRows, writer[w])
  BY <1>2, IdleRequestIs
<1>7. IdsTrue
  BY <1>1, <1>2 DEF IdsTrue
<1> QED
  BY <1>3, <1>4, <1>5, <1>6, <1>7 DEF StoreInv

LEMMA StoreStutters ==
  ASSUME StoreInv, UNCHANGED storeVars
  PROVE  StoreInv'
<1>1. UNCHANGED <<eventRows, snapshots, writer, answers, given>>
  BY DEF storeVars
<1>2. StoreTypes' /\ IdsTrue'
  BY <1>1 DEF StoreInv, StoreTypes, IdsTrue, Store!Commands
<1> QED
  BY <1>1, <1>2 DEF StoreInv

LEMMA StoreOfServices ==
  ServicesSpec => []StoreInv
<1>1. ServicesInit => StoreInv
  BY StoreInits DEF ServicesInit
<1>2. StoreInv /\ [ServicesNext]_<<service, patchVars, storeVars, rebuildVars, hubVars, accountVars>>
        => StoreInv'
  <2>1. [ServicesNext]_<<service, patchVars, storeVars, rebuildVars, hubVars, accountVars>> =>
          Store!Next \/ UNCHANGED storeVars
    BY DEF ServicesNext
  <2> QED
    BY <2>1, StoreStep, StoreStutters
<1> QED
  BY <1>1, <1>2, PTL DEF ServicesSpec

LEMMA PrefixFoldIs ==
  ASSUME Dense(eventRows), NEW s \in Store!Streams, NEW f \in FoldRecords, FoldOf(eventRows, s, f)
  PROVE  Store!IsPrefixFold(s, f)
<1> DEFINE n == f.version
<1>1. f.log \in Seq(Store!Commands) /\ n = Len(f.log) /\ n \in Nat
  BY DEF FoldOf, FoldRecords
<1>2. n <= VersionIn(eventRows, s) /\ \A i \in 1..n : f.log[i] = EventIn(eventRows, s, i)
  BY FoldPrefixIs, LogIs
<1>3. f.log = [i \in 1..n |-> f.log[i]]
  BY <1>1
<1>4. [i \in 1..n |-> f.log[i]] = [i \in 1..n |-> Store!EventAt(s, i)]
  BY <1>2, ReadStreamIs
<1>5. f = [version |-> n, log |-> f.log]
  BY DEF FoldRecords
<1>6. f = Store!PrefixFold(s, n)
  BY <1>3, <1>4, <1>5 DEF Store!PrefixFold
<1>7. n <= Store!currentVersion(s)
  BY <1>2, ReadStreamIs
<1> QED
  BY <1>6, <1>7 DEF Store!IsPrefixFold

\* DocumentFoldSnapshots.resume and record, whatever commits in between: a snapshot
\* may always be ignored, because a command that resumes from it sees what the
\* stream's own events give.
THEOREM SnapshotsMayBeIgnored ==
  ServicesSpec => []CacheIgnorable
<1>1. StoreInv => CacheIgnorable
  <2> SUFFICES ASSUME StoreInv PROVE Store!CacheIgnorable
    BY DEF CacheIgnorable
  <2>1. Dense(eventRows) /\ Documents \subseteq Store!Streams
    BY DEF StoreInv, Store!Streams
  <2>2. ASSUME NEW d \in Documents
        PROVE  /\ Store!IsPrefixFold(d, snapshots[d].state)
               /\ snapshots[d].upto = snapshots[d].state.version
    <3>1. /\ snapshots[d] \in SnapshotRecords /\ snapshots[d].upto = snapshots[d].state.version
          /\ FoldOf(eventRows, d, snapshots[d].state)
      BY DEF StoreInv, StoreTypes, SnapshotTrue
    <3>2. snapshots[d].state \in FoldRecords /\ d \in Store!Streams
      BY <2>1, <3>1 DEF SnapshotRecords
    <3> QED
      BY <2>1, <3>1, <3>2, PrefixFoldIs
  <2>3. ASSUME NEW w \in Actors, NEW s \in Store!EntryStreams(w)
        PROVE  Store!IsPrefixFold(s, writer[w].basis[s])
    <3>1. s \in Store!Streams /\ writer[w] \in WriterRecords /\ RequestTrue(eventRows, writer[w])
      BY RequestFacts
    <3>2. writer[w].basis[s] \in FoldRecords /\ FoldOf(eventRows, s, writer[w].basis[s])
      BY <3>1 DEF WriterRecords, RequestTrue
    <3> QED
      BY <2>1, <3>1, <3>2, PrefixFoldIs
  <2> QED
    BY <2>2, <2>3 DEF Store!CacheIgnorable
<1> QED
  BY <1>1, StoreOfServices, PTL

-----------------------------------------------------------------------------
(* The store as a compare-and-append in one step.                          *)

\* The logs of the abstract state.
LogsOf(R) == [s \in Store!Streams |-> ReadIn(R, s, 1)]

LEMMA AtomicInits ==
  ASSUME Store!Init
  PROVE  Store!Atomic!Init
<1>1. StoreInv /\ eventRows = {} /\ answers = [c \in Store!Commands |-> "open"]
      /\ documentRows = [s \in Store!Streams |-> Store!EmptyFold]
  BY StoreInits DEF Store!Init
<1>2. ASSUME NEW s \in Store!Streams
      PROVE  Store!readStream(s, 1) = <<>>
  <2>1. Dense(eventRows)
    BY <1>1 DEF StoreInv
  <2>2. ReadIn(eventRows, s, 1) = LogIn(eventRows, s) /\ LogIn(eventRows, s) \in Seq(Store!Commands)
        /\ \A i \in 1..Len(LogIn(eventRows, s)) : EventRow(s, i, LogIn(eventRows, s)[i]) \in {}
        /\ Len(LogIn(eventRows, s)) \in Nat
    BY <1>1, <2>1, ReadAllIs, LogIs
  <2>3. Len(LogIn(eventRows, s)) = 0
    BY <2>2
  <2>4. LogIn(eventRows, s) = <<>>
    BY <2>2, <2>3
  <2> QED
    BY <2>2, <2>4, ReadStreamIs
<1>3. [s \in Store!Streams |-> Store!readStream(s, 1)] = [s \in Store!Streams |-> <<>>]
  BY <1>2
<1>4. [s \in Store!Streams |-> documentRows[s].log] = [s \in Store!Streams |-> <<>>]
  BY <1>1 DEF Store!EmptyFold
<1> QED
  BY <1>1, <1>3, <1>4 DEF Store!Atomic!Init

LEMMA StoredIs ==
  ASSUME Dense(eventRows), NEW c
  PROVE  Store!Atomic!Stored(c) <=> \E r \in eventRows : r.id = c
<1>1. \A s \in Store!Streams : Store!readStream(s, 1) = LogIn(eventRows, s)
  BY ReadAllIs, ReadStreamIs
<1>2. Store!Atomic!Stored(c) <=>
        \E s \in Store!Streams : \E i \in 1..Len(LogIn(eventRows, s)) : LogIn(eventRows, s)[i] = c
  BY <1>1 DEF Store!Atomic!Stored
<1>3. ASSUME NEW s \in Store!Streams, NEW i \in 1..Len(LogIn(eventRows, s)),
             LogIn(eventRows, s)[i] = c
      PROVE  \E r \in eventRows : r.id = c
  <2>1. EventRow(s, i, c) \in eventRows
    BY <1>3, LogIs
  <2> QED
    BY <2>1 DEF EventRow
<1>4. ASSUME NEW r \in eventRows, r.id = c
      PROVE  \E s \in Store!Streams : \E i \in 1..Len(LogIn(eventRows, s)) :
               LogIn(eventRows, s)[i] = c
  <2> DEFINE s == r.stream
             i == r.sequence
             n == Len(LogIn(eventRows, s))
  <2>1. s \in Store!Streams /\ i \in Nat \ {0}
    BY DEF Dense, EventRecords
  <2>2. EndsAt(eventRows, s, n) /\ VersionIn(eventRows, s) = n /\ n \in Nat
    BY <2>1, LogIs
  <2>3. i <= n
    BY <2>1, <2>2 DEF EndsAt
  <2>4. EventIn(eventRows, s, i) = c
    BY <1>4, EventIs
  <2>5. i \in 1..n
    BY <2>1, <2>2, <2>3
  <2>6. LogIn(eventRows, s)[i] = c
    <3>1. i \in 1..VersionIn(eventRows, s)
      BY <2>2, <2>5
    <3> QED
      BY <2>4, <3>1 DEF LogIn
  <2> HIDE DEF i, s
  <2> QED
    BY <2>1, <2>5, <2>6
<1> QED
  BY <1>2, <1>3, <1>4

\* The batch is the abstract commit.
LEMMA InsertCommits ==
  ASSUME StoreInv, NEW w \in Actors, writer[w].pc = "batch", Store!Insert(w),
         NEW c \in Store!Commands, c = writer[w].id
  PROVE  Store!Atomic!Commit(c)
<1> DEFINE E == EntriesOf(writer[w])
           l == LogsOf(eventRows)
           m == LogsOf(eventRows')
           New(s) == [i \in 1..Store!EventsOf(s) |-> c]
<1>1. /\ writer[w] \in WriterRecords /\ RequestTrue(eventRows, writer[w]) /\ Dense(eventRows)
      /\ c \in Store!Commands /\ answers[c] = "open"
      /\ Store!EntryStreams(w) = E /\ E \in SUBSET Store!Streams
  BY RequestFacts
<1>2. E # {} /\ \A r \in eventRows : r.id # c
  BY <1>1 DEF RequestTrue
<1>3. /\ Dense(eventRows')
      /\ \A s \in E : /\ LogIn(eventRows', s) = Grown(writer[w].basis[s], s, c).log
                      /\ writer[w].basis[s].log = LogIn(eventRows, s)
      /\ \A s \in Store!Streams \ E : LogIn(eventRows', s) = LogIn(eventRows, s)
  BY InsertFacts
<1>4. \A s \in Store!Streams : l[s] = LogIn(eventRows, s) /\ m[s] = LogIn(eventRows', s)
  BY <1>1, <1>3, ReadAllIs DEF LogsOf
<1>5. \A s \in E : m[s] = l[s] \o New(s)
  BY <1>1, <1>3, <1>4 DEF Grown
<1>6. \A s \in Store!Streams \ E : m[s] = l[s]
  BY <1>3, <1>4
<1>7. /\ \A s \in E : documentRows'[s].log = IF s \in Store!Projected THEN m[s] ELSE documentRows[s].log
      /\ \A s \in Store!Streams \ E : documentRows'[s].log = documentRows[s].log
  <2>1. documentRows' = [s \in Store!Streams |->
                           IF s \in E \cap Store!Projected THEN Store!Projection(w, s) ELSE documentRows[s]]
    BY <1>1 DEF Store!Insert
  <2>2. \A s \in E : Store!Projection(w, s).log = m[s]
    BY <1>1, <1>3, <1>4 DEF Store!Projection, Grown
  <2> QED
    BY <1>1, <2>1, <2>2
<1>8. m # l
  <2>1. PICK s \in E : TRUE
    BY <1>2
  <2>2. s \in Store!Streams /\ l[s] \in Seq(Store!Commands)
    BY <1>1, <1>4, LogIs
  <2>3. New(s) \in Seq(Store!Commands) /\ Len(New(s)) \in Nat \ {0}
    BY <1>1, EventsOfIs
  <2> HIDE DEF New, l, m
  <2>4. Len(l[s] \o New(s)) = Len(l[s]) + Len(New(s)) /\ Len(l[s]) \in Nat
    BY <2>2, <2>3
  <2>5. Len(l[s] \o New(s)) # Len(l[s])
    BY <2>3, <2>4
  <2> QED
    BY <1>5, <2>5
<1>9. ~ Store!Atomic!Stored(c)
  BY <1>1, <1>2, StoredIs
<1>10. /\ l = [s \in Store!Streams |-> Store!readStream(s, 1)]
       /\ m = [s \in Store!Streams |-> Store!readStream(s, 1)']
  BY ReadStreamIs DEF LogsOf, ReadIn, Store!readStream, Store!currentVersion, Store!EventAt,
                      Store!RowsOf, VersionIn, EventIn
<1>11. \A s \in Store!Streams :
         \/ m[s] = l[s] /\ documentRows'[s].log = documentRows[s].log
         \/ /\ m[s] = l[s] \o New(s)
            /\ documentRows'[s].log = IF s \in Store!Projected THEN m[s] ELSE documentRows[s].log
  BY <1>5, <1>6, <1>7
<1> HIDE DEF l, m
<1> QED
  BY <1>1, <1>8, <1>9, <1>10, <1>11 DEF Store!Atomic!Commit

\* The abstract state is a function of the two tables.
LEMMA TablesStay ==
  ASSUME UNCHANGED <<eventRows, documentRows>>
  PROVE  /\ [s \in Store!Streams |-> Store!readStream(s, 1)]' =
              [s \in Store!Streams |-> Store!readStream(s, 1)]
         /\ [s \in Store!Streams |-> documentRows[s].log]' =
              [s \in Store!Streams |-> documentRows[s].log]
BY DEF Store!readStream, Store!currentVersion, Store!EventAt, Store!RowsOf

\* A caller is told, and no table changes.
LEMMA TellAnswers ==
  ASSUME StoreInv, NEW w \in Actors, writer[w].pc # "idle",
         NEW a \in {"stored", "refused", "failed"}, Store!Tell(w, a),
         UNCHANGED <<eventRows, documentRows>>,
         a = "stored" => writer[w].pc = "record", a = "refused" => writer[w].pc # "record"
  PROVE  Store!Atomic!Next
<1> DEFINE c == writer[w].id
<1>1. /\ c \in Store!Commands /\ answers[c] = "open" /\ Dense(eventRows)
      /\ RequestTrue(eventRows, writer[w])
  BY RequestFacts
<1>2. answers' = [answers EXCEPT ![c] = a]
  BY DEF Store!Tell
<1>3. a = "stored" => Store!Atomic!Stored(c)
  BY <1>1, StoredIs DEF RequestTrue
<1>4. a = "refused" => ~ Store!Atomic!Stored(c)
  BY <1>1, StoredIs DEF RequestTrue
<1>5. Store!Atomic!Answer(c, a)
  BY <1>1, <1>2, <1>3, <1>4 DEF Store!Atomic!Answer
<1>6. a \in Store!Atomic!Answers \ {"open"}
  BY DEF Store!Atomic!Answers
<1> HIDE DEF c
<1> QED
  BY <1>1, <1>5, <1>6, TablesStay DEF Store!Atomic!Next

LEMMA AtomicStep ==
  ASSUME StoreInv, Store!Next
  PROVE  Store!Atomic!Next \/ UNCHANGED Store!Atomic!vars
<1> SUFFICES ASSUME NEW w \in Actors,
        \/ Store!StartDocumentCommand(w) \/ Store!StartAppend(w)
        \/ Store!ReadSnapshot(w) \/ Store!ReadSnapshotFails(w) \/ Store!Resume(w) \/ Store!ReadEntry(w)
        \/ Store!CheckVersion(w) \/ Store!VersionConflict(w)
        \/ Store!CommitBatch(w) \/ Store!AppendBatch(w) \/ Store!ConstraintError(w)
        \/ Store!RecordSnapshot(w) \/ Store!AnswerAppend(w)
        \/ Store!RecordSnapshotFails(w) \/ Store!IgnoreSnapshot(w) \/ Store!CallFails(w)
        \/ Store!BatchAnswerLost(w) \/ Store!WriterDies(w)
             PROVE  Store!Atomic!Next \/ UNCHANGED Store!Atomic!vars
  BY DEF Store!Next
<1>1. ASSUME \/ Store!StartDocumentCommand(w) \/ Store!StartAppend(w) \/ Store!ReadSnapshot(w)
             \/ Store!ReadSnapshotFails(w) \/ Store!Resume(w) \/ Store!ReadEntry(w)
             \/ Store!CheckVersion(w) \/ Store!IgnoreSnapshot(w) \/ Store!WriterDies(w)
      PROVE  UNCHANGED Store!Atomic!vars
  <2>1. UNCHANGED <<eventRows, documentRows, answers>>
    BY <1>1 DEF Store!StartDocumentCommand, Store!StartAppend, Store!Give, Store!ReadSnapshot,
                Store!ReadSnapshotFails, Store!Resume, Store!ReadEntry, Store!CheckVersion,
                Store!IgnoreSnapshot, Store!WriterDies
  <2> QED
    BY <2>1, TablesStay DEF Store!Atomic!vars
<1>2. ASSUME Store!VersionConflict(w) \/ Store!ConstraintError(w)
      PROVE  Store!Atomic!Next
  <2>1. /\ writer[w].pc \in {"check", "batch"} /\ Store!Tell(w, "refused")
        /\ UNCHANGED <<eventRows, documentRows>>
    BY <1>2 DEF Store!VersionConflict, Store!ConstraintError
  <2> QED
    BY <2>1, TellAnswers
<1>3. ASSUME Store!RecordSnapshot(w) \/ Store!AnswerAppend(w) \/ Store!RecordSnapshotFails(w)
      PROVE  Store!Atomic!Next
  <2>1. /\ writer[w].pc = "record" /\ Store!Tell(w, "stored")
        /\ UNCHANGED <<eventRows, documentRows>>
    BY <1>3 DEF Store!RecordSnapshot, Store!AnswerAppend, Store!RecordSnapshotFails
  <2> QED
    BY <2>1, TellAnswers
<1>4. ASSUME Store!CallFails(w)
      PROVE  Store!Atomic!Next
  <2>1. /\ writer[w].pc # "idle" /\ Store!Tell(w, "failed")
        /\ UNCHANGED <<eventRows, documentRows>>
    BY <1>4 DEF Store!CallFails
  <2> QED
    BY <2>1, TellAnswers
<1>5. ASSUME Store!CommitBatch(w) \/ Store!AppendBatch(w) \/ Store!BatchAnswerLost(w)
      PROVE  Store!Atomic!Next
  <2>1. /\ writer[w].pc = "batch" /\ Store!Insert(w)
        /\ answers' = answers \/ answers' = [answers EXCEPT ![writer[w].id] = "failed"]
    BY <1>5 DEF Store!CommitBatch, Store!AppendBatch, Store!BatchAnswerLost, Store!Tell
  <2>2. PICK c \in Store!Commands : c = writer[w].id
    BY <2>1, RequestFacts
  <2>3. Store!Atomic!Commit(c)
    BY <2>1, <2>2, InsertCommits
  <2>4. answers' = answers \/ answers' = [answers EXCEPT ![c] = "failed"]
    BY <2>1, <2>2
  <2> QED
    BY <2>3, <2>4 DEF Store!Atomic!Next
<1> QED
  BY <1>1, <1>2, <1>3, <1>4, <1>5

\* document-store.ts and event-store.ts: the version reads, the unique index and the
\* batch together are the atomic compare-and-append of the ports, and a command that
\* was refused is not stored, then or later.
THEOREM StoreImplementsAtomic ==
  ServicesSpec => StoreIsAtomic
<1>1. ServicesInit => Store!Atomic!Init
  BY AtomicInits DEF ServicesInit
<1>2. StoreInv /\ [ServicesNext]_<<service, patchVars, storeVars, rebuildVars, hubVars, accountVars>>
        => [service = "store" => Store!Atomic!Next]_(Store!Atomic!vars)
  <2>1. [ServicesNext]_<<service, patchVars, storeVars, rebuildVars, hubVars, accountVars>> =>
          Store!Next \/ UNCHANGED storeVars
    BY DEF ServicesNext
  <2>2. ASSUME UNCHANGED storeVars
        PROVE  UNCHANGED Store!Atomic!vars
    <3>1. UNCHANGED <<eventRows, documentRows, answers>>
      BY <2>2 DEF storeVars
    <3> QED
      BY <3>1, TablesStay DEF Store!Atomic!vars
  <2> QED
    BY <2>1, <2>2, AtomicStep
<1> QED
  BY <1>1, <1>2, StoreOfServices, PTL DEF ServicesSpec, StoreIsAtomic

=============================================================================
