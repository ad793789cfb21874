------------------------- MODULE SideEffectsProofs -------------------------
(***************************************************************************)
(* Proofs about the services that act outside the database, for any number *)
(* of requests and any bounds.  Each service has an inductive invariant of *)
(* its own, proved for the service alone and carried over to SideEffects,  *)
(* in whose behaviours the others do not move.                             *)
(***************************************************************************)
EXTENDS SideEffects, FiniteSetTheorems, TLAPS

-----------------------------------------------------------------------------
(* EmailNotifications.                                                     *)

MailPlaces == {"idle", "lookup", "resolve", "load", "version", "append", "provider",
               "completion"}

MailEvents == {"none", "queued", "skipped", "claimed", "sent", "failed"}

MailRequests == [op : {"queue", "send", "deliver"}, pc : MailPlaces, version : Nat,
                 event : MailEvents, claim : Nat]

MailRecords == [status : MailEvents, claim : Nat]

\* What a request is going to append.
MailPlanned(q) ==
  /\ q.pc = "version" => q.event \in {"queued", "skipped", "claimed"}
  /\ q.pc = "append" => q.event # "none"

MailTypes ==
  /\ mail \in MailRecords
  /\ version \in Nat
  /\ delivery \in [MailWorkers -> MailRequests]
  /\ \A w \in MailWorkers : MailPlanned(delivery[w])
  /\ issued \in Nat
  /\ mail.claim <= issued
  /\ accepted \subseteq 1..issued
  /\ mailFaults \in Nat
  /\ overlapped \in BOOLEAN

\* The request has a claim that it has not completed.
Holding(q) ==
  \/ q.pc \in {"provider", "completion"}
  \/ q.pc = "append" /\ q.event \in {"sent", "failed"}

\* A claim has one holder, who has been told the truth about its mail.
ClaimsOwned ==
  /\ \A w \in MailWorkers : Holding(delivery[w]) =>
       /\ delivery[w].claim \in 1..issued
       /\ mail.status \in {"sent", "failed"} => delivery[w].claim # mail.claim
       /\ delivery[w].pc = "provider" => delivery[w].claim \notin accepted
       /\ delivery[w].pc # "provider" =>
            /\ delivery[w].event \in {"sent", "failed"}
            /\ delivery[w].event = "sent" => delivery[w].claim \in accepted
            /\ delivery[w].event = "failed" /\ mailFaults = 0 =>
                 delivery[w].claim \notin accepted
  /\ \A v, w \in MailWorkers :
       v # w /\ Holding(delivery[v]) /\ Holding(delivery[w]) =>
         delivery[v].claim # delivery[w].claim

RecordTrue ==
  /\ mail.status = "sent" => mail.claim \in accepted
  /\ mail.status = "failed" /\ mailFaults = 0 => mail.claim \notin accepted

\* Requests in turn, no timeout, no fault.
Calm == ~overlapped /\ expired = {} /\ mailFaults = 0

\* What a request in turn still knows of the record it has read.
InTurn(q, r) ==
  /\ q.pc = "resolve" => r.status = "none"
  /\ q.pc \in {"version", "append"} /\ q.event \in {"queued", "skipped"} =>
       r.status = "none"
  /\ q.pc \in {"version", "append"} /\ q.event = "claimed" =>
       r.status \in {"queued", "failed"}
  /\ Holding(q) => r = [status |-> "claimed", claim |-> q.claim]

CalmTrue ==
  Calm =>
    /\ \A v, w \in MailWorkers :
         v # w => delivery[v].pc = "idle" \/ delivery[w].pc = "idle"
    /\ \A w \in MailWorkers : InTurn(delivery[w], mail)
    /\ accepted # {} => accepted = {mail.claim} /\ mail.status \in {"sent", "claimed"}

MailsInv == MailTypes /\ ClaimsOwned /\ RecordTrue /\ CalmTrue

\* A request goes on; the other requests stay where they are.
MailGoes(w, q) ==
  /\ q \in MailRequests
  /\ MailPlanned(q)
  /\ delivery' = [delivery EXCEPT ![w] = q]

LEMMA MailMoved ==
  ASSUME MailTypes, NEW w \in MailWorkers, NEW q, MailGoes(w, q)
  PROVE  /\ delivery' \in [MailWorkers -> MailRequests]
         /\ delivery'[w] = q
         /\ \A v \in MailWorkers : v # w => delivery'[v] = delivery[v]
         /\ delivery[w] \in MailRequests
BY DEF MailTypes, MailGoes

\* A request in turn is alone: nobody else is under way.
LEMMA InTurnAlone ==
  ASSUME CalmTrue, Calm, NEW w \in MailWorkers, delivery[w].pc # "idle"
  PROVE  \A v \in MailWorkers : v # w => delivery[v].pc = "idle"
BY DEF CalmTrue

LEMMA IdleInTurn ==
  ASSUME NEW q, q.pc = "idle", NEW r
  PROVE  ~ Holding(q) /\ InTurn(q, r)
BY DEF Holding, InTurn

\* A step of a request that changes neither the outbox nor the world.
LEMMA QuietMail ==
  ASSUME MailsInv, NEW w \in MailWorkers, NEW q, MailGoes(w, q),
         UNCHANGED <<mail, version, issued, expired, accepted>>,
         mailFaults' \in Nat, mailFaults' >= mailFaults,
         overlapped' \in BOOLEAN, ~ overlapped' => ~ overlapped,
         Holding(q) =>
           /\ Holding(delivery[w]) /\ q.claim = delivery[w].claim
           /\ q.pc # "provider" /\ q.event \in {"sent", "failed"}
           /\ q.event = "sent" => q.claim \in accepted
           /\ q.event = "failed" /\ mailFaults' = 0 => q.claim \notin accepted,
         Calm' => /\ InTurn(q, mail)
                  /\ \/ q.pc = "idle"
                     \/ delivery[w].pc # "idle"
                     \/ \A v \in MailWorkers \ {w} : delivery[v].pc = "idle"
  PROVE  MailsInv'
<1>1. /\ delivery' \in [MailWorkers -> MailRequests] /\ delivery'[w] = q
      /\ \A v \in MailWorkers : v # w => delivery'[v] = delivery[v]
  BY MailMoved DEF MailsInv
<1>2. MailTypes'
  BY <1>1 DEF MailsInv, MailTypes, MailGoes
<1>3. mailFaults' = 0 => mailFaults = 0
  BY DEF MailsInv, MailTypes
<1>4. ClaimsOwned'
  <2>1. ASSUME NEW v \in MailWorkers, Holding(delivery'[v])
        PROVE  /\ delivery'[v].claim \in 1..issued
               /\ mail.status \in {"sent", "failed"} => delivery'[v].claim # mail.claim
               /\ delivery'[v].pc = "provider" => delivery'[v].claim \notin accepted
               /\ delivery'[v].pc # "provider" =>
                    /\ delivery'[v].event \in {"sent", "failed"}
                    /\ delivery'[v].event = "sent" => delivery'[v].claim \in accepted
                    /\ delivery'[v].event = "failed" /\ mailFaults' = 0 =>
                         delivery'[v].claim \notin accepted
    <3>1. CASE v = w
      BY <1>1, <2>1, <3>1 DEF MailsInv, ClaimsOwned
    <3>2. CASE v # w
      BY <1>1, <1>3, <2>1, <3>2 DEF MailsInv, ClaimsOwned
    <3>3. QED
      BY <3>1, <3>2
  <2>2. ASSUME NEW u \in MailWorkers, NEW v \in MailWorkers, u # v,
               Holding(delivery'[u]), Holding(delivery'[v])
        PROVE  delivery'[u].claim # delivery'[v].claim
    <3>1. /\ Holding(delivery[u]) /\ delivery'[u].claim = delivery[u].claim
          /\ Holding(delivery[v]) /\ delivery'[v].claim = delivery[v].claim
      BY <1>1, <2>2
    <3>2. QED
      BY <2>2, <3>1 DEF MailsInv, ClaimsOwned
  <2>3. QED
    BY <2>1, <2>2 DEF ClaimsOwned
<1>5. RecordTrue'
  BY <1>3 DEF MailsInv, RecordTrue
<1>6. CalmTrue'
  <2> SUFFICES ASSUME Calm'
               PROVE  /\ \A u, v \in MailWorkers :
                           u # v => delivery'[u].pc = "idle" \/ delivery'[v].pc = "idle"
                      /\ \A v \in MailWorkers : InTurn(delivery'[v], mail')
                      /\ accepted # {} => /\ accepted = {mail.claim}
                                          /\ mail.status \in {"sent", "claimed"}
    BY DEF CalmTrue
  <2>1. Calm /\ CalmTrue
    BY <1>3 DEF Calm, MailsInv
  <2>2. /\ \A u, v \in MailWorkers :
             u # v => delivery[u].pc = "idle" \/ delivery[v].pc = "idle"
        /\ \A v \in MailWorkers : InTurn(delivery[v], mail)
        /\ accepted # {} => accepted = {mail.claim} /\ mail.status \in {"sent", "claimed"}
    BY <2>1 DEF CalmTrue
  <2>3. \A v \in MailWorkers : InTurn(delivery'[v], mail)
    BY <1>1, <2>2
  <2>4. \A v \in MailWorkers : InTurn(delivery'[v], mail')
    BY <2>3
  <2>5. \A v \in MailWorkers : v # w => q.pc = "idle" \/ delivery[v].pc = "idle"
    BY <2>2
  <2>6. \A u, v \in MailWorkers :
           u # v => delivery'[u].pc = "idle" \/ delivery'[v].pc = "idle"
    BY <1>1, <2>2, <2>5
  <2>7. QED
    BY <2>2, <2>4, <2>6
<1>7. QED
  BY <1>2, <1>4, <1>5, <1>6 DEF MailsInv

\* The request a worker begins and ends with.
LEMMA IdleRequest == Emails!Idle \in MailRequests /\ Emails!Idle.pc = "idle"
BY DEF Emails!Idle, MailRequests, MailPlaces, MailEvents

\* A call ends: with nothing to do, in conflict, or because it dies.
LEMMA EndsQuietly ==
  ASSUME MailsInv, NEW w \in MailWorkers, Emails!End(w),
         UNCHANGED <<mail, version, issued, expired, accepted, overlapped>>,
         mailFaults' \in Nat, mailFaults' >= mailFaults
  PROVE  MailsInv'
<1>1. MailGoes(w, Emails!Idle)
  BY IdleRequest DEF Emails!End, MailGoes, MailPlanned
<1>2. /\ ~ Holding(Emails!Idle) /\ InTurn(Emails!Idle, mail) /\ Emails!Idle.pc = "idle"
  BY IdleRequest, IdleInTurn
<1>3. overlapped' \in BOOLEAN /\ (~ overlapped' => ~ overlapped)
  BY DEF MailsInv, MailTypes
<1>4. QED
  BY <1>1, <1>2, <1>3, QuietMail

\* A call goes on with what it has read.
LEMMA ReadsQuietly ==
  ASSUME MailsInv, NEW w \in MailWorkers, delivery[w].pc # "idle", NEW q, MailGoes(w, q),
         UNCHANGED <<mail, version, issued, expired, accepted, mailFaults, overlapped>>,
         Holding(q) =>
           /\ Holding(delivery[w]) /\ q.claim = delivery[w].claim
           /\ q.pc # "provider" /\ q.event \in {"sent", "failed"}
           /\ q.event = "sent" => q.claim \in accepted
           /\ q.event = "failed" /\ mailFaults = 0 => q.claim \notin accepted,
         Calm => InTurn(q, mail)
  PROVE  MailsInv'
<1>1. /\ overlapped' \in BOOLEAN /\ (~ overlapped' => ~ overlapped)
      /\ mailFaults' \in Nat /\ mailFaults' >= mailFaults
  BY DEF MailsInv, MailTypes
<1>2. Calm' => Calm
  BY DEF Calm
<1>3. QED
  BY <1>1, <1>2, QuietMail

\* Requests, and their reads.
LEMMA MailReads ==
  ASSUME MailsInv, NEW w \in MailWorkers,
         \/ Emails!Lookup(w) \/ Emails!Resolve(w) \/ Emails!Load(w)
         \/ Emails!ReadVersion(w) \/ Emails!ReadClaim(w) \/ Emails!AppendConflict(w)
  PROVE  MailsInv'
<1> DEFINE old == delivery[w]
<1>1. /\ old \in MailRequests /\ delivery \in [MailWorkers -> MailRequests]
      /\ version \in Nat /\ mailFaults \in Nat
  BY DEF MailsInv, MailTypes
<1>2. UNCHANGED <<mail, version, issued, expired, accepted, mailFaults, overlapped>>
  BY DEF Emails!Lookup, Emails!Resolve, Emails!Load, Emails!ReadVersion, Emails!ReadClaim,
         Emails!AppendConflict, Emails!outbox, Emails!world, Emails!counters
<1>3. CASE Emails!End(w)
  BY <1>1, <1>2, <1>3, EndsQuietly
<1>4. CASE Emails!Lookup(w) /\ ~ Emails!End(w)
  <2>1. PICK place \in {"resolve", "load"} :
          /\ delivery' = [delivery EXCEPT ![w].pc = place]
          /\ place = "resolve" => mail.status = "none"
    BY <1>4 DEF Emails!Lookup, Emails!Goto
  <2> DEFINE q == [old EXCEPT !.pc = place]
  <2>2. MailGoes(w, q) /\ q.pc = place
    BY <1>1, <2>1 DEF MailGoes, MailPlanned, MailRequests, MailPlaces
  <2>3. delivery[w].pc = "lookup"
    BY <1>4 DEF Emails!Lookup, Emails!At
  <2> HIDE DEF q
  <2>4. ~ Holding(q) /\ InTurn(q, mail)
    BY <2>1, <2>2 DEF Holding, InTurn
  <2>5. QED
    BY <1>2, <2>2, <2>3, <2>4, ReadsQuietly
<1>5. CASE Emails!Resolve(w)
  <2>1. PICK event \in {"queued", "skipped"} :
          delivery' = [delivery EXCEPT ![w].pc = "version", ![w].event = event]
    BY <1>5 DEF Emails!Resolve
  <2> DEFINE q == [old EXCEPT !.pc = "version", !.event = event]
  <2>2. MailGoes(w, q) /\ q.pc = "version" /\ q.event = event
    BY <1>1, <2>1 DEF MailGoes, MailPlanned, MailRequests, MailPlaces, MailEvents
  <2>3. delivery[w].pc = "resolve"
    BY <1>5 DEF Emails!Resolve, Emails!At
  <2> HIDE DEF q
  <2>4. ~ Holding(q)
    BY <2>2 DEF Holding
  <2>5. Calm => InTurn(q, mail)
    <3>1. Calm => InTurn(old, mail)
      BY DEF MailsInv, CalmTrue
    <3>2. QED
      BY <2>2, <2>3, <2>4, <3>1 DEF InTurn
  <2>6. QED
    BY <1>2, <2>2, <2>3, <2>4, <2>5, ReadsQuietly
<1>6. CASE Emails!Load(w) /\ ~ Emails!End(w)
  <2>1. /\ delivery' = [delivery EXCEPT ![w].pc = "version", ![w].event = "claimed"]
        /\ Emails!Deliverable(mail)
    BY <1>6 DEF Emails!Load
  <2> DEFINE q == [old EXCEPT !.pc = "version", !.event = "claimed"]
  <2>2. MailGoes(w, q) /\ q.pc = "version" /\ q.event = "claimed"
    BY <1>1, <2>1 DEF MailGoes, MailPlanned, MailRequests, MailPlaces, MailEvents
  <2>3. delivery[w].pc = "load"
    BY <1>6 DEF Emails!Load, Emails!At
  <2> HIDE DEF q
  <2>4. ~ Holding(q)
    BY <2>2 DEF Holding
  <2>5. Calm => mail.status \in {"queued", "failed"}
    BY <2>1 DEF Calm, Emails!Deliverable, Emails!isStaleEmailClaim, MailsInv, MailTypes,
                MailRecords, MailEvents
  <2>6. Calm => InTurn(q, mail)
    BY <2>2, <2>4, <2>5 DEF InTurn
  <2>7. QED
    BY <1>2, <2>2, <2>3, <2>4, <2>6, ReadsQuietly
<1>7. CASE Emails!ReadVersion(w)
  <2>1. /\ delivery' = [delivery EXCEPT ![w].pc = "append", ![w].version = version]
        /\ delivery[w].pc = "version"
    BY <1>7 DEF Emails!ReadVersion, Emails!At
  <2> DEFINE q == [old EXCEPT !.pc = "append", !.version = version]
  <2>2. q \in MailRequests /\ q.pc = "append" /\ q.event = old.event
    BY <1>1, <2>1 DEF MailRequests, MailPlaces
  <2>3. old.event \in {"queued", "skipped", "claimed"}
    BY <2>1 DEF MailsInv, MailTypes, MailPlanned
  <2>7. MailGoes(w, q)
    BY <1>1, <2>1, <2>2, <2>3 DEF MailGoes, MailPlanned
  <2> HIDE DEF q
  <2>4. ~ Holding(q)
    BY <2>2, <2>3 DEF Holding
  <2>5. Calm => InTurn(q, mail)
    <3>1. Calm => InTurn(old, mail)
      BY DEF MailsInv, CalmTrue
    <3>2. QED
      BY <2>1, <2>2, <2>4, <3>1 DEF InTurn
  <2>6. QED
    BY <1>2, <2>1, <2>4, <2>5, <2>7, ReadsQuietly
<1>8. CASE Emails!ReadClaim(w) /\ ~ Emails!End(w)
  <2>1. /\ delivery' = [delivery EXCEPT ![w].pc = "append", ![w].version = version]
        /\ delivery[w].pc = "completion"
    BY <1>8 DEF Emails!ReadClaim, Emails!At
  <2> DEFINE q == [old EXCEPT !.pc = "append", !.version = version]
  <2>2. q \in MailRequests /\ q.pc = "append" /\ q.event = old.event /\ q.claim = old.claim
    BY <1>1, <2>1 DEF MailRequests, MailPlaces
  <2>3. Holding(old)
    BY <2>1 DEF Holding
  <2>4. /\ old.event \in {"sent", "failed"}
        /\ old.event = "sent" => old.claim \in accepted
        /\ old.event = "failed" /\ mailFaults = 0 => old.claim \notin accepted
    BY <2>1, <2>3 DEF MailsInv, ClaimsOwned
  <2>7. MailGoes(w, q)
    BY <1>1, <2>1, <2>2, <2>4 DEF MailGoes, MailPlanned
  <2> HIDE DEF q
  <2>5. Calm => InTurn(q, mail)
    <3>1. Calm => InTurn(old, mail)
      BY DEF MailsInv, CalmTrue
    <3>2. QED
      BY <2>2, <2>3, <2>4, <3>1 DEF InTurn
  <2>6. QED
    BY <1>2, <2>1, <2>2, <2>3, <2>4, <2>5, <2>7, ReadsQuietly
<1>9. CASE Emails!AppendConflict(w)
  BY <1>3, <1>9 DEF Emails!AppendConflict
<1>10. QED
  BY <1>3, <1>4, <1>5, <1>6, <1>7, <1>8, <1>9

\* A request starts: in turn only when it is alone.
LEMMA MailStarts ==
  ASSUME MailsInv, NEW w \in MailWorkers, NEW op \in {"queue", "send", "deliver"},
         Emails!Start(w, op)
  PROVE  MailsInv'
<1> DEFINE place == IF op = "deliver" THEN "load" ELSE "lookup"
           q == [delivery[w] EXCEPT !.op = op, !.pc = place]
<1>1. /\ delivery[w] \in MailRequests /\ delivery \in [MailWorkers -> MailRequests]
      /\ overlapped \in BOOLEAN /\ mailFaults \in Nat
  BY DEF MailsInv, MailTypes
<1>2. /\ UNCHANGED <<mail, version, issued, expired, accepted, mailFaults>>
      /\ overlapped' = (overlapped \/ \E v \in MailWorkers \ {w} : ~Emails!At(v, "idle"))
      /\ delivery' = [delivery EXCEPT ![w].op = op, ![w].pc = place]
  BY DEF Emails!Start, Emails!outbox, Emails!world
<1>3. MailGoes(w, q) /\ q.pc \in {"load", "lookup"}
  BY <1>1, <1>2 DEF MailGoes, MailPlanned, MailRequests, MailPlaces
<1>4. /\ overlapped' \in BOOLEAN /\ (~ overlapped' => ~ overlapped)
      /\ ~ overlapped' => \A v \in MailWorkers \ {w} : delivery[v].pc = "idle"
  BY <1>1, <1>2, Zenon DEF Emails!At
<1> HIDE DEF q
<1>5. ~ Holding(q) /\ InTurn(q, mail)
  BY <1>3 DEF Holding, InTurn
<1>6. /\ mailFaults' \in Nat /\ mailFaults' >= mailFaults
      /\ Calm' => \A v \in MailWorkers \ {w} : delivery[v].pc = "idle"
  BY <1>1, <1>2, <1>4 DEF Calm
<1>7. QED
  BY <1>2, <1>3, <1>4, <1>5, <1>6, QuietMail

\* The provider has the mail of a claim, or the caller believes it has not.
LEMMA MailAnswered ==
  ASSUME MailsInv, NEW w \in MailWorkers,
         Emails!SendAccepted(w) \/ Emails!SendRejected(w) \/ Emails!SendUnanswered(w)
  PROVE  MailsInv'
<1> DEFINE old == delivery[w]
<1>1. /\ old \in MailRequests /\ delivery \in [MailWorkers -> MailRequests]
      /\ mailFaults \in Nat /\ issued \in Nat /\ accepted \subseteq 1..issued
      /\ overlapped \in BOOLEAN
  BY DEF MailsInv, MailTypes
<1>2. /\ old.pc = "provider" /\ UNCHANGED <<mail, version, issued, expired, overlapped>>
      /\ \/ Emails!Answered(w, "sent") /\ accepted' = accepted \cup {old.claim}
            /\ mailFaults' = mailFaults
         \/ Emails!Answered(w, "failed") /\ accepted' = accepted /\ mailFaults' = mailFaults
         \/ Emails!Answered(w, "failed") /\ accepted' = accepted \cup {old.claim}
            /\ mailFaults' = mailFaults + 1
  BY DEF Emails!SendAccepted, Emails!SendRejected, Emails!SendUnanswered, Emails!At,
         Emails!outbox, Emails!world, Emails!counters, Emails!Fault
<1>3. /\ Holding(old) /\ old.claim \in 1..issued /\ old.claim \notin accepted
      /\ mail.status \in {"sent", "failed"} => old.claim # mail.claim
  BY <1>2 DEF Holding, MailsInv, ClaimsOwned
<1>4. PICK event \in {"sent", "failed"} :
        /\ Emails!Answered(w, event)
        /\ accepted' \subseteq accepted \cup {old.claim} /\ accepted \subseteq accepted'
        /\ event = "sent" => old.claim \in accepted' /\ mailFaults' = mailFaults
        /\ event = "failed" /\ mailFaults' = 0 => accepted' = accepted
        /\ mailFaults' = mailFaults \/ mailFaults' = mailFaults + 1
  BY <1>1, <1>2
<1> DEFINE q == [old EXCEPT !.pc = "completion", !.event = event]
<1>5. /\ MailGoes(w, q) /\ q.pc = "completion" /\ q.event = event /\ q.claim = old.claim
  BY <1>1, <1>4 DEF MailGoes, MailPlanned, MailRequests, MailPlaces, MailEvents, Emails!Answered
<1> HIDE DEF q, old
<1>6. /\ delivery' \in [MailWorkers -> MailRequests] /\ delivery'[w] = q
      /\ \A v \in MailWorkers : v # w => delivery'[v] = delivery[v]
  BY <1>5, MailMoved DEF MailsInv
<1>7. /\ Holding(q) /\ mailFaults' \in Nat
      /\ mailFaults' = 0 => mailFaults = 0 /\ mailFaults' = mailFaults
  BY <1>1, <1>4, <1>5 DEF Holding
<1>8. \A v \in MailWorkers : v # w /\ Holding(delivery[v]) => delivery[v].claim # old.claim
  BY <1>3 DEF MailsInv, ClaimsOwned, old
<1>9. MailTypes'
  <2>1. accepted' \subseteq 1..issued
    BY <1>1, <1>3, <1>4
  <2>2. QED
    BY <1>2, <1>5, <1>6, <1>7, <2>1 DEF MailsInv, MailTypes, MailGoes
<1>10. ClaimsOwned'
  <2>1. ASSUME NEW v \in MailWorkers, Holding(delivery'[v])
        PROVE  /\ delivery'[v].claim \in 1..issued
               /\ mail.status \in {"sent", "failed"} => delivery'[v].claim # mail.claim
               /\ delivery'[v].pc = "provider" => delivery'[v].claim \notin accepted'
               /\ delivery'[v].pc # "provider" =>
                    /\ delivery'[v].event \in {"sent", "failed"}
                    /\ delivery'[v].event = "sent" => delivery'[v].claim \in accepted'
                    /\ delivery'[v].event = "failed" /\ mailFaults' = 0 =>
                         delivery'[v].claim \notin accepted'
    <3>1. CASE v = w
      BY <1>3, <1>4, <1>5, <1>6, <3>1
    <3>2. CASE v # w
      <4>1. delivery'[v] = delivery[v] /\ delivery[v].claim # old.claim
        BY <1>6, <1>8, <2>1, <3>2
      <4>2. delivery[v].claim \in accepted' <=> delivery[v].claim \in accepted
        BY <1>4, <4>1
      <4>3. QED
        BY <1>7, <2>1, <4>1, <4>2 DEF MailsInv, ClaimsOwned
    <3>3. QED
      BY <3>1, <3>2
  <2>2. ASSUME NEW u \in MailWorkers, NEW v \in MailWorkers, u # v,
               Holding(delivery'[u]), Holding(delivery'[v])
        PROVE  delivery'[u].claim # delivery'[v].claim
    BY <1>3, <1>5, <1>6, <1>8, <2>2 DEF MailsInv, ClaimsOwned, old
  <2>3. QED
    BY <1>2, <2>1, <2>2 DEF ClaimsOwned
<1>11. RecordTrue'
  <2>1. mail.status \in {"sent", "failed"} => (mail.claim \in accepted' <=> mail.claim \in accepted)
    BY <1>3, <1>4
  <2>2. QED
    BY <1>2, <1>7, <2>1 DEF MailsInv, RecordTrue
<1>12. CalmTrue'
  <2> SUFFICES ASSUME Calm'
               PROVE  /\ \A u, v \in MailWorkers :
                           u # v => delivery'[u].pc = "idle" \/ delivery'[v].pc = "idle"
                      /\ \A v \in MailWorkers : InTurn(delivery'[v], mail')
                      /\ accepted' # {} => /\ accepted' = {mail'.claim}
                                           /\ mail'.status \in {"sent", "claimed"}
    BY DEF CalmTrue
  <2>1. Calm
    BY <1>2, <1>7 DEF Calm
  <2>2. /\ \A v \in MailWorkers : v # w => delivery[v].pc = "idle"
        /\ InTurn(old, mail)
        /\ accepted # {} => accepted = {mail.claim} /\ mail.status \in {"sent", "claimed"}
    BY <1>2, <2>1 DEF MailsInv, CalmTrue, old
  <2>3. mail = [status |-> "claimed", claim |-> old.claim]
    BY <1>3, <2>2 DEF InTurn
  <2>4. accepted = {}
    BY <1>3, <2>2, <2>3
  <2>5. InTurn(q, mail)
    BY <1>5, <1>7, <2>3 DEF InTurn
  <2>6. \A v \in MailWorkers : v # w => delivery'[v].pc = "idle"
    BY <1>6, <2>2
  <2>7. \A v \in MailWorkers : InTurn(delivery'[v], mail')
    BY <1>2, <1>6, <2>5, <2>6, IdleInTurn
  <2>8. accepted' # {} => accepted' = {mail'.claim} /\ mail'.status \in {"sent", "claimed"}
    BY <1>2, <1>4, <2>3, <2>4
  <2>9. QED
    BY <2>6, <2>7, <2>8
<1>13. QED
  BY <1>9, <1>10, <1>11, <1>12 DEF MailsInv

\* What the fold makes of the event that an append stores.
LEMMA FoldedMail ==
  ASSUME NEW r \in MailRecords, NEW claim \in Nat,
         NEW event \in {"queued", "skipped", "claimed", "sent", "failed"}
  PROVE  LET next == Emails!foldEmailOutbox(r, event, claim)
         IN  /\ next \in MailRecords
             /\ event \in {"queued", "skipped"} => next = [status |-> event, claim |-> 0]
             /\ event = "claimed" =>
                  next = r \/ next = [status |-> "claimed", claim |-> claim]
             /\ event = "claimed" /\ r.status \in {"queued", "failed"} =>
                  next = [status |-> "claimed", claim |-> claim]
             /\ event \in {"sent", "failed"} =>
                  \/ next = r
                  \/ /\ r = [status |-> "claimed", claim |-> claim]
                     /\ next = [status |-> event, claim |-> claim]
             /\ event \in {"sent", "failed"} /\ r = [status |-> "claimed", claim |-> claim] =>
                  next = [status |-> event, claim |-> claim]
<1> DEFINE next == Emails!foldEmailOutbox(r, event, claim)
<1>1. CASE event \in {"queued", "skipped"}
  <2>1. next = [status |-> event, claim |-> 0]
    BY <1>1 DEF Emails!foldEmailOutbox
  <2>2. QED
    BY <1>1, <2>1 DEF MailRecords, MailEvents
<1>2. CASE event = "claimed"
  <2>1. next = IF r.status \in {"none", "skipped", "sent"} THEN r
               ELSE [status |-> "claimed", claim |-> claim]
    BY <1>2 DEF Emails!foldEmailOutbox
  <2>2. QED
    BY <1>2, <2>1 DEF MailRecords, MailEvents
<1>3. CASE event \in {"sent", "failed"}
  <2>1. next = IF r.status = "claimed" /\ r.claim = claim THEN [r EXCEPT !.status = event] ELSE r
    BY <1>3 DEF Emails!foldEmailOutbox
  <2>2. r.status = "claimed" /\ r.claim = claim =>
          /\ r = [status |-> "claimed", claim |-> claim]
          /\ [r EXCEPT !.status = event] = [status |-> event, claim |-> claim]
    BY DEF MailRecords
  <2>3. QED
    BY <1>3, <2>1, <2>2 DEF MailRecords, MailEvents
<1>4. QED
  BY <1>1, <1>2, <1>3

\* The event of a request is in the stream; the caller learns of it or not.
LEMMA MailStored ==
  ASSUME MailsInv, NEW w \in MailWorkers, delivery[w].pc = "append", Emails!Store(w),
         UNCHANGED <<expired, accepted, overlapped>>,
         mailFaults' = mailFaults \/ mailFaults' = mailFaults + 1,
         NEW q, MailGoes(w, q),
         \/ q.pc \in {"idle", "load"}
         \/ delivery[w].event = "claimed" /\ q.pc = "provider" /\ q.claim = issued'
  PROVE  MailsInv'
<1> DEFINE old == delivery[w]
           claim == IF old.event = "claimed" THEN issued + 1 ELSE old.claim
<1>1. /\ old \in MailRequests /\ mail \in MailRecords /\ version \in Nat
      /\ issued \in Nat /\ mail.claim <= issued /\ accepted \subseteq 1..issued
      /\ mailFaults \in Nat /\ overlapped \in BOOLEAN /\ old.event # "none"
  BY DEF MailsInv, MailTypes, MailPlanned
<1>2. /\ old.event \in {"queued", "skipped", "claimed", "sent", "failed"} /\ claim \in Nat
      /\ mail.claim \in Nat
  BY <1>1 DEF MailRequests, MailEvents, MailRecords
<1>3. /\ mail' = Emails!foldEmailOutbox(mail, old.event, claim)
      /\ version' = version + 1
      /\ issued' = IF old.event = "claimed" THEN issued + 1 ELSE issued
  BY DEF Emails!Store
<1>4. /\ delivery' \in [MailWorkers -> MailRequests] /\ delivery'[w] = q
      /\ \A v \in MailWorkers : v # w => delivery'[v] = delivery[v]
  BY MailMoved DEF MailsInv
<1>5. old.event \in {"sent", "failed"} =>
        /\ Holding(old) /\ claim = old.claim /\ old.claim \in 1..issued
        /\ old.event = "sent" => old.claim \in accepted
        /\ old.event = "failed" /\ mailFaults = 0 => old.claim \notin accepted
        /\ \A v \in MailWorkers : v # w /\ Holding(delivery[v]) => delivery[v].claim # old.claim
  BY DEF Holding, MailsInv, ClaimsOwned
<1> HIDE DEF old, claim
<1>6. /\ mail' \in MailRecords
      /\ old.event \in {"queued", "skipped"} => mail' = [status |-> old.event, claim |-> 0]
      /\ old.event = "claimed" => mail' = mail \/ mail' = [status |-> "claimed", claim |-> claim]
      /\ old.event = "claimed" /\ mail.status \in {"queued", "failed"} =>
           mail' = [status |-> "claimed", claim |-> claim]
      /\ old.event \in {"sent", "failed"} =>
           \/ mail' = mail
           \/ /\ mail = [status |-> "claimed", claim |-> claim]
              /\ mail' = [status |-> old.event, claim |-> claim]
      /\ old.event \in {"sent", "failed"} /\ mail = [status |-> "claimed", claim |-> claim] =>
           mail' = [status |-> old.event, claim |-> claim]
  BY <1>1, <1>2, <1>3, FoldedMail
<1>7. /\ issued' \in Nat /\ issued' >= issued /\ mailFaults' \in Nat
      /\ mailFaults' = 0 => mailFaults = 0
      /\ old.event = "claimed" => issued' = issued + 1 /\ claim = issued'
  BY <1>1, <1>3 DEF claim
<1>8. Holding(q) => old.event = "claimed" /\ q.pc = "provider" /\ q.claim = issued'
  BY DEF Holding, old
<1>9. \/ mail' = mail
      \/ mail'.status \notin {"sent", "failed"} /\ mail'.claim <= issued'
      \/ /\ old.event \in {"sent", "failed"}
         /\ mail' = [status |-> old.event, claim |-> old.claim]
  BY <1>1, <1>2, <1>5, <1>6, <1>7
<1>10. MailTypes'
  <2>1. mail'.claim <= issued' /\ accepted' \subseteq 1..issued'
    BY <1>1, <1>2, <1>5, <1>7, <1>9
  <2>2. QED
    BY <1>1, <1>3, <1>4, <1>6, <1>7, <2>1 DEF MailsInv, MailTypes, MailGoes
<1>11. ClaimsOwned'
  <2>1. ASSUME NEW v \in MailWorkers, Holding(delivery'[v])
        PROVE  /\ delivery'[v].claim \in 1..issued'
               /\ mail'.status \in {"sent", "failed"} => delivery'[v].claim # mail'.claim
               /\ delivery'[v].pc = "provider" => delivery'[v].claim \notin accepted'
               /\ delivery'[v].pc # "provider" =>
                    /\ delivery'[v].event \in {"sent", "failed"}
                    /\ delivery'[v].event = "sent" => delivery'[v].claim \in accepted'
                    /\ delivery'[v].event = "failed" /\ mailFaults' = 0 =>
                         delivery'[v].claim \notin accepted'
    <3>1. CASE v = w
      <4>1. old.event = "claimed" /\ q.pc = "provider" /\ q.claim = issued + 1
        BY <1>4, <1>7, <1>8, <2>1, <3>1
      <4>2. mail'.status \in {"sent", "failed"} => mail'.claim <= issued
        BY <1>1, <1>6, <4>1
      <4>3. QED
        BY <1>1, <1>2, <1>4, <1>6, <1>7, <3>1, <4>1, <4>2
    <3>2. CASE v # w
      <4>1. delivery'[v] = delivery[v] /\ Holding(delivery[v])
        BY <1>4, <2>1, <3>2
      <4>2. /\ delivery[v].claim \in 1..issued
            /\ mail.status \in {"sent", "failed"} => delivery[v].claim # mail.claim
            /\ delivery[v].pc = "provider" => delivery[v].claim \notin accepted
            /\ delivery[v].pc # "provider" =>
                    /\ delivery[v].event \in {"sent", "failed"}
                    /\ delivery[v].event = "sent" => delivery[v].claim \in accepted
                    /\ delivery[v].event = "failed" /\ mailFaults = 0 =>
                         delivery[v].claim \notin accepted
        BY <4>1 DEF MailsInv, ClaimsOwned
      <4>3. mail'.status \in {"sent", "failed"} => delivery[v].claim # mail'.claim
        BY <1>5, <1>9, <3>2, <4>1, <4>2
      <4>4. delivery[v].claim \in 1..issued'
        BY <1>1, <1>7, <4>2
      <4>5. QED
        BY <1>7, <4>1, <4>2, <4>3, <4>4
    <3>3. QED
      BY <3>1, <3>2
  <2>2. ASSUME NEW u \in MailWorkers, NEW v \in MailWorkers, u # v,
               Holding(delivery'[u]), Holding(delivery'[v])
        PROVE  delivery'[u].claim # delivery'[v].claim
    <3>1. \A x \in MailWorkers : Holding(delivery[x]) => delivery[x].claim \in 1..issued
      BY DEF MailsInv, ClaimsOwned
    <3>2. CASE u # w /\ v # w
      BY <1>4, <2>2, <3>2 DEF MailsInv, ClaimsOwned
    <3>3. CASE u = w
      BY <1>1, <1>4, <1>7, <1>8, <2>2, <3>1, <3>3
    <3>4. CASE v = w
      BY <1>1, <1>4, <1>7, <1>8, <2>2, <3>1, <3>4
    <3>5. QED
      BY <3>2, <3>3, <3>4
  <2>3. QED
    BY <2>1, <2>2 DEF ClaimsOwned
<1>12. RecordTrue'
  <2>1. CASE mail' = mail
    BY <1>7, <2>1 DEF MailsInv, RecordTrue
  <2>2. CASE mail'.status \notin {"sent", "failed"}
    BY <2>2 DEF RecordTrue
  <2>3. CASE old.event \in {"sent", "failed"} /\ mail' = [status |-> old.event, claim |-> old.claim]
    BY <1>5, <1>7, <2>3 DEF RecordTrue
  <2>4. QED
    BY <1>9, <2>1, <2>2, <2>3
<1>13. CalmTrue'
  <2> SUFFICES ASSUME Calm'
               PROVE  /\ \A u, v \in MailWorkers :
                           u # v => delivery'[u].pc = "idle" \/ delivery'[v].pc = "idle"
                      /\ \A v \in MailWorkers : InTurn(delivery'[v], mail')
                      /\ accepted' # {} => /\ accepted' = {mail'.claim}
                                           /\ mail'.status \in {"sent", "claimed"}
    BY DEF CalmTrue
  <2>1. Calm
    BY <1>7 DEF Calm
  <2>2. /\ \A v \in MailWorkers : v # w => delivery[v].pc = "idle"
        /\ InTurn(old, mail)
        /\ accepted # {} => accepted = {mail.claim} /\ mail.status \in {"sent", "claimed"}
    BY <2>1 DEF MailsInv, CalmTrue, old
  <2>3. /\ old.event \in {"queued", "skipped"} => mail.status = "none"
        /\ old.event = "claimed" => mail.status \in {"queued", "failed"}
        /\ old.event \in {"sent", "failed"} => mail = [status |-> "claimed", claim |-> claim]
    BY <1>5, <2>2 DEF InTurn, old
  <2>4. InTurn(q, mail')
    <3>1. CASE q.pc \in {"idle", "load"}
      BY <3>1 DEF InTurn, Holding
    <3>2. CASE old.event = "claimed" /\ q.pc = "provider" /\ q.claim = issued'
      <4>1. mail' = [status |-> "claimed", claim |-> q.claim]
        BY <1>6, <1>7, <2>3, <3>2
      <4>2. QED
        BY <3>2, <4>1 DEF InTurn, Holding
    <3>3. QED
      BY <3>1, <3>2 DEF old
  <2>5. \A v \in MailWorkers : v # w => delivery'[v].pc = "idle"
    BY <1>4, <2>2
  <2>6. \A v \in MailWorkers : InTurn(delivery'[v], mail')
    BY <1>4, <2>4, <2>5, IdleInTurn
  <2>7. accepted # {} => accepted = {mail'.claim} /\ mail'.status \in {"sent", "claimed"}
    <3>1. SUFFICES ASSUME accepted # {}
                   PROVE  accepted = {mail'.claim} /\ mail'.status \in {"sent", "claimed"}
      OBVIOUS
    <3>2. old.event \in {"sent", "failed"}
      BY <1>2, <2>2, <2>3, <3>1
    <3>3. mail = [status |-> "claimed", claim |-> claim] /\ accepted = {claim} /\ claim = old.claim
      BY <1>5, <2>2, <2>3, <3>1, <3>2
    <3>4. old.event = "sent"
      BY <1>5, <2>1, <3>2, <3>3 DEF Calm
    <3>5. QED
      BY <1>6, <3>2, <3>3, <3>4
  <2>8. QED
    BY <2>5, <2>6, <2>7
<1>14. QED
  BY <1>10, <1>11, <1>12, <1>13 DEF MailsInv

\* Append and its lost answer, the death of an invocation, and a timeout.
LEMMA MailAppends ==
  ASSUME MailsInv, NEW w \in MailWorkers, Emails!Append(w) \/ Emails!AppendUnanswered(w)
  PROVE  MailsInv'
<1> DEFINE old == delivery[w]
<1>1. /\ old \in MailRequests /\ delivery \in [MailWorkers -> MailRequests]
      /\ issued \in Nat /\ mailFaults \in Nat
  BY DEF MailsInv, MailTypes
<1>2. /\ old.pc = "append" /\ Emails!Store(w) /\ UNCHANGED <<expired, accepted, overlapped>>
      /\ mailFaults' = mailFaults \/ mailFaults' = mailFaults + 1
  BY DEF Emails!Append, Emails!AppendUnanswered, Emails!At, Emails!world, Emails!counters,
         Emails!Fault
<1>3. CASE Emails!End(w)
  <2>1. MailGoes(w, Emails!Idle) /\ Emails!Idle.pc = "idle"
    BY <1>3, IdleRequest DEF Emails!End, MailGoes, MailPlanned
  <2>2. QED
    BY <1>2, <2>1, MailStored
<1>4. CASE Emails!Append(w) /\ Emails!Goto(w, "load")
  <2> DEFINE q == [old EXCEPT !.pc = "load"]
  <2>1. MailGoes(w, q) /\ q.pc = "load"
    BY <1>1, <1>4 DEF Emails!Goto, MailGoes, MailPlanned, MailRequests, MailPlaces
  <2> HIDE DEF q
  <2>2. QED
    BY <1>2, <2>1, MailStored
<1>5. CASE /\ old.event = "claimed"
           /\ delivery' = [delivery EXCEPT ![w].pc = "provider", ![w].claim = issued']
  <2> DEFINE q == [old EXCEPT !.pc = "provider", !.claim = issued']
  <2>1. issued' \in Nat
    BY <1>1, <1>2 DEF Emails!Store
  <2>2. MailGoes(w, q) /\ q.pc = "provider" /\ q.claim = issued'
    BY <1>1, <1>5, <2>1 DEF MailGoes, MailPlanned, MailRequests, MailPlaces
  <2> HIDE DEF q
  <2>3. QED
    BY <1>2, <1>5, <2>2, MailStored
<1>6. QED
  BY <1>3, <1>4, <1>5 DEF Emails!Append, Emails!AppendUnanswered

LEMMA MailDies ==
  ASSUME MailsInv, NEW w \in MailWorkers, Emails!Dies(w)
  PROVE  MailsInv'
<1>1. /\ Emails!End(w) /\ UNCHANGED <<mail, version, issued, expired, accepted, overlapped>>
      /\ mailFaults' = mailFaults + 1
  BY DEF Emails!Dies, Emails!Fault, Emails!outbox, Emails!world
<1>2. mailFaults' \in Nat /\ mailFaults' >= mailFaults
  BY <1>1 DEF MailsInv, MailTypes
<1>3. QED
  BY <1>1, <1>2, EndsQuietly

LEMMA MailTimesOut ==
  ASSUME MailsInv, Emails!ClaimTimesOut
  PROVE  MailsInv'
<1>1. /\ UNCHANGED <<mail, version, issued, accepted, delivery, mailFaults, overlapped>>
      /\ expired' # {}
  BY DEF Emails!ClaimTimesOut, Emails!outbox, Emails!counters
<1>2. ~ Calm'
  BY <1>1 DEF Calm
<1>3. QED
  BY <1>1, <1>2 DEF MailsInv, MailTypes, ClaimsOwned, RecordTrue, CalmTrue

(* In the beginning nobody holds a claim. *)
LEMMA InitMails == Emails!Init => MailsInv
<1> SUFFICES ASSUME Emails!Init PROVE MailsInv
  OBVIOUS
<1>1. /\ mail = Emails!NoRecord /\ version = 0 /\ issued = 0 /\ accepted = {}
      /\ mailFaults = 0 /\ overlapped = FALSE
      /\ delivery = [w \in MailWorkers |-> Emails!Idle]
  BY DEF Emails!Init
<1>2. Emails!NoRecord \in MailRecords /\ Emails!NoRecord = [status |-> "none", claim |-> 0]
  BY DEF Emails!NoRecord, MailRecords, MailEvents
<1>3. \A w \in MailWorkers : /\ delivery[w] \in MailRequests /\ delivery[w].pc = "idle"
                             /\ ~ Holding(delivery[w]) /\ InTurn(delivery[w], mail)
  BY <1>1, IdleRequest, IdleInTurn
<1>4. MailTypes
  <2>1. delivery \in [MailWorkers -> MailRequests] /\ \A w \in MailWorkers : MailPlanned(delivery[w])
    BY <1>1, <1>3, IdleRequest DEF MailPlanned
  <2>2. mail \in MailRecords /\ mail.claim <= 0 /\ 0 \in Nat
    BY <1>1, <1>2
  <2>3. QED
    BY <1>1, <2>1, <2>2 DEF MailTypes
<1>5. ClaimsOwned /\ RecordTrue /\ CalmTrue
  BY <1>1, <1>2, <1>3 DEF ClaimsOwned, RecordTrue, CalmTrue
<1>6. QED
  BY <1>4, <1>5 DEF MailsInv

(* Every step of the email outbox keeps its invariant. *)
LEMMA NextMails == MailsInv /\ [Emails!Next]_mailVars => MailsInv'
<1> SUFFICES ASSUME MailsInv, [Emails!Next]_mailVars PROVE MailsInv'
  OBVIOUS
<1>1. CASE UNCHANGED mailVars
  BY <1>1 DEF mailVars, MailsInv, MailTypes, ClaimsOwned, RecordTrue, CalmTrue, Calm
<1>2. CASE Emails!ClaimTimesOut
  BY <1>2, MailTimesOut
<1>3. ASSUME NEW w \in MailWorkers,
             \/ \E op \in {"queue", "send", "deliver"} : Emails!Start(w, op)
             \/ Emails!Lookup(w) \/ Emails!Resolve(w) \/ Emails!Load(w)
             \/ Emails!ReadVersion(w) \/ Emails!ReadClaim(w)
             \/ Emails!Append(w) \/ Emails!AppendConflict(w)
             \/ Emails!SendAccepted(w) \/ Emails!SendRejected(w)
             \/ Emails!Dies(w) \/ Emails!AppendUnanswered(w) \/ Emails!SendUnanswered(w)
      PROVE  MailsInv'
  BY <1>3, MailStarts, MailReads, MailAppends, MailAnswered, MailDies
<1>4. QED
  BY <1>1, <1>2, <1>3 DEF Emails!Next

(* What the invariant says of the mails. *)
LEMMA MailsInvAccounts == MailsInv => Emails!MailsAccounted
<1> SUFFICES ASSUME MailsInv, ~ Emails!MailsAccounted PROVE FALSE
  OBVIOUS
<1>1. RecordTrue /\ CalmTrue /\ mailFaults \in Nat
  BY DEF MailsInv, MailTypes
<1>2. Emails!Cardinality(accepted) > 1 /\ ~ overlapped /\ expired = {} /\ ~ (mailFaults > 0)
  BY <1>1 DEF RecordTrue, Emails!MailsAccounted
<1>3. Calm
  BY <1>1, <1>2 DEF Calm
<1>4. accepted = {} \/ accepted = {mail.claim}
  BY <1>1, <1>3 DEF CalmTrue
<1>5. Emails!Cardinality(accepted) = Cardinality(accepted)
  BY DEF Emails!Cardinality, Cardinality
<1>6. Cardinality(accepted) \in {0, 1}
  BY <1>4, FS_EmptySet, FS_Singleton
<1>7. QED
  BY <1>2, <1>5, <1>6

\* The outbox of an email message tells the truth about its mails, and sends
\* one mail when requests come in turn, in every behaviour of the service.
THEOREM EmailsAccounted == Emails!Spec => []Emails!MailsAccounted
<1>1. Emails!Init /\ [][Emails!Next]_mailVars => []MailsInv
  BY InitMails, NextMails, PTL
<1>2. <<Emails!outbox, Emails!world, delivery, Emails!counters>>' =
        <<Emails!outbox, Emails!world, delivery, Emails!counters>> => UNCHANGED mailVars
  BY DEF Emails!outbox, Emails!world, Emails!counters, mailVars
<1>3. [Emails!Next]_(Emails!vars) => [Emails!Next]_mailVars
  BY <1>2 DEF Emails!vars
<1>4. QED
  BY <1>1, <1>3, MailsInvAccounts, PTL DEF Emails!Spec

(* In a behaviour of SideEffects the mails move only as their service does. *)
LEMMA MailsOfService ==
  (service = "emails" => MailsInv) /\ [SideEffectsNext]_<<service, vars, fileVars, mailVars>>
    => (service = "emails" => MailsInv)'
<1> SUFFICES ASSUME service = "emails" => MailsInv,
                    [SideEffectsNext]_<<service, vars, fileVars, mailVars>>,
                    service' = "emails"
             PROVE  MailsInv'
  OBVIOUS
<1>1. service = "emails" /\ MailsInv /\ [Emails!Next]_mailVars
  BY DEF SideEffectsNext
<1>2. QED
  BY <1>1, NextMails

\* The same, of the deployment that the run side_effects checks.
THEOREM MailsAreAccounted == SideEffectsSpec => []MailsAccounted
<1>1. SideEffectsInit => (service = "emails" => MailsInv)
  BY InitMails DEF SideEffectsInit
<1>2. (service = "emails" => MailsInv) => MailsAccounted
  BY MailsInvAccounts DEF MailsAccounted
<1>3. QED
  BY <1>1, <1>2, MailsOfService, PTL DEF SideEffectsSpec
-----------------------------------------------------------------------------
(***************************************************************************)
(* FileService.  FileInv says, besides types, what each request may rely   *)
(* on (ReadTrue: its copy of the document is current while the version     *)
(* stands; ContentTrue: the object it saw is still there, and no upload    *)
(* can replace it, unless the content may be lost; RenditionTrue: its      *)
(* pending entry is the manifest's), that requests get in nobody's way     *)
(* (RequestsApart), what the document says of the objects (FileTrue,       *)
(* ManifestTrue), and that what must still be removed has a request that   *)
(* will do it (Kept for renditions, Cleaned for rejected content).         *)
(***************************************************************************)

DocStates ==
  {"none", "upload_pending", "upload_completing", "available", "scan_failed", "delete_requested"}

Renditions == [status : {"none", "pending", "available", "failed"}, key : Nat, source : Nat]

FileDocs ==
  [state : DocStates, version : Nat, deleted : BOOLEAN, multipart : BOOLEAN, part : Nat,
   rendition : Renditions]

FileOps ==
  {"upload", "prepareDirect", "completeDirect", "prepareMultipart", "uploadPart",
   "completeMultipart", "abort", "updateMetadata", "rendition", "delete"}

FilePlaces ==
  {"idle", "put", "scan", "create", "cleanup", "head", "execute", "createUpload", "abandon",
   "storePart", "begin", "reread", "complete", "abortUpload", "remove", "reserve", "transform",
   "latest", "discard", "latestFailed", "executeFailed", "request", "deletePrimary",
   "deleteRendition"}

FileRequests ==
  [op : FileOps, pc : FilePlaces, snap : FileDocs, expected : Nat, key : Nat, source : Nat]

FileTypes ==
  /\ doc \in FileDocs /\ req \in [FileSlots -> FileRequests]
  /\ upload \in {"none", "open", "aborted", "completed"} /\ url \in {"none", "issued"}
  /\ primary \in BOOLEAN /\ infected \in BOOLEAN /\ requested \in BOOLEAN /\ ackLost \in BOOLEAN
  /\ overtaken \in BOOLEAN /\ late \in BOOLEAN /\ overlay \in Nat \ {0}
  /\ etags \in Nat /\ fileRequests \in Nat /\ fileFaults \in Nat
  /\ renditions \in SUBSET Nat /\ \A k \in renditions : 1 <= k /\ k <= etags
  /\ replaced \in SUBSET Nat /\ \A k \in replaced : k <= etags
  /\ doc.rendition.key <= etags

\* Where each kind of request may be.
Placed(q) ==
  \/ q.pc = "idle"
  \/ q.op = "upload" /\ q.pc \in {"put", "scan", "create", "cleanup"}
  \/ q.op = "prepareDirect" /\ q.pc = "create"
  \/ q.op = "completeDirect" /\ q.pc \in {"head", "scan", "execute", "cleanup"}
  \/ q.op = "prepareMultipart" /\ q.pc \in {"createUpload", "create", "abandon"}
  \/ q.op = "uploadPart" /\ q.pc \in {"storePart", "execute"}
  \/ q.op = "completeMultipart"
     /\ q.pc \in {"head", "begin", "reread", "complete", "scan", "execute", "cleanup"}
  \/ q.op = "abort" /\ q.pc \in {"abortUpload", "remove"}
  \/ q.op = "updateMetadata" /\ q.pc = "execute"
  \/ q.op = "rendition"
     /\ q.pc \in {"head", "reserve", "transform", "latest", "execute", "discard", "latestFailed",
                  "executeFailed"}
  \/ q.op = "delete"
     /\ q.pc \in {"request", "reread", "deletePrimary", "deleteRendition", "remove"}

Creators == {"upload", "prepareDirect", "prepareMultipart"}

Completing(q) == q.op \in {"completeDirect", "completeMultipart"} /\ q.pc \in {"scan", "execute"}

Rendering(q) ==
  q.op = "rendition"
  /\ q.pc \in {"transform", "latest", "execute", "discard", "latestFailed", "executeFailed"}

Storing(q) == q.op = "rendition" /\ q.pc \in {"latest", "execute", "discard"}

Keyed(q) == Rendering(q) \/ (q.op = "rendition" /\ q.pc = "reserve")

\* The request stored a rendition, and will record it or remove it.
Stored(k) == \E r \in FileSlots : Storing(req[r]) /\ req[r].key = k

\* The overlay is what it was from the beginning.
Fixed == overlay = 1

\* The request has yet to find out, or to act on it, that the content is rejected.
Judging(q) ==
  \/ q.op = "upload" /\ q.pc \in {"scan", "create"}
  \/ Completing(q)
  \/ q.op = "delete" /\ q.pc \in {"reread", "deletePrimary"}

\* No multipart upload can store the object once more.
Sealed == upload # "open"

\* The content may have been removed.
Lost == requested \/ ackLost \/ infected

\* What a request has read, and that it is what the document still is while the
\* version stands.
ReadTrue(q) ==
  /\ Placed(q)
  /\ q.pc # "idle" /\ q.op \notin Creators =>
       /\ doc # Files!NoDoc /\ 1 <= q.snap.version /\ q.snap.version <= doc.version
       /\ q.snap.version = doc.version => q.snap = doc
  /\ q.op \in Creators /\ q.pc \notin {"idle", "cleanup", "abandon"} => doc = Files!NoDoc
  /\ q.op = "rendition" /\ q.pc \in {"head", "reserve"} => q.snap.state = "available"
  /\ \/ q.op = "completeMultipart" /\ q.pc \notin {"idle", "begin"}
     \/ q.op = "rendition" /\ q.pc # "idle"
     => doc.state # "upload_pending"
  /\ q.op = "abort" /\ q.pc # "idle" => q.snap.state = "upload_pending"
  /\ q.op = "delete" /\ q.pc \notin {"idle", "request"} => requested

\* What a request may rely on of the file's content.
ContentTrue(q) ==
  /\ q.op = "upload" /\ q.pc \notin {"idle", "cleanup"} => url = "none" /\ upload = "none"
  /\ q.op = "upload" /\ q.pc \in {"scan", "create"} => primary
  /\ q.op = "prepareDirect" /\ q.pc # "idle" => url # "none"
  /\ q.op = "prepareMultipart" /\ q.pc # "idle" => url = "none"
  /\ q.pc = "createUpload" => upload = "none"
  /\ q.op = "prepareMultipart" /\ q.pc \in {"createUpload", "create"} => ~primary
  /\ q.op = "completeMultipart" /\ q.pc # "idle" => url = "none"
  /\ Completing(q) => Sealed /\ (primary \/ Lost)
  /\ q.pc = "cleanup" /\ doc # Files!NoDoc => Lost

\* What a rendition under way may rely on.
RenditionTrue(q) ==
  /\ Keyed(q) => 1 <= q.key /\ q.key <= etags
  /\ Keyed(q) /\ Fixed => q.source = 1
  /\ Keyed(q) /\ ~ackLost =>
       q.key \notin replaced /\ (doc.rendition.key = q.key => doc.rendition.status = "pending")
  /\ Rendering(q) /\ ~ackLost /\ Fixed =>
       doc.rendition.status = "pending" /\ doc.rendition.key = q.key
  /\ q.op = "rendition" /\ q.pc \in {"latest", "execute"} /\ ~ackLost /\ ~requested =>
       q.key \in renditions
  /\ q.op = "rendition" /\ q.pc \in {"latestFailed", "executeFailed"} /\ fileFaults = 0 =>
       q.key \notin renditions
  /\ q.op = "rendition" /\ q.pc = "reserve" /\ ~ackLost /\ Fixed /\ q.snap.version = doc.version =>
       /\ q.snap.rendition.status # "pending"
       /\ q.snap.rendition.status = "available" => q.snap.rendition.key \notin renditions

RequestsTrue ==
  \A r \in FileSlots : ReadTrue(req[r]) /\ ContentTrue(req[r]) /\ RenditionTrue(req[r])

\* One request creates the file, alone; keys of renditions are fresh.
RequestsApart ==
  \A r, s \in FileSlots : r # s =>
    /\ doc = Files!NoDoc => req[r].pc = "idle" \/ req[s].pc = "idle"
    /\ Keyed(req[r]) /\ Keyed(req[s]) => req[r].key # req[s].key

FileTrue ==
  /\ fileRequests = 0 => /\ doc = Files!NoDoc /\ ~primary /\ upload = "none" /\ url = "none"
                         /\ \A r \in FileSlots : req[r].pc = "idle"
  /\ doc = Files!NoDoc \/ (doc.version >= 1 /\ doc.state # "none")
  /\ doc.state = "delete_requested" => requested
  /\ doc.state = "available" => ~infected /\ (primary \/ Lost)
  /\ doc.state \in {"available", "scan_failed"} \/ primary => Sealed
  /\ url # "none" => upload = "none"
  /\ doc.multipart => url = "none"
  /\ doc.state = "upload_pending" /\ url = "none" => ~primary

ManifestTrue ==
  /\ fileFaults = 0 => ~ackLost
  /\ doc.state = "upload_pending" /\ ~ackLost => doc.rendition = Files!NoRendition
  /\ doc.rendition.status # "none" /\ Fixed => doc.rendition.source = 1
  /\ doc.rendition.status = "available" /\ ~ackLost /\ ~requested =>
       doc.rendition.key \in renditions

\* A rendition object that a request will see to, or that was left behind.
Excused(k) == Stored(k) \/ (~Fixed /\ k \in replaced)

\* A rendition object has its entry, and a deletion leaves none behind.
Kept ==
  fileFaults = 0 =>
    /\ \A k \in renditions :
         \/ Files!Live(doc) /\ doc.rendition.status = "available" /\ doc.rendition.key = k
         \/ Excused(k)
    /\ \A s \in FileSlots :
         req[s].op = "delete" /\ req[s].pc = "remove" /\ req[s].snap.version = doc.version =>
           \A k \in renditions : Excused(k)

\* Rejected content that is stored has a request that will remove it.
Cleaned ==
  fileFaults = 0 /\ infected /\ primary /\ ~late =>
    /\ doc.state = "scan_failed" => \E r \in FileSlots : req[r].pc = "cleanup"
    /\ \/ doc.state = "upload_pending"
       \/ overtaken /\ doc.state # "none"
       \/ \E r \in FileSlots : req[r].pc = "cleanup" \/ Judging(req[r])

FileInv ==
  FileTypes /\ RequestsTrue /\ RequestsApart /\ FileTrue /\ ManifestTrue /\ Kept /\ Cleaned

-----------------------------------------------------------------------------
(* Requests that move.                                                     *)

RequestTrue(q) == ReadTrue(q) /\ ContentTrue(q) /\ RenditionTrue(q)

LEMMA FileFacts ==
  ASSUME FileInv, NEW r \in FileSlots
  PROVE  /\ doc \in FileDocs /\ req[r] \in FileRequests /\ RequestTrue(req[r])
         /\ req[r].pc # "idle" => fileRequests \in Nat \ {0}
BY DEF FileInv, FileTypes, RequestsTrue, RequestTrue, FileTrue

LEMMA IdleTrue ==
  ASSUME NEW q, q.pc = "idle"
  PROVE  RequestTrue(q) /\ ~ Keyed(q) /\ ~ Storing(q) /\ ~ Rendering(q) /\ ~ Judging(q)
BY DEF RequestTrue, ReadTrue, ContentTrue, RenditionTrue, Placed, Keyed, Rendering, Fixed, Storing,
       Completing, Judging

\* The request goes on, with what it knows.
Moved(r, q, place) ==
  /\ q \in FileRequests /\ req' = [req EXCEPT ![r] = q]
  /\ q.pc = place /\ q.op = req[r].op /\ q.snap = req[r].snap /\ q.key = req[r].key
  /\ q.source = req[r].source

Ended(r, q) == q \in FileRequests /\ req' = [req EXCEPT ![r] = q] /\ q.pc = "idle"

LEMMA GotoMoves ==
  ASSUME FileInv, NEW r \in FileSlots, NEW place \in FilePlaces, Files!Goto(r, place)
  PROVE  \E q : Moved(r, q, place)
<1> DEFINE q == [req[r] EXCEPT !.pc = place]
<1>1. req[r] \in FileRequests /\ req \in [FileSlots -> FileRequests]
  BY DEF FileInv, FileTypes
<1>2. q \in FileRequests /\ q.pc = place /\ q.op = req[r].op /\ q.snap = req[r].snap
      /\ q.key = req[r].key /\ q.source = req[r].source
  BY <1>1 DEF FileRequests
<1>3. req' = [req EXCEPT ![r] = q]
  BY DEF Files!Goto
<1> HIDE DEF q
<1> QED
  BY <1>2, <1>3 DEF Moved

LEMMA EndMoves ==
  ASSUME NEW r \in FileSlots, Files!End(r)
  PROVE  \E q : Ended(r, q)
<1>1. Files!NoDoc \in FileDocs
  BY DEF Files!NoDoc, Files!NoRendition, FileDocs, DocStates, Renditions
<1>2. Files!Idle \in FileRequests /\ Files!Idle.pc = "idle"
  BY <1>1 DEF Files!Idle, FileRequests, FileOps, FilePlaces, Files!NoVersion
<1> QED
  BY <1>2 DEF Files!End, Ended

LEMMA GotoOrEndMoves ==
  ASSUME FileInv, NEW r \in FileSlots, NEW place \in FilePlaces, Files!GotoOrEnd(r, place)
  PROVE  \E q : Moved(r, q, place) \/ (place = "idle" /\ Ended(r, q))
BY GotoMoves, EndMoves DEF Files!GotoOrEnd

\* A step that changes one request and none of what it works on.
Turn(r, q) ==
  /\ q \in FileRequests /\ req' = [req EXCEPT ![r] = q]
  /\ UNCHANGED <<doc, primary, upload, renditions, infected, url, overlay, requested, ackLost,
                 late, replaced>>
  /\ overtaken' = overtaken \/ overtaken' = TRUE
  /\ etags' \in Nat /\ etags <= etags' /\ fileRequests' \in Nat \ {0}
  /\ fileFaults' \in Nat /\ (fileFaults' = 0 => fileFaults = 0)

LEMMA FileTurns ==
  ASSUME FileInv, NEW r \in FileSlots, NEW q, Turn(r, q), RequestTrue(q)',
         Keyed(q) => (Keyed(req[r]) /\ q.key = req[r].key) \/ q.key > etags,
         doc = Files!NoDoc => req[r].pc # "idle" \/ q.pc = "idle",
         fileFaults' = 0 => req[r].pc # "cleanup",
         fileFaults' = 0 /\ Storing(req[r]) => Storing(q) /\ q.key = req[r].key,
         fileFaults' = 0 /\ Judging(req[r]) => Judging(q) \/ (overtaken' /\ doc # Files!NoDoc),
         q.op = "delete" => q.pc # "remove"
  PROVE  FileInv'
<1>1. req'[r] = q /\ \A s \in FileSlots : s # r => req'[s] = req[s]
  BY DEF FileInv, FileTypes, Turn
<1>2. FileTypes'
  <2>1. req' \in [FileSlots -> FileRequests]
    BY DEF FileInv, FileTypes, Turn
  <2>2. doc.rendition.key \in Nat
    BY DEF FileInv, FileTypes, FileDocs, Renditions
  <2>3. overtaken' \in BOOLEAN
    BY DEF FileInv, FileTypes, Turn
  <2> QED
    BY <2>1, <2>2, <2>3 DEF FileInv, FileTypes, Turn
<1>3. RequestsTrue'
  <2>1. ASSUME NEW s \in FileSlots, s # r
        PROVE  RequestTrue(req[s])'
    <3>1. ReadTrue(req[s]) /\ ContentTrue(req[s]) /\ RenditionTrue(req[s]) /\ req'[s] = req[s]
          /\ req[s].key \in Nat /\ etags \in Nat
      BY <1>1, <2>1 DEF FileInv, RequestsTrue, FileTypes, FileRequests
    <3>2. ReadTrue(req[s])'
      BY <3>1 DEF Turn, ReadTrue, Placed
    <3>3. ContentTrue(req[s])'
      BY <3>1 DEF Turn, ContentTrue, Completing, Sealed, Lost
    <3>4. RenditionTrue(req[s])'
      BY <3>1 DEF Turn, RenditionTrue, Keyed, Rendering, Fixed
    <3> QED
      BY <3>2, <3>3, <3>4 DEF RequestTrue
  <2>2. RequestTrue(req[r])'
    BY <1>1 DEF RequestTrue, ReadTrue, ContentTrue, RenditionTrue, Placed, Completing, Sealed,
                Lost, Keyed, Rendering, Fixed
  <2> QED
    BY <2>1, <2>2 DEF RequestsTrue, RequestTrue
<1>4. RequestsApart'
  <2> SUFFICES ASSUME NEW s \in FileSlots, NEW t \in FileSlots, s # t
               PROVE  /\ doc' = Files!NoDoc => req'[s].pc = "idle" \/ req'[t].pc = "idle"
                      /\ Keyed(req'[s]) /\ Keyed(req'[t]) => req'[s].key # req'[t].key
    BY DEF RequestsApart, Keyed, Rendering, Fixed
  <2>1. /\ doc = Files!NoDoc => req[s].pc = "idle" \/ req[t].pc = "idle"
        /\ Keyed(req[s]) /\ Keyed(req[t]) => req[s].key # req[t].key
    BY DEF FileInv, RequestsApart
  <2>2. \A u \in FileSlots : Keyed(req[u]) => req[u].key <= etags
    BY DEF FileInv, RequestsTrue, RenditionTrue
  <2>3. etags \in Nat /\ q.key \in Nat /\ \A u \in FileSlots : req[u].key \in Nat
    BY DEF FileInv, FileTypes, FileRequests, Turn
  <2>4. doc' = doc
    BY DEF Turn
  <2> QED
    BY <1>1, <2>1, <2>2, <2>3, <2>4
<1>5. FileTrue' /\ ManifestTrue'
  BY DEF FileInv, FileTrue, ManifestTrue, Turn, Sealed, Lost, Fixed
<1>6. Kept'
  <2> SUFFICES ASSUME fileFaults' = 0 PROVE Kept'
    BY DEF Kept
  <2>1. \A s \in FileSlots : Storing(req[s]) => Storing(req'[s]) /\ req'[s].key = req[s].key
    BY <1>1
  <2>2. \A s \in FileSlots : req'[s].op = "delete" /\ req'[s].pc = "remove" => req'[s] = req[s]
    BY <1>1
  <2>3. Kept /\ fileFaults = 0
    BY DEF FileInv, Turn
  <2>4. \A k : Excused(k) => Excused(k)'
    BY <2>1 DEF Excused, Stored, Storing, Fixed, Turn
  <2>5. UNCHANGED <<doc, renditions>>
    BY DEF Turn
  <2> QED
    BY <2>2, <2>3, <2>4, <2>5 DEF Kept, Files!Live
<1>7. Cleaned'
  <2> SUFFICES ASSUME fileFaults' = 0, infected, primary, ~late PROVE Cleaned'
    BY DEF Cleaned, Turn
  <2>1. Cleaned /\ fileFaults = 0 /\ UNCHANGED <<doc, primary, infected>> /\ (overtaken => overtaken')
    BY DEF FileInv, Turn
  <2>2. \A s \in FileSlots : req[s].pc = "cleanup" => req'[s].pc = "cleanup"
    BY <1>1
  <2>3. \A s \in FileSlots : Judging(req[s]) => Judging(req'[s]) \/ (overtaken' /\ doc # Files!NoDoc)
    BY <1>1
  <2>4. doc # Files!NoDoc => doc.state # "none"
    BY DEF FileInv, FileTrue
  <2>5. doc.state = "scan_failed" => \E s \in FileSlots : req'[s].pc = "cleanup"
    BY <2>1, <2>2 DEF Cleaned
  <2>6. \/ doc.state = "upload_pending"
        \/ overtaken' /\ doc.state # "none"
        \/ \E s \in FileSlots : req'[s].pc = "cleanup" \/ Judging(req'[s])
    BY <2>1, <2>2, <2>3, <2>4 DEF Cleaned
  <2> QED
    BY <2>1, <2>5, <2>6 DEF Cleaned, Judging, Completing
<1> QED
  BY <1>2, <1>3, <1>4, <1>5, <1>6, <1>7 DEF FileInv

\* A request that begins with reading a document that is there.
LEMMA StartTurns ==
  ASSUME FileInv, NEW r \in FileSlots, NEW op, NEW place, NEW v \in Nat, NEW k \in Nat,
         Files!StartOf(r, op, place, v, k), UNCHANGED url, Files!Live(doc),
         \/ op = "completeDirect" /\ place = "head"
         \/ op = "uploadPart" /\ place = "storePart"
         \/ /\ op = "completeMultipart" /\ doc.multipart
            /\ place = IF doc.state = "upload_completing" THEN "head" ELSE "begin"
         \/ op = "abort" /\ place = "abortUpload" /\ doc.state = "upload_pending"
         \/ op = "updateMetadata" /\ place = "execute"
         \/ op = "rendition" /\ place = "head" /\ doc.state = "available"
         \/ op = "delete" /\ (place = "request" \/ (place = "deletePrimary" /\ requested))
  PROVE  FileInv'
<1>1. PICK q : q = [op |-> op, pc |-> place, snap |-> doc, expected |-> v, key |-> k, source |-> 0]
  OBVIOUS
<1>2. doc \in FileDocs /\ fileRequests \in Nat /\ etags \in Nat /\ fileFaults \in Nat
  BY DEF FileInv, FileTypes
<1>3. doc # Files!NoDoc /\ doc.version \in Nat /\ doc.version >= 1
  BY <1>2 DEF FileInv, FileTrue, Files!Live, Files!NoDoc, FileDocs
<1>4. q \in FileRequests /\ q.op = op /\ q.pc = place /\ q.snap = doc
  BY <1>1, <1>2 DEF FileRequests, FileOps, FilePlaces
<1>5. Turn(r, q) /\ req[r].pc = "idle"
  BY <1>1, <1>2, <1>4 DEF Files!StartOf, Turn, Files!objects, Files!history
<1>6. RequestTrue(q)'
  <2>1. UNCHANGED <<doc, requested, url>> /\ (doc.multipart => url = "none")
    BY <1>5 DEF Turn, FileInv, FileTrue
  <2>2. ReadTrue(q)'
    BY <1>3, <1>4, <2>1 DEF ReadTrue, Placed, Creators
  <2>3. ContentTrue(q)' /\ RenditionTrue(q)' /\ ~ Keyed(q)
    BY <1>4, <2>1 DEF ContentTrue, RenditionTrue, Keyed, Rendering, Fixed, Completing
  <2> QED
    BY <2>2, <2>3 DEF RequestTrue
<1>7. ~ Keyed(q) /\ ~ Storing(req[r]) /\ ~ Judging(req[r]) /\ (q.op = "delete" => q.pc # "remove")
  BY <1>4, <1>5 DEF Keyed, Rendering, Storing, Judging, Completing
<1> QED
  BY <1>3, <1>5, <1>6, <1>7, FileTurns

LEMMA StartsKeep ==
  ASSUME FileInv, NEW r \in FileSlots,
         \/ Files!StartCompleteDirectUpload(r) \/ Files!StartUploadMultipartPart(r)
         \/ Files!StartCompleteMultipartUpload(r) \/ Files!StartAbortMultipartUpload(r)
         \/ Files!StartUpdateMetadata(r) \/ Files!StartGenerateRendition(r) \/ Files!StartDelete(r)
  PROVE  FileInv'
<1>1. Files!CallerVersions \in SUBSET Nat /\ Files!NoVersion \in Nat /\ doc.part \in Nat /\ 0 \in Nat
  BY DEF FileInv, FileTypes, FileDocs, Files!CallerVersions, Files!NoVersion
<1>2. CASE Files!StartCompleteDirectUpload(r)
  BY <1>1, <1>2, StartTurns DEF Files!StartCompleteDirectUpload, Files!Start
<1>3. CASE Files!StartUploadMultipartPart(r)
  BY <1>1, <1>3, StartTurns DEF Files!StartUploadMultipartPart, Files!Start
<1>4. CASE Files!StartCompleteMultipartUpload(r)
  <2>1. doc.multipart /\ Files!Live(doc) /\ UNCHANGED url
    BY <1>4 DEF Files!StartCompleteMultipartUpload, Files!ensureFilePendingMultipartCompletion
  <2>2. PICK v \in Files!CallerVersions :
          Files!StartOf(r, "completeMultipart",
                        IF doc.state = "upload_completing" THEN "head" ELSE "begin", v, doc.part)
    BY <1>4 DEF Files!StartCompleteMultipartUpload
  <2> QED
    BY <1>1, <2>1, <2>2, StartTurns
<1>5. CASE Files!StartAbortMultipartUpload(r)
  BY <1>1, <1>5, StartTurns DEF Files!StartAbortMultipartUpload,
                                Files!ensureFilePendingMultipartPartUpload, Files!Start
<1>6. CASE Files!StartUpdateMetadata(r)
  BY <1>1, <1>6, StartTurns DEF Files!StartUpdateMetadata, Files!Start
<1>7. CASE Files!StartGenerateRendition(r)
  BY <1>1, <1>7, StartTurns DEF Files!StartGenerateRendition, Files!ensureFileAvailableForDownload,
                                Files!Start
<1>8. CASE Files!StartDelete(r)
  <2>1. Files!isFileDeleteRequested(doc) => requested
    BY DEF FileInv, FileTrue, Files!isFileDeleteRequested
  <2> QED
    BY <1>1, <1>8, <2>1, StartTurns DEF Files!StartDelete, Files!Start
<1> QED
  BY <1>2, <1>3, <1>4, <1>5, <1>6, <1>7, <1>8

\* A request that ends, or whose call failed before it had any effect.
LEMMA EndTurns ==
  ASSUME FileInv, NEW r \in FileSlots, NEW q, Ended(r, q), req[r].pc # "idle",
         UNCHANGED <<doc, primary, upload, renditions, infected, url, overlay, requested,
                     ackLost, late, replaced, fileRequests>>,
         etags' = etags, fileFaults' \in Nat, fileFaults' = 0 => fileFaults = 0,
         overtaken' = overtaken \/ overtaken' = TRUE,
         fileFaults' = 0 => req[r].pc # "cleanup" /\ ~ Storing(req[r]),
         fileFaults' = 0 /\ Judging(req[r]) => overtaken' /\ doc # Files!NoDoc
  PROVE  FileInv'
<1>1. Turn(r, q)
  BY FileFacts DEF FileInv, FileTypes, Ended, Turn
<1>2. RequestTrue(q)' /\ ~ Keyed(q) /\ q.pc = "idle"
  BY DEF Ended, RequestTrue, ReadTrue, ContentTrue, RenditionTrue, Placed, Keyed, Rendering, Fixed,
         Completing
<1> QED
  BY <1>1, <1>2, FileTurns

\* The next call of a request that changed nothing so far.
LEMMA MoveTurns ==
  ASSUME FileInv, NEW r \in FileSlots, NEW place, NEW q, Moved(r, q, place), req[r].pc # "idle",
         UNCHANGED <<doc, primary, upload, renditions, infected, url, overlay, requested,
                     ackLost, late, replaced, fileRequests>>,
         etags' = etags, fileFaults' \in Nat, fileFaults' = 0 => fileFaults = 0,
         overtaken' = overtaken \/ overtaken' = TRUE,
         RequestTrue(q)', Keyed(q) => Keyed(req[r]),
         fileFaults' = 0 => req[r].pc # "cleanup",
         fileFaults' = 0 /\ Storing(req[r]) => Storing(q),
         fileFaults' = 0 /\ Judging(req[r]) => Judging(q) \/ (overtaken' /\ doc # Files!NoDoc),
         q.op = "delete" => q.pc # "remove"
  PROVE  FileInv'
<1>1. Turn(r, q) /\ q.key = req[r].key
  BY FileFacts DEF FileInv, FileTypes, Moved, Turn
<1> QED
  BY <1>1, FileTurns

LEMMA OnErrorIs ==
  ASSUME NEW r
  PROVE  /\ Files!OnError(r) \in {"cleanup", "abandon", "discard", "latestFailed", "idle"}
         /\ Files!OnError(r) = "cleanup" => req[r].op = "upload" /\ req[r].pc \in {"scan", "create"}
         /\ Files!OnError(r) = "abandon" => req[r].op = "prepareMultipart" /\ req[r].pc = "create"
         /\ Files!OnError(r) = "discard" =>
              req[r].op = "rendition" /\ req[r].pc \in {"transform", "latest", "execute"}
         /\ Files!OnError(r) = "latestFailed" => req[r].op = "rendition" /\ req[r].pc = "discard"
         /\ Storing(req[r]) /\ req[r].pc # "discard" => Files!OnError(r) = "discard"
<1> DEFINE op == req[r].op
           place == req[r].pc
<1>1. CASE op = "upload" /\ place \in {"scan", "create"}
  BY <1>1 DEF Files!OnError, Storing
<1>2. CASE op = "prepareMultipart" /\ place = "create"
  BY <1>2 DEF Files!OnError, Storing
<1>3. CASE op = "rendition" /\ place \in {"transform", "latest", "execute"}
  BY <1>3 DEF Files!OnError, Storing
<1>4. CASE op = "rendition" /\ place = "discard"
  BY <1>4 DEF Files!OnError, Storing
<1>5. CASE /\ ~(op = "upload" /\ place \in {"scan", "create"})
           /\ ~(op = "prepareMultipart" /\ place = "create")
           /\ ~(op = "rendition" /\ place \in {"transform", "latest", "execute", "discard"})
  BY <1>5 DEF Files!OnError, Storing
<1> QED
  BY <1>1, <1>2, <1>3, <1>4, <1>5

\* The call throws, and the request compensates or ends.
LEMMA FailTurns ==
  ASSUME FileInv, NEW r \in FileSlots, req[r].pc # "idle", Files!GotoOrEnd(r, Files!OnError(r)),
         UNCHANGED <<doc, primary, upload, renditions, infected, url, overlay, requested,
                     ackLost, late, replaced, fileRequests>>,
         etags' = etags, fileFaults' \in Nat, fileFaults' = 0 => fileFaults = 0,
         overtaken' = overtaken \/ overtaken' = TRUE,
         fileFaults' = 0 => req[r].pc \notin {"cleanup", "discard"},
         fileFaults' = 0 /\ Judging(req[r]) => overtaken' /\ doc # Files!NoDoc
  PROVE  FileInv'
<1>1. PICK place : place = Files!OnError(r)
  OBVIOUS
<1>2. place \in FilePlaces
  BY <1>1, OnErrorIs DEF FilePlaces
<1>3. PICK q : Moved(r, q, place) \/ (place = "idle" /\ Ended(r, q))
  BY <1>1, <1>2, GotoOrEndMoves
<1>4. CASE place = "idle"
  <2>1. Ended(r, q)
    BY <1>3, <1>4 DEF Moved, Ended
  <2>2. fileFaults' = 0 => req[r].pc # "cleanup" /\ ~ Storing(req[r])
    BY <1>1, <1>4, OnErrorIs
  <2>3. fileFaults' = 0 /\ Judging(req[r]) => overtaken' /\ doc # Files!NoDoc
    BY <1>1, <1>4
  <2> QED
    BY <2>1, <2>2, <2>3, EndTurns
<1>5. CASE place # "idle"
  <2>1. /\ Moved(r, q, place) /\ q.pc = place /\ q.op = req[r].op /\ q.snap = req[r].snap
        /\ q.key = req[r].key /\ q.source = req[r].source
    BY <1>3, <1>5 DEF Moved
  <2>2. RequestTrue(req[r])
    BY FileFacts
  <2>3. RequestTrue(q)'
    <3>1. ReadTrue(q)'
      BY <1>1, <1>5, <2>1, <2>2, OnErrorIs DEF RequestTrue, ReadTrue, Placed, Creators
    <3>2. ContentTrue(q)'
      BY <1>1, <1>5, <2>1, <2>2, OnErrorIs
         DEF RequestTrue, ReadTrue, ContentTrue, Creators, Completing
    <3>3. RenditionTrue(q)'
      BY <1>1, <1>5, <2>1, <2>2, OnErrorIs DEF RequestTrue, RenditionTrue, Keyed, Rendering, Fixed
    <3> QED
      BY <3>1, <3>2, <3>3 DEF RequestTrue
  <2>4. /\ Keyed(q) => Keyed(req[r])
        /\ fileFaults' = 0 /\ Storing(req[r]) => Storing(q)
        /\ q.op = "delete" => q.pc # "remove"
    <3>1. Keyed(q) => Keyed(req[r])
      BY <1>1, <1>5, <2>1, OnErrorIs DEF Keyed, Rendering, Fixed
    <3>2. fileFaults' = 0 /\ Storing(req[r]) => Storing(q)
      <4>1. req[r].pc = "discard" => fileFaults' # 0
        OBVIOUS
      <4>2. Storing(req[r]) /\ req[r].pc # "discard" => place = "discard" /\ req[r].op = "rendition"
        BY <1>1, OnErrorIs DEF Storing
      <4> QED
        BY <2>1, <4>1, <4>2 DEF Storing
    <3>3. q.pc # "remove"
      BY <1>1, <2>1, OnErrorIs
    <3> QED
      BY <3>1, <3>2, <3>3
  <2>5. /\ fileFaults' = 0 => req[r].pc # "cleanup"
        /\ fileFaults' = 0 /\ Judging(req[r]) => Judging(q) \/ (overtaken' /\ doc # Files!NoDoc)
    BY <1>1, <1>5
  <2> QED
    BY <2>1, <2>3, <2>4, <2>5, MoveTurns
<1> QED
  BY <1>4, <1>5

LEMMA FaultsKeep ==
  ASSUME FileInv, NEW r \in FileSlots,
         Files!Refuse(r) \/ Files!CallFails(r) \/ Files!RequestDies(r)
  PROVE  FileInv'
<1>1. fileFaults \in Nat /\ fileFaults + 1 \in Nat \ {0}
  BY DEF FileInv, FileTypes
<1>2. CASE Files!Refuse(r)
  <2>1. /\ Files!GotoOrEnd(r, Files!OnError(r)) /\ fileFaults' = fileFaults /\ etags' = etags
        /\ UNCHANGED <<doc, primary, upload, renditions, infected, url, overlay, requested,
                     ackLost, late, replaced, fileRequests>>
        /\ req[r].pc \notin {"idle", "cleanup", "discard"}
    BY <1>2 DEF Files!Refuse, Files!Executing, Files!objects, Files!source, Files!counters, Files!history
  <2>2. overtaken' = overtaken \/ overtaken' = TRUE
    <3>1. overtaken \in BOOLEAN /\ overtaken' = (overtaken \/ Files!EndsCompletion(r))
      BY <1>2 DEF Files!Refuse, FileInv, FileTypes
    <3> QED
      BY <3>1, Zenon
  <2>3. Judging(req[r]) => overtaken' /\ doc # Files!NoDoc
    <3>1. RequestTrue(req[r])
      BY FileFacts
    <3>2. req[r].pc \in Files!Executing
      BY <1>2 DEF Files!Refuse
    <3>3. Judging(req[r]) =>
            req[r].op \in {"completeDirect", "completeMultipart"} /\ req[r].pc = "execute"
      BY <3>2 DEF Judging, Completing, Files!Executing
    <3>4. Judging(req[r]) => doc # Files!NoDoc
      BY <3>1, <3>3 DEF RequestTrue, ReadTrue, Creators
    <3> QED
      BY <1>2, <3>3, <3>4 DEF Files!Refuse, Files!EndsCompletion
  <2> QED
    BY <1>1, <2>1, <2>2, <2>3, FailTurns
<1>3. CASE Files!CallFails(r)
  <2>1. /\ Files!GotoOrEnd(r, Files!OnError(r)) /\ fileFaults' = fileFaults + 1 /\ etags' = etags
        /\ UNCHANGED <<doc, primary, upload, renditions, infected, url, overlay, requested,
                     ackLost, late, replaced, fileRequests>>
        /\ req[r].pc # "idle" /\ overtaken' = overtaken
    BY <1>3 DEF Files!CallFails, Files!Fault, Files!objects, Files!source, Files!history
  <2>2. fileFaults' \in Nat /\ fileFaults' # 0
    BY <1>1, <2>1
  <2> QED
    BY <2>1, <2>2, FailTurns
<1>4. CASE Files!RequestDies(r)
  <2>1. /\ Files!End(r) /\ fileFaults' = fileFaults + 1 /\ etags' = etags
        /\ UNCHANGED <<doc, primary, upload, renditions, infected, url, overlay, requested,
                     ackLost, late, replaced, fileRequests>>
        /\ req[r].pc # "idle" /\ overtaken' = overtaken
    BY <1>4 DEF Files!RequestDies, Files!Fault, Files!objects, Files!source, Files!history
  <2>2. fileFaults' \in Nat /\ fileFaults' # 0
    BY <1>1, <2>1
  <2>3. PICK q : Ended(r, q)
    BY <2>1, EndMoves
  <2> QED
    BY <2>1, <2>2, <2>3, EndTurns
<1> QED
  BY <1>2, <1>3, <1>4

LEMMA LooksKeep ==
  ASSUME FileInv, NEW r \in FileSlots,
         Files!ScanObject(r) \/ Files!HeadDirectObject(r) \/ Files!HeadMultipartObject(r)
  PROVE  FileInv'
<1>1. /\ UNCHANGED <<doc, primary, upload, renditions, infected, url, overlay, requested,
                     ackLost, late, replaced, fileRequests>>
      /\ etags' = etags /\ fileFaults' = fileFaults /\ fileFaults \in Nat
      /\ overtaken' = overtaken /\ req[r].pc \in {"scan", "head"} /\ ~ Storing(req[r])
  BY DEF FileInv, FileTypes, Storing, Files!ScanObject, Files!HeadDirectObject, Files!At,
         Files!HeadMultipartObject, Files!objects, Files!source, Files!counters, Files!history
<1>2. RequestTrue(req[r])
  BY FileFacts
<1>3. PICK place \in FilePlaces :
        /\ Files!GotoOrEnd(r, place)
        /\ \/ req[r].pc = "head" /\ place = "idle"
           \/ req[r].pc = "scan" /\ place = IF req[r].op = "upload" THEN "create" ELSE "execute"
           \/ /\ req[r].op \in {"completeDirect", "completeMultipart"} /\ req[r].pc = "head"
              /\ place = "scan" /\ primary
           \/ req[r].op = "completeMultipart" /\ req[r].pc = "head" /\ place = "complete"
  <2>1. CASE Files!ScanObject(r)
    <3>1. PICK place \in FilePlaces : place = IF req[r].op = "upload" THEN "create" ELSE "execute"
      BY DEF FilePlaces
    <3>2. Files!GotoOrEnd(r, place) /\ req[r].pc = "scan"
      BY <2>1, <3>1 DEF Files!ScanObject, Files!GotoOrEnd
    <3> QED
      BY <3>1, <3>2
  <2>2. CASE Files!HeadDirectObject(r)
    <3>1. "scan" \in FilePlaces /\ "idle" \in FilePlaces
      BY DEF FilePlaces
    <3> QED
      BY <2>2, <3>1 DEF Files!HeadDirectObject, Files!At
  <2>3. CASE Files!HeadMultipartObject(r)
    <3>1. PICK place \in FilePlaces : place = IF primary THEN "scan" ELSE "complete"
      BY DEF FilePlaces
    <3>2. Files!GotoOrEnd(r, place) /\ req[r].pc = "head" /\ req[r].op = "completeMultipart"
      BY <2>3, <3>1 DEF Files!HeadMultipartObject, Files!At, Files!GotoOrEnd
    <3> QED
      BY <3>1, <3>2
  <2> QED
    BY <2>1, <2>2, <2>3
<1>4. PICK q : Moved(r, q, place) \/ (place = "idle" /\ Ended(r, q))
  BY <1>3, GotoOrEndMoves
<1>5. CASE place = "idle"
  <2>1. Ended(r, q)
    BY <1>4, <1>5 DEF Moved, Ended
  <2>2. ~ Judging(req[r])
    BY <1>3, <1>5 DEF Judging, Completing
  <2> QED
    BY <1>1, <2>1, <2>2, EndTurns
<1>6. CASE place # "idle"
  <2>1. /\ Moved(r, q, place) /\ q.pc = place /\ q.op = req[r].op /\ q.snap = req[r].snap
        /\ q.key = req[r].key /\ q.source = req[r].source
    BY <1>4, <1>6 DEF Moved
  <2>2. ReadTrue(q)'
    BY <1>1, <1>2, <1>3, <1>6, <2>1 DEF RequestTrue, ReadTrue, Placed, Creators
  <2>3. ContentTrue(q)'
    <3>1. primary => Sealed
      BY DEF FileInv, FileTrue
    <3> QED
      BY <1>1, <1>2, <1>3, <1>6, <2>1, <3>1
         DEF RequestTrue, ReadTrue, Placed, ContentTrue, Creators, Completing, Sealed, Lost
  <2>4. ~ Keyed(q)
    BY <1>2, <1>3, <1>6, <2>1 DEF RequestTrue, ReadTrue, Placed, Keyed, Rendering, Fixed
  <2>5. RenditionTrue(q)' /\ (q.op = "delete" => q.pc # "remove")
    BY <1>3, <1>6, <2>1, <2>4 DEF RenditionTrue, Keyed, Rendering, Fixed
  <2>6. RequestTrue(q)'
    BY <2>2, <2>3, <2>5 DEF RequestTrue
  <2>7. Judging(req[r]) => Judging(q)
    BY <1>2, <1>3, <1>6, <2>1 DEF RequestTrue, ReadTrue, Placed, Judging, Completing
  <2> QED
    BY <1>1, <2>1, <2>4, <2>5, <2>6, <2>7, MoveTurns
<1> QED
  BY <1>5, <1>6

\* finishCommit and recordRenditionManifest: the document as it is by now.
LEMMA RereadsKeep ==
  ASSUME FileInv, NEW r \in FileSlots, Files!RereadDocument(r) \/ Files!ReadLatest(r)
  PROVE  FileInv'
<1>1. /\ UNCHANGED <<doc, primary, upload, renditions, infected, url, overlay, requested,
                     ackLost, late, replaced, fileRequests>>
      /\ etags' = etags /\ fileFaults' = fileFaults /\ fileFaults \in Nat /\ etags \in Nat
      /\ overtaken' = overtaken /\ req[r].pc \in {"reread", "latest", "latestFailed"}
  BY DEF FileInv, FileTypes, Files!RereadDocument, Files!ReadLatest,
         Files!objects, Files!source, Files!counters, Files!history
<1>2. RequestTrue(req[r]) /\ req[r] \in FileRequests /\ doc \in FileDocs
      /\ fileRequests \in Nat \ {0}
  BY <1>1, FileFacts
<1>3. CASE Files!ReadLatest(r) /\ ~ Files!Live(doc)
  <2>1. Files!GotoOrEnd(r, Files!OnError(r)) /\ req[r].pc \in {"latest", "latestFailed"}
    BY <1>3 DEF Files!ReadLatest
  <2>2. ~ Judging(req[r])
    BY <2>1 DEF Judging, Completing
  <2> QED
    BY <1>1, <2>1, <2>2, FailTurns
<1>4. CASE ~(Files!ReadLatest(r) /\ ~ Files!Live(doc))
  <2> DEFINE place == CASE req[r].pc = "latest" -> "execute"
                        [] req[r].pc = "latestFailed" -> "executeFailed"
                        [] OTHER -> IF req[r].op = "delete" THEN "deletePrimary" ELSE "head"
  <2>1. PICK q : q = [req[r] EXCEPT !.snap = doc, !.pc = place]
    OBVIOUS
  <2>2. req' = [req EXCEPT ![r] = q]
    BY <1>1, <1>4, <2>1 DEF Files!RereadDocument, Files!ReadLatest
  <2>3. place \in FilePlaces
    BY <1>1 DEF FilePlaces
  <2>4. /\ q \in FileRequests /\ q.snap = doc /\ q.pc = place /\ q.op = req[r].op
        /\ q.key = req[r].key /\ q.source = req[r].source
    BY <1>2, <2>1, <2>3 DEF FileRequests
  <2>5. doc # Files!NoDoc /\ doc.version \in Nat /\ doc.version >= 1
    BY <1>1, <1>2 DEF RequestTrue, ReadTrue, Placed, Creators, FileInv, FileTrue, FileDocs
  <2>6. \/ req[r].op = "rendition" /\ req[r].pc = "latest" /\ q.pc = "execute"
        \/ req[r].op = "rendition" /\ req[r].pc = "latestFailed" /\ q.pc = "executeFailed"
        \/ req[r].op = "delete" /\ req[r].pc = "reread" /\ q.pc = "deletePrimary"
        \/ req[r].op = "completeMultipart" /\ req[r].pc = "reread" /\ q.pc = "head"
    BY <1>1, <1>2, <2>4 DEF RequestTrue, ReadTrue, Placed
  <2> HIDE DEF place
  <2>7. ReadTrue(q)'
    BY <1>1, <1>2, <2>4, <2>5, <2>6 DEF RequestTrue, ReadTrue, Placed, Creators
  <2>8. ContentTrue(q)'
    BY <1>1, <1>2, <2>4, <2>6 DEF RequestTrue, ContentTrue, Completing
  <2>9. RenditionTrue(q)'
    BY <1>1, <1>2, <2>4, <2>6 DEF RequestTrue, RenditionTrue, Keyed, Rendering, Fixed
  <2>10. Turn(r, q)
    BY <1>1, <1>2, <2>2, <2>4 DEF Turn
  <2>11. /\ Keyed(q) => Keyed(req[r])
         /\ Storing(req[r]) => Storing(q)
         /\ Judging(req[r]) => Judging(q)
         /\ (q.op = "delete" => q.pc # "remove")
    BY <2>4, <2>6 DEF Keyed, Rendering, Storing, Judging, Completing
  <2>12. RequestTrue(q)'
    BY <2>7, <2>8, <2>9 DEF RequestTrue
  <2> QED
    BY <1>1, <2>4, <2>10, <2>11, <2>12, FileTurns
<1> QED
  BY <1>3, <1>4

\* The key of an attempt is fresh.
LEMMA PlanKeeps ==
  ASSUME FileInv, NEW r \in FileSlots, Files!PlanRendition(r)
  PROVE  FileInv'
<1>1. /\ UNCHANGED <<doc, primary, upload, renditions, infected, url, overlay, requested,
                     ackLost, late, replaced, fileRequests>>
      /\ overtaken' = overtaken
      /\ fileFaults' = fileFaults /\ fileFaults \in Nat /\ etags \in Nat
      /\ req[r].op = "rendition" /\ req[r].pc = "head" /\ ~ Storing(req[r]) /\ ~ Judging(req[r])
  BY DEF FileInv, FileTypes, Storing, Judging, Completing, Files!PlanRendition, Files!At,
         Files!objects, Files!source, Files!history
<1>2. RequestTrue(req[r]) /\ req[r] \in FileRequests /\ fileRequests \in Nat \ {0}
  BY <1>1, FileFacts
<1>3. CASE Files!End(r) /\ etags' = etags
  <2>1. PICK q : Ended(r, q)
    BY <1>3, EndMoves
  <2> QED
    BY <1>1, <1>3, <2>1, EndTurns
<1>4. CASE ~(Files!End(r) /\ etags' = etags)
  <2>1. /\ ~ Files!reusableFileRendition(req[r].snap, overlay)
        /\ Files!ensureNoPendingFileRenditionForSource(req[r].snap, overlay)
        /\ etags' = etags + 1
        /\ req' = [req EXCEPT ![r].pc = "reserve", ![r].key = etags + 1, ![r].source = overlay]
    BY <1>4 DEF Files!PlanRendition
  <2>2. PICK k \in Nat : k = etags + 1
    BY <1>1
  <2>3. PICK q : q = [req[r] EXCEPT !.pc = "reserve", !.key = k, !.source = overlay]
    OBVIOUS
  <2>4. /\ q \in FileRequests /\ q.pc = "reserve" /\ q.op = "rendition" /\ q.snap = req[r].snap
        /\ q.key = k /\ q.source = overlay
    <3>1. overlay \in Nat
      BY DEF FileInv, FileTypes
    <3> QED
      BY <1>1, <1>2, <2>3, <3>1 DEF FileRequests, FilePlaces
  <2>5. req' = [req EXCEPT ![r] = q] /\ etags' = k /\ k > etags /\ 1 <= k
    <3>1. req' = [req EXCEPT ![r] = q]
      BY <2>1, <2>2, <2>3 DEF FileInv, FileTypes
    <3>2. etags' = k /\ k > etags /\ 1 <= k
      BY <1>1, <2>1, <2>2
    <3> QED
      BY <3>1, <3>2
  <2>6. Fixed /\ q.snap.version = doc.version =>
          /\ q.snap.rendition.status # "pending"
          /\ q.snap.rendition.status = "available" => q.snap.rendition.key \notin renditions
    <3>1. q.snap.version = doc.version => q.snap = doc
      BY <1>1, <1>2, <2>4 DEF RequestTrue, ReadTrue, Creators
    <3>2. Fixed /\ q.snap.version = doc.version /\ q.snap.rendition.status # "none" =>
            q.snap.rendition.source = overlay
      BY <3>1 DEF FileInv, ManifestTrue, Fixed
    <3> QED
      BY <2>1, <2>4, <3>2 DEF Files!reusableFileRendition, Files!renditionSourcesMatch,
                              Files!ensureNoPendingFileRenditionForSource
  <2>7. ReadTrue(q)'
    BY <1>1, <1>2, <2>4 DEF RequestTrue, ReadTrue, Placed, Creators
  <2>8. ContentTrue(q)'
    BY <2>4 DEF ContentTrue, Completing
  <2>9. RenditionTrue(q)'
    <3>1. k \notin replaced /\ doc.rendition.key # k
      <4>1. \A l \in replaced : l \in Nat /\ l <= etags
        BY DEF FileInv, FileTypes
      <4>2. doc.rendition.key \in Nat /\ doc.rendition.key <= etags
        BY DEF FileInv, FileTypes, FileDocs, Renditions
      <4> QED
        BY <1>1, <2>5, <4>1, <4>2
    <3>2. /\ ~ Rendering(q) /\ q.pc = "reserve" /\ 1 <= q.key /\ q.key <= etags'
          /\ q.key \notin replaced' /\ doc'.rendition.key # q.key
          /\ Fixed' => q.source = 1
      BY <1>1, <2>4, <2>5, <3>1 DEF Rendering, Fixed
    <3>3. Fixed' => Fixed
      BY <1>1 DEF Fixed
    <3> QED
      BY <1>1, <2>6, <3>2, <3>3 DEF RenditionTrue, Rendering, Fixed
  <2>10. Turn(r, q) /\ RequestTrue(q)'
    BY <1>1, <1>2, <2>4, <2>5, <2>7, <2>8, <2>9 DEF Turn, RequestTrue
  <2> QED
    BY <1>1, <2>4, <2>5, <2>10, FileTurns
<1> QED
  BY <1>3, <1>4

LEMMA StorePartKeeps ==
  ASSUME FileInv, NEW r \in FileSlots, Files!StorePart(r)
  PROVE  FileInv'
<1>1. /\ UNCHANGED <<doc, primary, upload, renditions, infected, url, overlay, requested,
                     ackLost, late, replaced, fileRequests>>
      /\ fileFaults' = fileFaults /\ fileFaults \in Nat /\ etags \in Nat /\ overtaken' = overtaken
      /\ req[r].op = "uploadPart" /\ req[r].pc = "storePart" /\ ~ Storing(req[r])
      /\ ~ Judging(req[r])
  BY DEF FileInv, FileTypes, Storing, Judging, Completing, Files!StorePart, Files!At,
         Files!source, Files!history
<1>2. RequestTrue(req[r]) /\ req[r] \in FileRequests /\ fileRequests \in Nat \ {0}
  BY <1>1, FileFacts
<1>3. CASE Files!End(r) /\ etags' = etags
  <2>1. PICK q : Ended(r, q)
    BY <1>3, EndMoves
  <2> QED
    BY <1>1, <1>3, <2>1, EndTurns
<1>4. CASE ~(Files!End(r) /\ etags' = etags)
  <2>1. /\ etags' = etags + 1
        /\ req' = [req EXCEPT ![r].pc = "execute", ![r].key = etags + 1]
    BY <1>4 DEF Files!StorePart
  <2>2. PICK k \in Nat : k = etags + 1
    BY <1>1
  <2>3. PICK q : q = [req[r] EXCEPT !.pc = "execute", !.key = k]
    OBVIOUS
  <2>4. q \in FileRequests /\ q.pc = "execute" /\ q.op = "uploadPart" /\ q.snap = req[r].snap
    BY <1>1, <1>2, <2>3 DEF FileRequests, FilePlaces
  <2>5. req' = [req EXCEPT ![r] = q] /\ etags' \in Nat /\ etags <= etags'
    <3>1. req' = [req EXCEPT ![r] = q]
      BY <2>1, <2>2, <2>3 DEF FileInv, FileTypes
    <3>2. etags' \in Nat /\ etags <= etags'
      BY <1>1, <2>1, <2>2
    <3> QED
      BY <3>1, <3>2
  <2>6. ReadTrue(q)'
    BY <1>1, <1>2, <2>4 DEF RequestTrue, ReadTrue, Placed, Creators
  <2>7. ContentTrue(q)' /\ RenditionTrue(q)' /\ ~ Keyed(q)
    BY <2>4 DEF ContentTrue, Completing, RenditionTrue, Keyed, Rendering, Fixed
  <2>8. Turn(r, q) /\ RequestTrue(q)'
    BY <1>1, <1>2, <2>4, <2>5, <2>6, <2>7 DEF Turn, RequestTrue
  <2> QED
    BY <1>1, <2>4, <2>7, <2>8, FileTurns
<1> QED
  BY <1>3, <1>4

-----------------------------------------------------------------------------
(* Document commands.                                                      *)

\* The request commits D.  What others have read is behind it, and a rendition
\* under way keeps its entry.
Commit(r, q, D) ==
  /\ q \in FileRequests /\ req' = [req EXCEPT ![r] = q]
  /\ Files!Live(doc) /\ doc' = D /\ D \in FileDocs /\ D.version = doc.version + 1
  /\ D.rendition.key <= etags
  /\ UNCHANGED <<primary, upload, renditions, infected, url, overlay, etags, fileRequests,
                 overtaken, late>>
  /\ replaced' \in SUBSET Nat /\ replaced \subseteq replaced' /\ \A k \in replaced' : k <= etags
  /\ fileFaults' \in Nat /\ (fileFaults' = 0 => fileFaults = 0)
  /\ requested' \in BOOLEAN /\ (requested => requested')
  /\ ackLost' \in BOOLEAN /\ (ackLost => ackLost')

\* What D says is so.
Sound(D) ==
  /\ D.state # "none" /\ D.multipart = doc.multipart
  /\ D.state = "upload_pending" => doc.state = "upload_pending"
  /\ D.state = "delete_requested" => requested'
  /\ D.state = "available" => ~ infected /\ (primary \/ Lost')
  /\ D.state \in {"available", "scan_failed"} => Sealed

LEMMA FileCommits ==
  ASSUME FileInv, NEW r \in FileSlots, NEW q, NEW D, Commit(r, q, D), Sound(D), req[r].pc # "idle",
         RequestTrue(q)', Keyed(q) => Keyed(req[r]) /\ q.key = req[r].key,
         \/ D.rendition = doc.rendition /\ replaced' = replaced
         \/ ackLost'
         \/ /\ Keyed(req[r]) /\ D.rendition.key = req[r].key
            /\ \A k \in replaced' :
                 k \in replaced \/ (doc.rendition.status = "available" /\ k = doc.rendition.key)
            /\ Fixed => \A s \in FileSlots \ {r} : ~ Rendering(req[s]),
         ManifestTrue', Kept', Cleaned'
  PROVE  FileInv'
<1>1. /\ req'[r] = q /\ \A s \in FileSlots : s # r => req'[s] = req[s]
      /\ req' \in [FileSlots -> FileRequests]
  BY DEF FileInv, FileTypes, Commit
<1>2. doc \in FileDocs /\ doc # Files!NoDoc /\ doc.version \in Nat /\ doc.version >= 1
      /\ fileRequests \in Nat \ {0}
  <2>1. doc # Files!NoDoc
    BY DEF Commit, Files!Live, Files!NoDoc
  <2> QED
    BY <2>1, FileFacts DEF FileInv, FileTrue, FileDocs
<1>3. D # Files!NoDoc /\ D.version \in Nat /\ D.version >= 1 /\ D.version > doc.version
  BY <1>2 DEF Commit, Files!NoDoc, FileDocs
<1>4. FileTypes'
  BY <1>1 DEF FileInv, FileTypes, Commit
<1>5. RequestsTrue'
  <2>1. ASSUME NEW s \in FileSlots, s # r
        PROVE  RequestTrue(req[s])'
    <3>1. ReadTrue(req[s]) /\ ContentTrue(req[s]) /\ RenditionTrue(req[s]) /\ req'[s] = req[s]
          /\ req[s].snap.version \in Nat
      BY <1>1, <2>1 DEF FileInv, RequestsTrue, FileTypes, FileRequests, FileDocs
    <3>2. ReadTrue(req[s])'
      <4>1. /\ doc' = D /\ (requested => requested')
            /\ D.state = "upload_pending" => doc.state = "upload_pending"
        BY DEF Commit, Sound
      <4>2. req[s].snap.version <= doc.version => req[s].snap.version < D.version
        BY <1>2, <1>3, <3>1
      <4> QED
        BY <1>2, <1>3, <3>1, <4>1, <4>2 DEF ReadTrue, Placed
    <3>3. ContentTrue(req[s])'
      BY <1>2, <1>3, <3>1 DEF Commit, ContentTrue, Completing, Sealed, Lost
    <3>4. RenditionTrue(req[s])'
      <4>1. req[s].pc = "reserve" => req[s].snap.version # D.version
        <5>1. req[s].pc = "reserve" => req[s].snap.version <= doc.version
          BY <3>1 DEF ReadTrue, Placed, Creators
        <5> QED
          BY <1>2, <1>3, <3>1, <5>1
      <4>2. Rendering(req[s]) /\ ~ackLost' /\ Fixed => D.rendition = doc.rendition
        BY <2>1
      <4>3. Keyed(req[s]) /\ ~ackLost' =>
              /\ req[s].key \notin replaced'
              /\ D.rendition.key = req[s].key => D.rendition.status = "pending"
        <5>1. Keyed(req[s]) /\ ~ackLost' =>
                /\ req[s].key \notin replaced
                /\ doc.rendition.key = req[s].key => doc.rendition.status = "pending"
          BY <3>1 DEF RenditionTrue, Commit
        <5>2. Keyed(req[s]) /\ Keyed(req[r]) => req[s].key # req[r].key
          BY <2>1 DEF FileInv, RequestsApart
        <5> QED
          BY <5>1, <5>2
      <4>4. /\ doc' = D /\ UNCHANGED <<overlay, etags, renditions>> /\ (ackLost => ackLost')
            /\ (requested => requested') /\ (fileFaults' = 0 => fileFaults = 0)
        BY DEF Commit
      <4> QED
        BY <3>1, <4>1, <4>2, <4>3, <4>4 DEF RenditionTrue, Keyed, Rendering, Fixed
    <3> QED
      BY <3>2, <3>3, <3>4 DEF RequestTrue
  <2>2. RequestTrue(req[r])'
    BY <1>1 DEF RequestTrue, ReadTrue, ContentTrue, RenditionTrue, Placed, Completing, Sealed,
                Lost, Keyed, Rendering, Fixed
  <2> QED
    BY <2>1, <2>2 DEF RequestsTrue, RequestTrue
<1>6. RequestsApart'
  <2> SUFFICES ASSUME NEW s \in FileSlots, NEW t \in FileSlots, s # t
               PROVE  Keyed(req'[s]) /\ Keyed(req'[t]) => req'[s].key # req'[t].key
    BY <1>3 DEF RequestsApart, Keyed, Rendering, Fixed, Commit
  <2>1. Keyed(req[s]) /\ Keyed(req[t]) => req[s].key # req[t].key
    BY DEF FileInv, RequestsApart
  <2> QED
    BY <1>1, <2>1
<1>7. FileTrue'
  BY <1>2, <1>3 DEF FileInv, FileTrue, Commit, Sound, Sealed, Lost
<1> QED
  BY <1>4, <1>5, <1>6, <1>7 DEF FileInv

LEMMA ExecuteIs ==
  ASSUME doc \in FileDocs, NEW P \in FileDocs, NEW D, D = [P EXCEPT !.version = doc.version + 1]
  PROVE  /\ D \in FileDocs /\ D.version = doc.version + 1 /\ D.state = P.state
         /\ D.deleted = P.deleted /\ D.rendition = P.rendition /\ D.multipart = P.multipart
<1>1. PICK n \in Nat : n = doc.version + 1
  BY DEF FileDocs
<1>2. D = [P EXCEPT !.version = n]
  BY <1>1
<1>3. /\ D \in FileDocs /\ D.version = n /\ D.state = P.state
      /\ D.deleted = P.deleted /\ D.rendition = P.rendition /\ D.multipart = P.multipart
  BY <1>2 DEF FileDocs
<1> QED
  BY <1>1, <1>3

\* A command that leaves the manifest alone.
LEMMA FileEdits ==
  ASSUME FileInv, NEW r \in FileSlots, NEW q, NEW D, Commit(r, q, D), Sound(D),
         req[r].pc \notin {"idle", "cleanup"}, ~ Keyed(req[r]),
         D.rendition = doc.rendition, D.deleted = doc.deleted,
         UNCHANGED <<ackLost, fileFaults, replaced>>,
         q.op = "completeMultipart" /\ q.pc # "idle" => D.state # "upload_pending",
         infected /\ D.state = "scan_failed" => doc.state = "scan_failed" \/ q.pc = "cleanup",
         infected /\ primary
           /\ (Judging(req[r]) \/ (doc.state = "upload_pending" /\ D.state # "upload_pending"))
           => q.pc = "cleanup" \/ Judging(q),
         \/ q.pc = "idle"
         \/ /\ q.op = req[r].op /\ q.snap = req[r].snap
            /\ \/ q.op = "completeMultipart" /\ q.pc = "reread"
               \/ q.op = "delete" /\ q.pc = "reread" /\ requested'
               \/ q.op \in {"completeDirect", "completeMultipart"} /\ q.pc = "cleanup" /\ infected
  PROVE  FileInv'
<1>1. /\ req'[r] = q /\ \A s \in FileSlots : s # r => req'[s] = req[s]
      /\ doc' = D /\ doc # Files!NoDoc /\ Files!Live(doc)
  BY DEF FileInv, FileTypes, Commit, Files!Live, Files!NoDoc
<1>2. doc \in FileDocs /\ RequestTrue(req[r]) /\ req[r] \in FileRequests
  BY FileFacts
<1>3. doc.version \in Nat /\ D.version = doc.version + 1 /\ req[r].snap.version \in Nat
  BY <1>2 DEF Commit, FileDocs, FileRequests
<1>4. D # Files!NoDoc
  BY DEF Sound, Files!NoDoc
<1>5. ~ Keyed(q) /\ ~ Storing(q)
  BY DEF Keyed, Rendering, Fixed, Storing
<1>6. RequestTrue(q)'
  <2>1. ReadTrue(q)'
    <3>1. q.pc # "idle" => /\ 1 <= q.snap.version /\ q.snap.version <= doc.version
                           /\ q.snap.version \in Nat
      BY <1>2, <1>3 DEF RequestTrue, ReadTrue, Creators
    <3>2. q.pc # "idle" => 1 <= q.snap.version /\ q.snap.version < D.version
      BY <1>3, <3>1
    <3> QED
      BY <1>1, <1>3, <1>4, <3>1, <3>2 DEF ReadTrue, Placed, Creators
  <2>2. ContentTrue(q)'
    BY <1>2 DEF RequestTrue, ContentTrue, Completing, Lost, Commit
  <2>3. RenditionTrue(q)'
    BY <1>5 DEF RenditionTrue, Keyed, Rendering
  <2> QED
    BY <2>1, <2>2, <2>3 DEF RequestTrue
<1>7. ManifestTrue'
  BY <1>1 DEF FileInv, ManifestTrue, Commit, Sound, Fixed
<1>8. Kept'
  <2>1. \A s \in FileSlots : req'[s].op = "delete" /\ req'[s].pc = "remove" =>
          req'[s].snap.version # D.version
    <3>1. \A s \in FileSlots : req[s].op = "delete" /\ req[s].pc = "remove" =>
            req[s].snap.version <= doc.version /\ req[s].snap.version \in Nat
      BY DEF FileInv, RequestsTrue, ReadTrue, Creators, FileTypes, FileRequests, FileDocs
    <3> QED
      BY <1>1, <1>3, <3>1
  <2>2. Files!Live(D) /\ D.rendition = doc.rendition /\ UNCHANGED <<renditions, fileFaults>>
    BY <1>1 DEF Files!Live, Sound, Commit
  <2>3. \A k : Excused(k) => Excused(k)'
    <3>1. \A s \in FileSlots : Storing(req[s]) => req'[s] = req[s]
      BY <1>1 DEF Storing, Keyed, Rendering
    <3>2. UNCHANGED <<overlay, replaced>>
      BY DEF Commit
    <3> QED
      BY <3>1, <3>2 DEF Excused, Stored, Storing, Fixed
  <2>4. Kept /\ doc' = D
    BY <1>1 DEF FileInv
  <2> QED
    BY <2>1, <2>2, <2>3, <2>4 DEF Kept
<1>9. Cleaned'
  <2> SUFFICES ASSUME fileFaults' = 0, infected, primary, ~late PROVE Cleaned'
    BY DEF Cleaned, Commit
  <2>1. Cleaned /\ fileFaults = 0 /\ doc' = D /\ overtaken' = overtaken /\ D.state # "none"
    BY <1>1 DEF FileInv, Commit, Sound
  <2>2. /\ doc.state = "scan_failed" => \E s \in FileSlots : req[s].pc = "cleanup"
        /\ \/ doc.state = "upload_pending"
           \/ overtaken
           \/ \E s \in FileSlots : req[s].pc = "cleanup" \/ Judging(req[s])
    BY <2>1 DEF Cleaned
  <2>3. D.state = "scan_failed" => \E s \in FileSlots : req'[s].pc = "cleanup"
    BY <1>1, <2>2
  <2>4. \/ D.state = "upload_pending"
        \/ overtaken
        \/ \E s \in FileSlots : req'[s].pc = "cleanup" \/ Judging(req'[s])
    BY <1>1, <2>2
  <2> QED
    BY <2>1, <2>3, <2>4 DEF Cleaned, Judging, Completing
<1> QED
  BY <1>5, <1>6, <1>7, <1>8, <1>9, FileCommits

\* completeDirectUpload, completeMultipartUpload and failScan.
LEMMA ExecuteCompletionKeeps ==
  ASSUME FileInv, NEW r \in FileSlots, Files!ExecuteCompletion(r)
  PROVE  FileInv'
<1>1. doc \in FileDocs /\ RequestTrue(req[r]) /\ etags \in Nat
  BY FileFacts DEF FileInv, FileTypes
<1>2. /\ req[r].op \in {"completeDirect", "completeMultipart"} /\ req[r].pc = "execute"
      /\ Files!Live(doc) /\ doc' = [[doc EXCEPT !.state = Files!completedState]
                                      EXCEPT !.version = doc.version + 1]
      /\ UNCHANGED <<primary, upload, renditions, infected, url, overlay, etags, fileRequests,
                     fileFaults, requested, ackLost, overtaken, late, replaced>>
  BY DEF Files!ExecuteCompletion, Files!execute, Files!Accepts, Files!objects, Files!source,
         Files!counters, Files!history
<1>3. [doc EXCEPT !.state = Files!completedState] \in FileDocs
  BY <1>1 DEF FileDocs, DocStates, Files!completedState
<1>4. PICK D : D = doc'
  OBVIOUS
<1>5. /\ D \in FileDocs /\ D.version = doc.version + 1 /\ D.state = Files!completedState
      /\ D.deleted = doc.deleted /\ D.rendition = doc.rendition /\ D.multipart = doc.multipart
  <2>1. /\ D \in FileDocs /\ D.version = doc.version + 1
        /\ D.state = [doc EXCEPT !.state = Files!completedState].state
        /\ D.deleted = [doc EXCEPT !.state = Files!completedState].deleted
        /\ D.rendition = [doc EXCEPT !.state = Files!completedState].rendition
        /\ D.multipart = [doc EXCEPT !.state = Files!completedState].multipart
    BY <1>1, <1>2, <1>3, <1>4, ExecuteIs
  <2> QED
    BY <1>1, <2>1 DEF FileDocs
<1>6. PICK place \in FilePlaces : place = IF infected THEN "cleanup" ELSE "idle"
  BY DEF FilePlaces
<1>7. PICK q : Moved(r, q, place) \/ (place = "idle" /\ Ended(r, q))
  BY <1>6, GotoOrEndMoves DEF Files!ExecuteCompletion
<1>8. Commit(r, q, D)
  BY <1>1, <1>2, <1>4, <1>5, <1>7 DEF FileInv, FileTypes, Commit, Moved, Ended
<1>9. Sound(D)
  BY <1>1, <1>2, <1>5 DEF Sound, RequestTrue, ContentTrue, Completing, Lost, Files!completedState
<1>10. ~ Keyed(req[r])
  BY <1>2 DEF Keyed, Rendering, Fixed
<1>11. \/ q.pc = "idle" /\ ~ infected
       \/ /\ q.op = req[r].op /\ q.snap = req[r].snap
          /\ q.op \in {"completeDirect", "completeMultipart"} /\ q.pc = "cleanup" /\ infected
  BY <1>2, <1>6, <1>7 DEF Moved, Ended
<1>12. D.state # "upload_pending"
  BY <1>5 DEF Files!completedState
<1> QED
  BY <1>2, <1>5, <1>8, <1>9, <1>10, <1>11, <1>12, FileEdits

LEMMA EditsKeep ==
  ASSUME FileInv, NEW r \in FileSlots,
         \/ Files!RecordPart(r) \/ Files!BeginMultipartUploadCompletion(r)
         \/ Files!ExecuteMetadataUpdate(r) \/ Files!RequestDelete(r)
  PROVE  FileInv'
<1>1. doc \in FileDocs /\ RequestTrue(req[r]) /\ etags \in Nat /\ req[r] \in FileRequests
  BY FileFacts DEF FileInv, FileTypes
<1>2. PICK P : /\ P \in FileDocs /\ P.deleted = doc.deleted /\ P.rendition = doc.rendition
               /\ P.multipart = doc.multipart
               /\ Files!Live(doc) /\ doc' = [P EXCEPT !.version = doc.version + 1]
               /\ \/ P.state = doc.state /\ req[r].op \notin {"completeMultipart", "delete"}
                  \/ P.state = "upload_completing" /\ req[r].op = "completeMultipart"
                  \/ P.state = "delete_requested" /\ requested' /\ req[r].op = "delete"
  <2>1. CASE Files!RecordPart(r)
    <3>1. PICK P : P = [doc EXCEPT !.part = req[r].key]
      OBVIOUS
    <3>2. /\ P \in FileDocs /\ P.deleted = doc.deleted /\ P.rendition = doc.rendition
          /\ P.state = doc.state /\ P.multipart = doc.multipart
      BY <1>1, <3>1 DEF FileDocs, FileRequests
    <3>3. /\ Files!Live(doc) /\ doc' = [P EXCEPT !.version = doc.version + 1]
          /\ req[r].op = "uploadPart"
      BY <2>1, <3>1 DEF Files!RecordPart, Files!execute, Files!Accepts, Files!At
    <3> QED
      BY <3>2, <3>3
  <2>2. CASE Files!BeginMultipartUploadCompletion(r)
    <3>1. PICK P : P = [doc EXCEPT !.state = "upload_completing"]
      OBVIOUS
    <3>2. /\ P \in FileDocs /\ P.deleted = doc.deleted /\ P.rendition = doc.rendition
          /\ P.state = "upload_completing" /\ P.multipart = doc.multipart
      BY <1>1, <3>1 DEF FileDocs, DocStates
    <3>3. /\ Files!Live(doc) /\ doc' = [P EXCEPT !.version = doc.version + 1]
          /\ req[r].op = "completeMultipart"
      BY <2>2, <3>1 DEF Files!BeginMultipartUploadCompletion, Files!execute, Files!Accepts, Files!At
    <3> QED
      BY <3>2, <3>3
  <2>3. CASE Files!ExecuteMetadataUpdate(r)
    BY <1>1, <2>3 DEF Files!ExecuteMetadataUpdate, Files!execute, Files!Accepts, Files!At
  <2>4. CASE Files!RequestDelete(r)
    <3>1. PICK P : P = [doc EXCEPT !.state = "delete_requested"]
      OBVIOUS
    <3>2. /\ P \in FileDocs /\ P.deleted = doc.deleted /\ P.rendition = doc.rendition
          /\ P.state = "delete_requested" /\ P.multipart = doc.multipart
      BY <1>1, <3>1 DEF FileDocs, DocStates
    <3>3. /\ Files!Live(doc) /\ doc' = [P EXCEPT !.version = doc.version + 1] /\ requested'
          /\ req[r].op = "delete"
      BY <2>4, <3>1 DEF Files!RequestDelete, Files!execute, Files!Accepts, Files!At
    <3> QED
      BY <3>2, <3>3
  <2> QED
    BY <2>1, <2>2, <2>3, <2>4
<1>3. PICK D : D = doc'
  OBVIOUS
<1>4. /\ D \in FileDocs /\ D.version = doc.version + 1 /\ D.state = P.state
      /\ D.deleted = P.deleted /\ D.rendition = P.rendition /\ D.multipart = P.multipart
  BY <1>1, <1>2, <1>3, ExecuteIs
<1>5. /\ UNCHANGED <<primary, upload, renditions, infected, url, overlay, etags, fileRequests,
                     fileFaults, ackLost, overtaken, late, replaced>>
      /\ requested' = requested \/ requested' = TRUE
      /\ req[r].pc \in {"execute", "begin", "request"} /\ req[r].op # "rendition"
      /\ req[r].op \in {"completeDirect", "completeMultipart"} => req[r].pc = "begin"
  BY DEF Files!RecordPart, Files!BeginMultipartUploadCompletion, Files!ExecuteMetadataUpdate,
         Files!RequestDelete, Files!At, Files!objects, Files!source, Files!counters, Files!history
<1>6. PICK q : /\ q \in FileRequests /\ req' = [req EXCEPT ![r] = q]
               /\ \/ q.pc = "idle" /\ req[r].op \notin {"completeMultipart", "delete"}
                  \/ /\ q.op = req[r].op /\ q.snap = req[r].snap /\ q.pc = "reread"
                     /\ q.op = "completeMultipart" \/ (q.op = "delete" /\ requested')
  <2>1. CASE Files!RecordPart(r) \/ Files!ExecuteMetadataUpdate(r)
    BY <2>1, EndMoves DEF Files!RecordPart, Files!ExecuteMetadataUpdate, Ended, Files!At
  <2>2. CASE Files!BeginMultipartUploadCompletion(r) \/ Files!RequestDelete(r)
    <3>1. Files!Goto(r, "reread") /\ (req[r].op = "completeMultipart" \/ (req[r].op = "delete" /\ requested'))
      BY <2>2 DEF Files!BeginMultipartUploadCompletion, Files!RequestDelete, Files!At
    <3>2. PICK q : Moved(r, q, "reread")
      BY <3>1, GotoMoves DEF FilePlaces
    <3> QED
      BY <3>1, <3>2 DEF Moved
  <2> QED
    BY <2>1, <2>2
<1>7. Commit(r, q, D)
  <2>1. /\ requested' \in BOOLEAN /\ (requested => requested') /\ ackLost' \in BOOLEAN
        /\ fileFaults' \in Nat /\ (fileFaults' = 0 => fileFaults = 0) /\ (ackLost => ackLost')
    <3>1. requested \in BOOLEAN /\ ackLost \in BOOLEAN /\ fileFaults \in Nat
      BY DEF FileInv, FileTypes
    <3>2. CASE requested' = requested
      BY <1>5, <3>1, <3>2
    <3>3. CASE requested' = TRUE
      BY <1>5, <3>1, <3>3
    <3> QED
      BY <1>5, <3>2, <3>3
  <2>2. D.rendition.key <= etags /\ doc' = D /\ Files!Live(doc)
    BY <1>2, <1>3, <1>4 DEF FileInv, FileTypes
  <2>3. replaced' \in SUBSET Nat /\ replaced \subseteq replaced' /\ \A k \in replaced' : k <= etags
    BY <1>5 DEF FileInv, FileTypes
  <2> QED
    BY <1>4, <1>5, <1>6, <2>1, <2>2, <2>3 DEF Commit
<1>8. Sound(D)
  <2>1. /\ doc.state # "none"
        /\ doc.state = "delete_requested" => requested
        /\ doc.state = "available" => ~infected /\ (primary \/ Lost)
        /\ doc.state \in {"available", "scan_failed"} => Sealed
    BY <1>2 DEF FileInv, FileTrue, Files!Live
  <2>2. (requested => requested') /\ (Lost => Lost')
    BY <1>5 DEF Lost
  <2>3. \/ D.state = doc.state
        \/ D.state = "upload_completing"
        \/ D.state = "delete_requested" /\ requested'
    BY <1>2, <1>4
  <2>4. D.multipart = doc.multipart
    BY <1>2, <1>4
  <2> QED
    BY <2>1, <2>2, <2>3, <2>4 DEF Sound
<1>9. ~ Keyed(req[r]) /\ ~ Judging(req[r])
  BY <1>5 DEF Keyed, Rendering, Judging, Completing
<1>10. infected /\ primary /\ doc.state = "upload_pending" /\ D.state # "upload_pending" =>
         q.pc = "cleanup" \/ Judging(q)
  <2>1. CASE req[r].op = "delete"
    BY <1>6, <2>1 DEF Judging
  <2>2. CASE req[r].op = "completeMultipart"
    <3>1. url = "none"
      BY <1>1, <1>5, <2>2 DEF RequestTrue, ContentTrue
    <3> QED
      BY <3>1 DEF FileInv, FileTrue
  <2> QED
    BY <1>2, <1>4, <2>1, <2>2
<1>11. /\ q.op = "completeMultipart" /\ q.pc # "idle" => D.state # "upload_pending"
       /\ infected /\ D.state = "scan_failed" => doc.state = "scan_failed" \/ q.pc = "cleanup"
  BY <1>2, <1>4, <1>6
<1> QED
  BY <1>2, <1>4, <1>5, <1>6, <1>7, <1>8, <1>9, <1>10, <1>11, FileEdits

\* A command that is accepted at the version it read finds the document it read.
LEMMA AcceptedIs ==
  ASSUME FileInv, NEW r \in FileSlots, Files!Accepts(Files!expectedVersion(r)),
         req[r].op \in {"rendition", "delete", "abort"}, req[r].pc \notin {"idle", "begin"}
  PROVE  req[r].snap = doc /\ Files!Live(doc)
<1>1. Files!expectedVersion(r) = req[r].snap.version
  BY DEF Files!expectedVersion
<1>2. 1 <= req[r].snap.version /\ (req[r].snap.version = doc.version => req[r].snap = doc)
  BY FileFacts DEF RequestTrue, ReadTrue, Creators
<1>3. req[r].snap.version # Files!NoVersion
  BY <1>2 DEF Files!NoVersion
<1> QED
  BY <1>1, <1>2, <1>3 DEF Files!Accepts

\* The state of the file stays as it is.
LEMMA StateStays ==
  ASSUME FileInv, NEW D, D.state = doc.state, D.multipart = doc.multipart, Files!Live(doc),
         requested => requested', Lost => Lost'
  PROVE  Sound(D)
BY DEF FileInv, FileTrue, Sound, Files!Live

\* The entry of another attempt, if it was available, counts as replaced.
Replaces(r) ==
  /\ \A k \in replaced' :
       k \in replaced \/ (doc.rendition.status = "available" /\ k = doc.rendition.key)
  /\ doc.rendition.status = "available" /\ doc.rendition.key # req[r].key =>
       doc.rendition.key \in replaced'

\* The entry is replaced: nobody else has a claim on it, or the overlay changed.
LEMMA ManifestCommits ==
  ASSUME FileInv, NEW r \in FileSlots, NEW q, NEW D, Commit(r, q, D), Keyed(req[r]),
         D.state = doc.state, D.deleted = doc.deleted, D.multipart = doc.multipart,
         D.rendition.key = req[r].key, Replaces(r),
         RequestTrue(q)', q.op = "delete" => q.pc # "remove",
         Keyed(q) => q.key = req[r].key,
         ackLost' \/ (Fixed => \A s \in FileSlots \ {r} : ~ Rendering(req[s])),
         fileFaults' = 0 /\ Storing(req[r]) => D.rendition.status = "available",
         fileFaults' = 0 /\ Fixed /\ doc.rendition.status = "available" =>
           doc.rendition.key \notin renditions,
         fileFaults' = 0 /\ doc.rendition.status = "available" => doc.rendition.key # req[r].key,
         ManifestTrue'
  PROVE  FileInv'
<1>1. /\ req'[r] = q /\ (\A s \in FileSlots : s # r => req'[s] = req[s])
      /\ doc' = D /\ Files!Live(doc) /\ D.version = doc.version + 1
      /\ UNCHANGED <<infected, primary>> /\ (fileFaults' = 0 => fileFaults = 0)
  BY DEF FileInv, FileTypes, Commit
<1>2. doc.version \in Nat /\ req[r].pc \notin {"idle", "cleanup"} /\ ~ Judging(req[r])
  BY FileFacts DEF FileDocs, Keyed, Rendering, Judging, Completing
<1>3. Sound(D)
  BY <1>1, StateStays DEF Commit, Lost
<1>4. Kept'
  <2>1. \A s \in FileSlots : req'[s].op = "delete" /\ req'[s].pc = "remove" =>
          req'[s].snap.version # D.version
    <3>1. \A s \in FileSlots : req[s].op = "delete" /\ req[s].pc = "remove" =>
            req[s].snap.version <= doc.version /\ req[s].snap.version \in Nat
      BY DEF FileInv, RequestsTrue, ReadTrue, Creators, FileTypes, FileRequests, FileDocs
    <3> QED
      BY <1>1, <1>2, <3>1
  <2>2. Files!Live(D) /\ UNCHANGED renditions
    BY <1>1 DEF Files!Live, Commit
  <2>3. ASSUME fileFaults' = 0, NEW k \in renditions
        PROVE  (D.rendition.status = "available" /\ D.rendition.key = k) \/ Excused(k)'
    <3>1. fileFaults = 0 /\ (Fixed' <=> Fixed) /\ replaced \subseteq replaced'
      BY <1>1, <2>3 DEF Commit, Fixed
    <3>2. CASE doc.rendition.status = "available" /\ doc.rendition.key = k
      <4>1. ~ Fixed /\ k \in replaced'
        BY <2>3, <3>2 DEF Replaces
      <4> QED
        BY <3>1, <4>1 DEF Excused, Fixed
    <3>3. CASE Stored(k)
      <4>1. PICK s \in FileSlots : Storing(req[s]) /\ req[s].key = k
        BY <3>3 DEF Stored
      <4>2. CASE s = r
        BY <2>3, <4>1, <4>2
      <4>3. CASE s # r
        BY <1>1, <4>1, <4>3 DEF Excused, Stored, Storing
      <4> QED
        BY <4>2, <4>3
    <3>4. CASE ~ Fixed /\ k \in replaced
      BY <3>1, <3>4 DEF Excused, Fixed
    <3> QED
      BY <3>1, <3>2, <3>3, <3>4 DEF FileInv, Kept, Excused
  <2> QED
    BY <1>1, <2>1, <2>2, <2>3 DEF Kept
<1>5. Cleaned'
  <2> SUFFICES ASSUME fileFaults' = 0, infected, primary, ~late PROVE Cleaned'
    BY DEF Cleaned, Commit
  <2>1. /\ doc.state = "scan_failed" => \E s \in FileSlots : req[s].pc = "cleanup"
        /\ \/ doc.state = "upload_pending"
           \/ overtaken /\ doc.state # "none"
           \/ \E s \in FileSlots : req[s].pc = "cleanup" \/ Judging(req[s])
    BY <1>1 DEF FileInv, Cleaned
  <2>2. D.state = "scan_failed" => \E s \in FileSlots : req'[s].pc = "cleanup"
    BY <1>1, <1>2, <2>1
  <2>3. \/ D.state = "upload_pending"
        \/ overtaken /\ D.state # "none"
        \/ \E s \in FileSlots : req'[s].pc = "cleanup" \/ Judging(req'[s])
    BY <1>1, <1>2, <2>1
  <2>4. overtaken' = overtaken
    BY DEF Commit
  <2> QED
    BY <1>1, <2>2, <2>3, <2>4 DEF Cleaned, Judging, Completing
<1>6. \/ ackLost'
      \/ /\ Keyed(req[r]) /\ D.rendition.key = req[r].key
         /\ \A k \in replaced' :
              k \in replaced \/ (doc.rendition.status = "available" /\ k = doc.rendition.key)
         /\ Fixed => \A s \in FileSlots \ {r} : ~ Rendering(req[s])
  BY DEF Replaces
<1> QED
  BY <1>2, <1>3, <1>4, <1>5, <1>6, FileCommits

\* One rendition at a time is under way while the overlay stays.
LEMMA OneRendition ==
  ASSUME FileInv, NEW r \in FileSlots, NEW s \in FileSlots \ {r}, ~ackLost, Fixed,
         Rendering(req[s])
  PROVE  doc.rendition.status = "pending" /\ ~ Rendering(req[r])
<1>1. Keyed(req[s]) /\ doc.rendition.status = "pending" /\ doc.rendition.key = req[s].key
  BY DEF FileInv, RequestsTrue, RenditionTrue, Keyed
<1>2. Rendering(req[r]) => Keyed(req[r]) /\ doc.rendition.key = req[r].key
  BY DEF FileInv, RequestsTrue, RenditionTrue, Keyed
<1> QED
  BY <1>1, <1>2 DEF FileInv, RequestsApart

\* The commit of a rendition's entry.
LEMMA EntryIs ==
  ASSUME FileInv, NEW r \in FileSlots, req[r].op = "rendition", req[r].pc # "idle", Keyed(req[r]),
         NEW status \in {"pending", "available", "failed"}, NEW D,
         Files!upsertFileRenditionManifest(r, status), D = doc'
  PROVE  /\ D \in FileDocs /\ D.version = doc.version + 1 /\ D.state = doc.state
         /\ D.deleted = doc.deleted /\ D.multipart = doc.multipart
         /\ D.rendition.status = status /\ D.rendition.key = req[r].key
         /\ D.rendition.source = req[r].source
         /\ Files!Live(doc) /\ req[r].snap = doc /\ D.rendition.key <= etags /\ Replaces(r)
         /\ replaced' \in SUBSET Nat /\ replaced \subseteq replaced'
         /\ \A k \in replaced' : k <= etags
<1>1. doc \in FileDocs /\ req[r] \in FileRequests /\ RequestTrue(req[r])
  BY FileFacts
<1>2. PICK P : P = [doc EXCEPT !.rendition = Files!Entry(r, status)]
  OBVIOUS
<1>3. /\ P \in FileDocs /\ P.state = doc.state /\ P.deleted = doc.deleted
      /\ P.multipart = doc.multipart
      /\ P.rendition = [status |-> status, key |-> req[r].key, source |-> req[r].source]
  BY <1>1, <1>2 DEF FileDocs, Renditions, FileRequests, Files!Entry
<1>4. /\ D = [P EXCEPT !.version = doc.version + 1] /\ Files!Live(doc)
      /\ Files!Accepts(Files!expectedVersion(r))
  BY <1>2 DEF Files!upsertFileRenditionManifest, Files!execute, Files!Accepts
<1>5. req[r].snap = doc
  BY <1>4, AcceptedIs DEF Keyed, Rendering
<1>6. req[r].key <= etags
  BY <1>1 DEF RequestTrue, RenditionTrue
<1>7. Replaces(r) /\ replaced \subseteq replaced'
  BY DEF Files!upsertFileRenditionManifest, Replaces
<1>8. replaced' \in SUBSET Nat /\ \A k \in replaced' : k <= etags
  BY <1>1, <1>7 DEF Replaces, FileInv, FileTypes, FileDocs, Renditions
<1> QED
  BY <1>1, <1>3, <1>4, <1>5, <1>6, <1>7, <1>8, ExecuteIs

\* The pending entry is a lock: nothing of an earlier attempt is left when it is taken.
LEMMA ReserveKeeps ==
  ASSUME FileInv, NEW r \in FileSlots, Files!ReserveRendition(r)
  PROVE  FileInv'
<1>1. /\ req[r].op = "rendition" /\ req[r].pc = "reserve" /\ Files!Goto(r, "transform")
      /\ Files!upsertFileRenditionManifest(r, "pending")
      /\ UNCHANGED <<primary, upload, renditions, infected, url, overlay, etags, fileRequests,
                     fileFaults, requested, ackLost, overtaken, late>>
  BY DEF Files!ReserveRendition, Files!At, Files!objects, Files!source, Files!counters, Files!history
<1>2. PICK D : D = doc'
  OBVIOUS
<1>3. /\ D \in FileDocs /\ D.version = doc.version + 1 /\ D.state = doc.state
      /\ D.deleted = doc.deleted /\ D.multipart = doc.multipart
      /\ D.rendition.status = "pending" /\ D.rendition.key = req[r].key
      /\ D.rendition.source = req[r].source
      /\ Files!Live(doc) /\ req[r].snap = doc /\ D.rendition.key <= etags /\ Replaces(r)
      /\ replaced' \in SUBSET Nat /\ replaced \subseteq replaced'
      /\ \A k \in replaced' : k <= etags
  BY <1>1, <1>2, EntryIs DEF Keyed
<1>4. PICK q : Moved(r, q, "transform")
  BY <1>1, GotoMoves DEF FilePlaces
<1>5. /\ q.pc = "transform" /\ q.op = "rendition" /\ q.snap = doc /\ q.key = req[r].key
      /\ q.source = req[r].source
  BY <1>1, <1>3, <1>4 DEF Moved
<1>6. RequestTrue(req[r]) /\ doc \in FileDocs /\ doc.version \in Nat
  BY FileFacts DEF FileDocs
<1>7. Commit(r, q, D)
  BY <1>1, <1>2, <1>3, <1>4 DEF FileInv, FileTypes, Commit, Moved
<1>8. doc.state = "available" /\ doc # Files!NoDoc /\ doc.version >= 1
  BY <1>1, <1>3, <1>6 DEF RequestTrue, ReadTrue, Creators
<1>9. /\ fileFaults = 0 => ~ackLost
      /\ Keyed(req[r]) /\ ~ Storing(req[r]) /\ (Fixed => req[r].source = 1)
      /\ ~ackLost => /\ doc.rendition.status = "available" => doc.rendition.key # req[r].key
                     /\ req[r].key \notin replaced'
      /\ ~ackLost /\ Fixed =>
           /\ doc.rendition.status # "pending"
           /\ doc.rendition.status = "available" => doc.rendition.key \notin renditions
  <2>1. fileFaults = 0 => ~ackLost
    BY DEF FileInv, ManifestTrue
  <2>2. Keyed(req[r]) /\ ~ Storing(req[r])
    BY <1>1 DEF Keyed, Storing
  <2>3. /\ Fixed => req[r].source = 1
        /\ ~ackLost => /\ doc.rendition.key = req[r].key => doc.rendition.status = "pending"
                       /\ req[r].key \notin replaced
    BY <1>6, <2>2 DEF RequestTrue, RenditionTrue
  <2>4. ~ackLost => req[r].key \notin replaced'
    BY <1>3, <2>3 DEF Replaces
  <2>5. ~ackLost /\ Fixed =>
          /\ doc.rendition.status # "pending"
          /\ doc.rendition.status = "available" => doc.rendition.key \notin renditions
    BY <1>1, <1>3, <1>6 DEF RequestTrue, RenditionTrue
  <2> QED
    BY <2>1, <2>2, <2>3, <2>4, <2>5
<1>10. ManifestTrue'
  <2>1. Fixed' <=> Fixed
    BY <1>1 DEF Fixed
  <2> QED
    BY <1>1, <1>2, <1>3, <1>8, <1>9, <2>1 DEF ManifestTrue
<1>11. RequestTrue(q)'
  <2>1. ReadTrue(q)'
    <3>1. D.version > doc.version /\ D # Files!NoDoc
      BY <1>3, <1>6, <1>8 DEF Files!NoDoc
    <3> QED
      BY <1>2, <1>3, <1>5, <1>6, <1>8, <3>1 DEF ReadTrue, Placed, Creators
  <2>2. ContentTrue(q)'
    BY <1>5 DEF ContentTrue, Completing
  <2>3. RenditionTrue(q)'
    <3>1. 1 <= req[r].key /\ req[r].key <= etags
      BY <1>1, <1>6 DEF RequestTrue, RenditionTrue, Keyed
    <3>2. Fixed' <=> Fixed
      BY <1>1 DEF Fixed
    <3> QED
      BY <1>1, <1>2, <1>3, <1>5, <1>9, <3>1, <3>2 DEF RenditionTrue, Keyed, Rendering
  <2> QED
    BY <2>1, <2>2, <2>3 DEF RequestTrue
<1>12. ackLost' \/ (Fixed => \A s \in FileSlots \ {r} : ~ Rendering(req[s]))
  BY <1>1, <1>9, OneRendition
<1> QED
  BY <1>1, <1>3, <1>5, <1>7, <1>9, <1>10, <1>11, <1>12, ManifestCommits

LEMMA RecordsKeep ==
  ASSUME FileInv, NEW r \in FileSlots, Files!RecordRendition(r) \/ Files!RecordFailedRendition(r)
  PROVE  FileInv'
<1>1. PICK status \in {"available", "failed"} :
        /\ req[r].op = "rendition" /\ Files!End(r)
        /\ \/ status = "available" /\ req[r].pc = "execute"
           \/ status = "failed" /\ req[r].pc = "executeFailed"
        /\ Files!upsertFileRenditionManifest(r, status)
        /\ UNCHANGED <<primary, upload, renditions, infected, url, overlay, etags, fileRequests,
                       fileFaults, requested, ackLost, overtaken, late>>
  BY DEF Files!RecordRendition, Files!RecordFailedRendition, Files!At, Files!objects, Files!source,
         Files!counters, Files!history
<1>2. PICK D : D = doc'
  OBVIOUS
<1>3. Rendering(req[r]) /\ Keyed(req[r]) /\ req[r].pc # "idle"
  BY <1>1 DEF Rendering, Keyed
<1>4. /\ D \in FileDocs /\ D.version = doc.version + 1 /\ D.state = doc.state
      /\ D.deleted = doc.deleted /\ D.multipart = doc.multipart
      /\ D.rendition.status = status /\ D.rendition.key = req[r].key
      /\ D.rendition.source = req[r].source
      /\ Files!Live(doc) /\ D.rendition.key <= etags /\ Replaces(r)
      /\ replaced' \in SUBSET Nat /\ replaced \subseteq replaced'
      /\ \A k \in replaced' : k <= etags
  BY <1>1, <1>2, <1>3, EntryIs
<1>5. PICK q : Ended(r, q)
  BY <1>1, EndMoves
<1>6. RequestTrue(q)' /\ ~ Keyed(q) /\ q.pc = "idle"
  BY <1>5 DEF Ended, RequestTrue, ReadTrue, ContentTrue, RenditionTrue, Placed, Keyed, Rendering, Fixed,
              Completing
<1>7. Commit(r, q, D)
  BY <1>1, <1>2, <1>4, <1>5 DEF FileInv, FileTypes, Commit, Ended
<1>8. /\ RequestTrue(req[r]) /\ (fileFaults = 0 => ~ackLost)
      /\ Fixed => req[r].source = 1
      /\ ~ackLost /\ doc.rendition.status = "available" => doc.rendition.key # req[r].key
      /\ ~ackLost /\ Fixed => doc.rendition.status = "pending"
  BY <1>3, FileFacts DEF RequestTrue, RenditionTrue, FileInv, ManifestTrue
<1>9. ManifestTrue'
  <2>1. doc.state # "upload_pending"
    BY <1>1, <1>3, <1>8 DEF RequestTrue, ReadTrue
  <2>2. status = "available" /\ ~ackLost /\ ~requested => D.rendition.key \in renditions
    BY <1>1, <1>4, <1>8 DEF RequestTrue, RenditionTrue
  <2>3. Fixed' <=> Fixed
    BY <1>1 DEF Fixed
  <2> QED
    BY <1>1, <1>2, <1>4, <1>8, <2>1, <2>2, <2>3 DEF ManifestTrue
<1>10. ackLost' \/ (Fixed => \A s \in FileSlots \ {r} : ~ Rendering(req[s]))
  BY <1>1, <1>3, OneRendition
<1>11. /\ Storing(req[r]) => D.rendition.status = "available"
       /\ fileFaults' = 0 /\ Fixed => doc.rendition.status # "available"
       /\ fileFaults' = 0 /\ doc.rendition.status = "available" => doc.rendition.key # req[r].key
  BY <1>1, <1>4, <1>8 DEF Storing
<1> QED
  BY <1>3, <1>4, <1>6, <1>7, <1>9, <1>10, <1>11, ManifestCommits

\* The entry is committed, and the rendition taken for failed.
LEMMA RecordThenFailKeeps ==
  ASSUME FileInv, NEW r \in FileSlots, req[r].op = "rendition", req[r].pc = "execute",
         Files!upsertFileRenditionManifest(r, "available"),
         Files!Goto(r, "discard"), ackLost' = TRUE, fileFaults' = fileFaults + 1,
         UNCHANGED <<primary, upload, renditions, infected, url, overlay, etags, fileRequests,
                     requested, overtaken, late>>
  PROVE  FileInv'
<1>1. PICK D : D = doc'
  OBVIOUS
<1>2. Rendering(req[r]) /\ Keyed(req[r])
  BY DEF Rendering, Keyed
<1>3. /\ D \in FileDocs /\ D.version = doc.version + 1 /\ D.state = doc.state
      /\ D.deleted = doc.deleted /\ D.multipart = doc.multipart /\ D.rendition.key <= etags
      /\ D.rendition.key = req[r].key /\ D.rendition.source = req[r].source
      /\ Files!Live(doc) /\ req[r].snap = doc /\ Replaces(r)
      /\ replaced' \in SUBSET Nat /\ replaced \subseteq replaced'
      /\ \A k \in replaced' : k <= etags
  BY <1>1, <1>2, EntryIs
<1>4. PICK q : Moved(r, q, "discard")
  BY GotoMoves DEF FilePlaces
<1>5. /\ q.pc = "discard" /\ q.op = "rendition" /\ q.snap = doc /\ q.key = req[r].key
      /\ q.source = req[r].source
  BY <1>3, <1>4 DEF Moved
<1>6. /\ RequestTrue(req[r]) /\ doc \in FileDocs /\ doc.version \in Nat
      /\ (Fixed' => req[r].source = 1) /\ doc.state # "upload_pending"
  BY <1>2, FileFacts DEF FileDocs, RequestTrue, ReadTrue, RenditionTrue, Fixed
<1>7. fileFaults' \in Nat /\ fileFaults' # 0
  BY DEF FileInv, FileTypes
<1>8. Commit(r, q, D)
  BY <1>1, <1>3, <1>4, <1>7 DEF FileInv, FileTypes, Commit, Moved
<1>9. ManifestTrue'
  BY <1>1, <1>3, <1>6, <1>7 DEF ManifestTrue
<1>10. RequestTrue(q)'
  <2>1. ReadTrue(q)'
    <3>1. doc # Files!NoDoc /\ doc.version >= 1
      BY <1>3, <1>6 DEF RequestTrue, ReadTrue, Creators
    <3>2. D.version > doc.version /\ D # Files!NoDoc
      BY <1>3, <1>6, <3>1 DEF Files!NoDoc
    <3> QED
      BY <1>1, <1>3, <1>5, <1>6, <3>1, <3>2 DEF ReadTrue, Placed, Creators
  <2>2. ContentTrue(q)'
    BY <1>5 DEF ContentTrue, Completing
  <2>3. RenditionTrue(q)'
    <3>1. 1 <= req[r].key /\ req[r].key <= etags
      BY <1>2, <1>6 DEF RequestTrue, RenditionTrue
    <3> QED
      BY <1>5, <1>6, <3>1 DEF RenditionTrue, Keyed, Rendering
  <2> QED
    BY <2>1, <2>2, <2>3 DEF RequestTrue
<1> QED
  BY <1>2, <1>3, <1>5, <1>7, <1>8, <1>9, <1>10, ManifestCommits

\* What excuses an object goes on doing so.
LEMMA ExcusedStays ==
  ASSUME \A s \in FileSlots : Storing(req[s]) => Storing(req'[s]) /\ req'[s].key = req[s].key,
         overlay' = overlay, replaced \subseteq replaced'
  PROVE  \A k : Excused(k) => Excused(k)'
BY DEF Excused, Stored, Storing, Fixed

\* Rejected content still has its request, or its document the same excuse.
LEMMA CleanedStays ==
  ASSUME Cleaned, UNCHANGED <<infected, late>>, fileFaults' = 0 => fileFaults = 0,
         overtaken => overtaken', primary' => primary, doc'.state = doc.state,
         \A s \in FileSlots : req[s].pc = "cleanup" => req'[s].pc = "cleanup",
         \A s \in FileSlots : Judging(req[s]) => Judging(req'[s])
  PROVE  Cleaned'
<1> SUFFICES ASSUME fileFaults' = 0, infected', primary', ~late' PROVE Cleaned'
  BY DEF Cleaned
<1>1. /\ doc.state = "scan_failed" => \E s \in FileSlots : req[s].pc = "cleanup"
      /\ \/ doc.state = "upload_pending"
         \/ overtaken /\ doc.state # "none"
         \/ \E s \in FileSlots : req[s].pc = "cleanup" \/ Judging(req[s])
  BY DEF Cleaned
<1>2. doc.state = "scan_failed" => \E s \in FileSlots : req'[s].pc = "cleanup"
  BY <1>1
<1>3. \/ doc.state = "upload_pending"
      \/ overtaken' /\ doc.state # "none"
      \/ \E s \in FileSlots : req'[s].pc = "cleanup" \/ Judging(req'[s])
  BY <1>1
<1> QED
  BY <1>2, <1>3 DEF Cleaned, Judging, Completing

\* documents.delete: what is left of the renditions has a request that removes it.
LEMMA RemoveKeeps ==
  ASSUME FileInv, NEW r \in FileSlots, Files!RemoveDocument(r)
  PROVE  FileInv'
<1>1. /\ req[r].pc = "remove" /\ Files!End(r) /\ Files!Accepts(Files!expectedVersion(r))
      /\ doc' = [[doc EXCEPT !.deleted = TRUE] EXCEPT !.version = doc.version + 1]
      /\ UNCHANGED <<primary, upload, renditions, infected, url, overlay, etags, fileRequests,
                     fileFaults, requested, ackLost, overtaken, late, replaced>>
  BY DEF Files!RemoveDocument, Files!execute, Files!objects, Files!source, Files!counters, Files!history
<1>2. doc \in FileDocs /\ RequestTrue(req[r]) /\ doc.version \in Nat
  BY FileFacts DEF FileDocs
<1>3. req[r].op \in {"delete", "abort"}
  BY <1>1, <1>2 DEF RequestTrue, ReadTrue, Placed
<1>4. req[r].snap = doc /\ Files!Live(doc)
  BY <1>1, <1>3, AcceptedIs
<1>5. PICK P : P = [doc EXCEPT !.deleted = TRUE]
  OBVIOUS
<1>6. /\ P \in FileDocs /\ P.state = doc.state /\ P.rendition = doc.rendition
      /\ P.multipart = doc.multipart
  BY <1>2, <1>5 DEF FileDocs
<1>7. PICK D : D = doc'
  OBVIOUS
<1>8. /\ D \in FileDocs /\ D.version = doc.version + 1 /\ D.state = doc.state
      /\ D.rendition = doc.rendition /\ D.multipart = doc.multipart
  BY <1>1, <1>2, <1>5, <1>6, <1>7, ExecuteIs
<1>9. PICK q : Ended(r, q)
  BY <1>1, EndMoves
<1>10. RequestTrue(q)' /\ ~ Keyed(q) /\ q.pc = "idle" /\ req' = [req EXCEPT ![r] = q]
  BY <1>9 DEF Ended, RequestTrue, ReadTrue, ContentTrue, RenditionTrue, Placed, Keyed, Rendering, Fixed,
              Completing
<1>11. Commit(r, q, D) /\ Sound(D)
  <2>1. Commit(r, q, D)
    BY <1>1, <1>4, <1>7, <1>8, <1>9 DEF FileInv, FileTypes, Commit, Ended
  <2> QED
    BY <1>1, <1>4, <1>8, <2>1, StateStays DEF Lost
<1>12. ManifestTrue'
  BY <1>1, <1>7, <1>8 DEF FileInv, ManifestTrue, Fixed
<1>13. \A s \in FileSlots : s # r => req'[s] = req[s]
  BY <1>10 DEF FileInv, FileTypes
<1>14. Kept'
  <2> SUFFICES ASSUME fileFaults = 0 PROVE \A k \in renditions' : Excused(k)'
    BY <1>1 DEF Kept
  <2>1. \A k \in renditions : Excused(k)
    <3>1. CASE req[r].op = "delete"
      BY <1>1, <1>4, <3>1 DEF FileInv, Kept
    <3>2. CASE req[r].op = "abort"
      <4>1. doc.state = "upload_pending"
        BY <1>1, <1>2, <1>4, <3>2 DEF RequestTrue, ReadTrue
      <4>2. ~ackLost /\ doc.rendition.status # "available"
        BY <4>1 DEF FileInv, ManifestTrue, Files!NoRendition
      <4> QED
        BY <4>2 DEF FileInv, Kept
    <3> QED
      BY <1>3, <3>1, <3>2
  <2>2. \A s \in FileSlots : Storing(req[s]) => Storing(req'[s]) /\ req'[s].key = req[s].key
    BY <1>1, <1>13 DEF Storing
  <2>3. overlay' = overlay /\ replaced \subseteq replaced'
    BY <1>1
  <2> QED
    BY <1>1, <2>1, <2>2, <2>3, ExcusedStays
<1>15. Cleaned'
  <2>1. ~ Judging(req[r])
    BY <1>1 DEF Judging, Completing
  <2>2. \A s \in FileSlots : /\ req[s].pc = "cleanup" => req'[s].pc = "cleanup"
                             /\ Judging(req[s]) => Judging(req'[s])
    BY <1>1, <1>13, <2>1
  <2>3. Cleaned /\ doc'.state = doc.state
    BY <1>7, <1>8 DEF FileInv
  <2> QED
    BY <1>1, <2>2, <2>3, CleanedStays
<1> QED
  BY <1>1, <1>8, <1>10, <1>11, <1>12, <1>14, <1>15, FileCommits

-----------------------------------------------------------------------------
(* The request that creates the file.                                      *)

\* While there is no document, one request is under way.
LEMMA AloneIs ==
  ASSUME FileInv, NEW r \in FileSlots, doc = Files!NoDoc, req[r].pc # "idle"
  PROVE  \A s \in FileSlots : s # r => req[s].pc = "idle"
BY DEF FileInv, RequestsApart

\* The metadata is committed; the request ends, or undoes what it stored.
LEMMA CreateKeeps ==
  ASSUME FileInv, NEW r \in FileSlots, NEW q \in FileRequests, NEW D \in FileDocs,
         req[r].op \in Creators, req[r].pc = "create", doc' = D,
         D.version = 1, ~ D.deleted, D.rendition = Files!NoRendition,
         \/ D.state = "upload_pending" /\ req[r].op \in {"prepareDirect", "prepareMultipart"}
         \/ req[r].op = "upload" /\ D.state = IF infected THEN "scan_failed" ELSE "available",
         D.multipart => req[r].op = "prepareMultipart",
         req' = [req EXCEPT ![r] = q],
         \/ q.pc = "idle"
         \/ q.op = "upload" /\ q.pc = "cleanup" /\ (infected \/ ackLost')
         \/ q.op = "prepareMultipart" /\ q.pc = "abandon" /\ url = "none",
         D.state = "scan_failed" => q.pc = "cleanup" \/ ackLost',
         UNCHANGED <<primary, upload, renditions, infected, url, overlay, etags, fileRequests,
                     requested, overtaken, late, replaced>>,
         ackLost' \in BOOLEAN, ackLost => ackLost', fileFaults' \in Nat,
         fileFaults' = 0 => fileFaults = 0 /\ ~ ackLost'
  PROVE  FileInv'
<1>1. req'[r] = q /\ \A s \in FileSlots : s # r => req'[s] = req[s]
  BY DEF FileInv, FileTypes
<1>2. RequestTrue(req[r]) /\ doc = Files!NoDoc /\ fileRequests \in Nat \ {0}
  BY FileFacts DEF RequestTrue, ReadTrue
<1>3. \A s \in FileSlots : s # r => req[s].pc = "idle" /\ req'[s].pc = "idle"
  BY <1>1, <1>2, AloneIs
<1>4. D # Files!NoDoc
  BY DEF Files!NoDoc
<1>6. ~ Keyed(q) /\ ~ (q.op = "delete" /\ q.pc = "remove")
  BY DEF Keyed, Rendering, Fixed
<1>7. FileTypes'
  <2>1. req' \in [FileSlots -> FileRequests]
    BY DEF FileInv, FileTypes
  <2>2. D.rendition.key = 0
    BY DEF Files!NoRendition
  <2> QED
    BY <1>2, <2>1, <2>2 DEF FileInv, FileTypes
<1>8. RequestsTrue'
  <2>1. RequestTrue(q)'
    <3>1. ReadTrue(q)'
      BY DEF ReadTrue, Placed, Creators
    <3>2. ContentTrue(q)'
      BY DEF ContentTrue, Completing, Lost
    <3>3. RenditionTrue(q)'
      BY DEF RenditionTrue, Keyed, Rendering, Fixed
    <3> QED
      BY <3>1, <3>2, <3>3 DEF RequestTrue
  <2>2. ASSUME NEW s \in FileSlots, s # r
        PROVE  RequestTrue(req[s])'
    BY <1>3, <2>2 DEF RequestTrue, ReadTrue, ContentTrue, RenditionTrue, Placed, Keyed, Rendering, Fixed,
                      Completing
  <2>3. RequestTrue(req[r])'
    BY <1>1, <2>1 DEF RequestTrue, ReadTrue, ContentTrue, RenditionTrue, Placed, Completing, Sealed,
                      Lost, Keyed, Rendering, Fixed
  <2> QED
    BY <2>2, <2>3 DEF RequestsTrue, RequestTrue
<1>9. RequestsApart'
  <2>1. \A s \in FileSlots : ~ Keyed(req'[s])
    BY <1>1, <1>3, <1>6 DEF Keyed, Rendering, Fixed
  <2> QED
    BY <1>4, <2>1 DEF RequestsApart, Keyed, Rendering, Fixed
<1>10. FileTrue'
  <2>1. /\ req[r].op = "upload" => primary /\ Sealed
        /\ req[r].op = "prepareMultipart" => ~ primary /\ url = "none"
        /\ req[r].op = "prepareDirect" => url # "none"
    BY <1>2 DEF RequestTrue, ContentTrue, Sealed
  <2> QED
    BY <1>2, <2>1 DEF FileInv, FileTrue, Sealed, Lost
<1>11. ManifestTrue'
  BY <1>3 DEF ManifestTrue, Files!NoRendition
<1>12. Kept'
  <2> SUFFICES ASSUME fileFaults' = 0 PROVE \A k \in renditions' : Excused(k)'
    BY DEF Kept
  <2>1. \A k \in renditions : Excused(k)
    BY <1>2 DEF FileInv, Kept, Files!Live, Files!NoDoc
  <2>2. \A s \in FileSlots : ~ Storing(req[s])
    BY <1>3 DEF Storing
  <2> QED
    BY <2>1, <2>2 DEF Excused, Stored, Fixed
<1>13. Cleaned'
  <2>1. fileFaults' = 0 /\ D.state = "scan_failed" => req'[r].pc = "cleanup"
    BY <1>1
  <2>2. infected => D.state \in {"upload_pending", "scan_failed"}
    OBVIOUS
  <2> QED
    BY <2>1, <2>2 DEF Cleaned
<1> QED
  BY <1>7, <1>8, <1>9, <1>10, <1>11, <1>12, <1>13 DEF FileInv

LEMMA CreationsKeep ==
  ASSUME FileInv, NEW r \in FileSlots,
         \/ Files!CreateUploaded(r) \/ Files!CreatePendingDirect(r) \/ Files!CreatePendingMultipart(r)
         \/ Files!CommitThenFail(r)
  PROVE  FileInv'
<1> DEFINE U == [Files!NoDoc EXCEPT !.state = Files!completedState, !.version = 1]
           P == [Files!NoDoc EXCEPT !.state = "upload_pending", !.version = 1]
           M == [Files!NoDoc EXCEPT !.state = "upload_pending", !.version = 1, !.multipart = TRUE]
<1>1. /\ U \in FileDocs /\ U.version = 1 /\ ~ U.deleted /\ U.rendition = Files!NoRendition
      /\ U.state = (IF infected THEN "scan_failed" ELSE "available") /\ ~ U.multipart
  BY DEF FileDocs, Files!NoDoc, Files!NoRendition, Renditions, DocStates, Files!completedState
<1>2. /\ P \in FileDocs /\ P.version = 1 /\ ~ P.deleted /\ P.rendition = Files!NoRendition
      /\ P.state = "upload_pending" /\ ~ P.multipart
  BY DEF FileDocs, Files!NoDoc, Files!NoRendition, Renditions, DocStates
<1>3. /\ M \in FileDocs /\ M.version = 1 /\ ~ M.deleted /\ M.rendition = Files!NoRendition
      /\ M.state = "upload_pending"
  BY DEF FileDocs, Files!NoDoc, Files!NoRendition, Renditions, DocStates
<1>4. /\ infected \in BOOLEAN /\ ackLost \in BOOLEAN /\ fileFaults \in Nat
      /\ fileFaults = 0 => ~ ackLost
      /\ RequestTrue(req[r])
  BY FileFacts DEF FileInv, FileTypes, ManifestTrue
<1>5. PICK D : D = doc'
  OBVIOUS
<1> HIDE DEF U, P, M
<1>6. CASE Files!CreateUploaded(r)
  <2>1. /\ req[r].op = "upload" /\ req[r].pc = "create" /\ doc' = U
        /\ Files!GotoOrEnd(r, IF infected THEN "cleanup" ELSE "idle")
        /\ UNCHANGED <<primary, upload, renditions, infected, url, overlay, etags, fileRequests,
                       requested, ackLost, fileFaults, overtaken, late, replaced>>
    BY <1>6 DEF U, Files!CreateUploaded, Files!At, Files!objects, Files!source, Files!counters,
                Files!history
  <2>2. PICK place \in FilePlaces : place = IF infected THEN "cleanup" ELSE "idle"
    BY DEF FilePlaces
  <2>3. Files!GotoOrEnd(r, place)
    BY <2>1, <2>2
  <2>4. PICK q : Moved(r, q, place) \/ (place = "idle" /\ Ended(r, q))
    BY <2>2, <2>3, GotoOrEndMoves
  <2>5. /\ q \in FileRequests /\ req' = [req EXCEPT ![r] = q] /\ q.pc = place
        /\ place # "idle" => q.op = "upload"
    BY <2>1, <2>4 DEF Moved, Ended
  <2>6. D = U
    BY <1>5, <2>1
  <2> QED
    BY <1>1, <1>4, <1>5, <2>1, <2>2, <2>5, <2>6, CreateKeeps DEF Creators
<1>7. CASE Files!CreatePendingDirect(r) \/ Files!CreatePendingMultipart(r)
  <2>1. /\ req[r].op \in Creators /\ req[r].pc = "create" /\ Files!End(r)
        /\ \/ req[r].op = "prepareDirect" /\ D = P
           \/ req[r].op = "prepareMultipart" /\ D = M
        /\ UNCHANGED <<primary, upload, renditions, infected, url, overlay, etags, fileRequests,
                       requested, ackLost, fileFaults, overtaken, late, replaced>>
    BY <1>5, <1>7 DEF P, M, Creators, Files!CreatePendingDirect, Files!CreatePendingMultipart, Files!At,
                      Files!objects, Files!source, Files!counters, Files!history
  <2>2. PICK q : Ended(r, q)
    BY <2>1, EndMoves
  <2>3. q \in FileRequests /\ req' = [req EXCEPT ![r] = q] /\ q.pc = "idle"
    BY <2>2 DEF Ended
  <2> QED
    BY <1>2, <1>3, <1>4, <1>5, <2>1, <2>3, CreateKeeps
<1>8. CASE Files!CommitThenFail(r)
  <2>1. /\ ackLost' = TRUE /\ fileFaults' = fileFaults + 1 /\ Files!Goto(r, Files!OnError(r))
        /\ UNCHANGED <<primary, upload, renditions, infected, url, overlay, etags, fileRequests,
                       requested, overtaken, late>>
    BY <1>8 DEF Files!CommitThenFail, Files!Fault, Files!objects, Files!source
  <2>2. \/ req[r].op = "upload" /\ req[r].pc = "create" /\ D = U /\ replaced' = replaced
        \/ /\ req[r].op = "prepareMultipart" /\ req[r].pc = "create" /\ D = M
           /\ replaced' = replaced
        \/ /\ req[r].op = "rendition" /\ req[r].pc = "execute"
           /\ Files!upsertFileRenditionManifest(r, "available")
    BY <1>5, <1>8 DEF U, M, Files!CommitThenFail, Files!At
  <2>3. fileFaults' \in Nat /\ fileFaults' # 0 /\ ackLost' \in BOOLEAN
    BY <1>4, <2>1
  <2>4. CASE req[r].op = "rendition"
    <3>1. Files!Goto(r, "discard")
      BY <2>1, <2>2, <2>4 DEF Files!OnError
    <3> QED
      BY <2>1, <2>2, <2>4, <3>1, RecordThenFailKeeps
  <2>5. CASE req[r].op \in {"upload", "prepareMultipart"}
    <3>1. PICK place \in FilePlaces : place = IF req[r].op = "upload" THEN "cleanup" ELSE "abandon"
      BY DEF FilePlaces
    <3>2. Files!Goto(r, place) /\ req[r].pc = "create"
      BY <2>1, <2>2, <2>5, <3>1 DEF Files!OnError
    <3>3. PICK q : Moved(r, q, place)
      BY <3>1, <3>2, GotoMoves
    <3>4. q \in FileRequests /\ req' = [req EXCEPT ![r] = q] /\ q.pc = place /\ q.op = req[r].op
      BY <3>3 DEF Moved
    <3>5. req[r].op = "prepareMultipart" => url = "none"
      BY <1>4, <3>2 DEF RequestTrue, ContentTrue
    <3>6. /\ D \in FileDocs /\ D.version = 1 /\ ~ D.deleted /\ D.rendition = Files!NoRendition
          /\ \/ D.state = "upload_pending" /\ req[r].op = "prepareMultipart"
             \/ req[r].op = "upload" /\ D.state = IF infected THEN "scan_failed" ELSE "available"
          /\ D.multipart => req[r].op = "prepareMultipart"
          /\ replaced' = replaced
      BY <1>1, <1>3, <2>2, <2>5
    <3> QED
      BY <1>5, <2>1, <2>3, <2>5, <3>1, <3>2, <3>4, <3>5, <3>6, CreateKeeps DEF Creators
  <2> QED
    BY <2>2, <2>4, <2>5
<1> QED
  BY <1>6, <1>7, <1>8

\* The first request, alone.
LEMMA FirstStartKeeps ==
  ASSUME FileInv, NEW r \in FileSlots, NEW op, NEW place, fileRequests = 0,
         Files!StartOf(r, op, place, 0, 0),
         \/ op = "upload" /\ place = "put" /\ url' = url
         \/ op = "prepareDirect" /\ place = "create" /\ url' = "issued"
         \/ op = "prepareMultipart" /\ place = "createUpload" /\ url' = url
  PROVE  FileInv'
<1>1. PICK q : q = [op |-> op, pc |-> place, snap |-> doc, expected |-> 0, key |-> 0, source |-> 0]
  OBVIOUS
<1>2. /\ doc \in FileDocs /\ doc = Files!NoDoc /\ ~ primary /\ upload = "none" /\ url = "none"
      /\ \A s \in FileSlots : req[s].pc = "idle"
  BY DEF FileInv, FileTypes, FileTrue
<1>3. q \in FileRequests /\ q.op = op /\ q.pc = place /\ q.snap = doc
  BY <1>1, <1>2 DEF FileRequests, FileOps, FilePlaces
<1>4. /\ req' = [req EXCEPT ![r] = q] /\ fileRequests' = 1
      /\ UNCHANGED <<doc, primary, upload, renditions, infected, overlay, etags, fileFaults,
                     requested, ackLost, overtaken, late, replaced>>
  BY <1>1 DEF Files!StartOf, Files!objects, Files!history
<1>5. req'[r] = q /\ \A s \in FileSlots : s # r => req'[s].pc = "idle"
  BY <1>2, <1>4 DEF FileInv, FileTypes
<1>6. FileTypes'
  <2>1. req' \in [FileSlots -> FileRequests]
    BY <1>3, <1>4 DEF FileInv, FileTypes
  <2> QED
    BY <1>2, <1>4, <2>1 DEF FileInv, FileTypes
<1>7. RequestsTrue'
  <2>1. RequestTrue(req[r])'
    BY <1>2, <1>3, <1>4, <1>5
       DEF RequestTrue, ReadTrue, ContentTrue, RenditionTrue, Placed, Creators, Completing, Keyed, Fixed,
           Rendering
  <2>2. ASSUME NEW s \in FileSlots, s # r
        PROVE  RequestTrue(req[s])'
    BY <1>5, <2>2 DEF RequestTrue, ReadTrue, ContentTrue, RenditionTrue, Placed, Keyed, Rendering, Fixed,
                      Completing
  <2> QED
    BY <2>1, <2>2 DEF RequestsTrue, RequestTrue
<1>8. RequestsApart'
  BY <1>3, <1>5 DEF RequestsApart, Keyed, Rendering, Fixed
<1>9. FileTrue' /\ ManifestTrue'
  <2>1. ManifestTrue'
    BY <1>4 DEF FileInv, ManifestTrue, Fixed
  <2>2. FileTrue'
    BY <1>2, <1>4 DEF FileTrue, Files!NoDoc
  <2> QED
    BY <2>1, <2>2
<1>10. Kept'
  <2>1. \A s \in FileSlots : ~ Storing(req[s]) /\ ~(req'[s].op = "delete" /\ req'[s].pc = "remove")
    BY <1>2, <1>3, <1>5 DEF Storing
  <2>2. \A k : Excused(k) => Excused(k)'
    BY <1>4, <2>1 DEF Excused, Stored, Fixed
  <2>3. Kept
    BY DEF FileInv
  <2> QED
    BY <1>4, <2>1, <2>2, <2>3 DEF Kept, Files!Live
<1>11. Cleaned'
  BY <1>2, <1>4 DEF Cleaned
<1> QED
  BY <1>6, <1>7, <1>8, <1>9, <1>10, <1>11 DEF FileInv

LEMMA FirstStartsKeep ==
  ASSUME FileInv, NEW r \in FileSlots,
         \/ Files!StartUpload(r) \/ Files!StartPrepareDirectUpload(r)
         \/ Files!StartPrepareMultipartUpload(r)
  PROVE  FileInv'
BY FirstStartKeeps DEF Files!StartUpload, Files!StartPrepareDirectUpload,
                       Files!StartPrepareMultipartUpload, Files!NoVersion, Files!Start

-----------------------------------------------------------------------------
(* The object under the file's key, and its uploads.                       *)

\* A call that changes the object or an upload of it, and nothing else.
LEMMA ContentSteps ==
  ASSUME FileInv, req' \in [FileSlots -> FileRequests],
         UNCHANGED <<doc, renditions, infected, overlay, requested, ackLost, overtaken, replaced,
                     etags, fileRequests, fileFaults>>,
         primary' \in BOOLEAN, late' \in BOOLEAN, url' \in {"none", "issued"},
         upload' \in {"none", "open", "aborted", "completed"},
         \A s \in FileSlots : ContentTrue(req[s])',
         \A s \in FileSlots : req'[s] # req[s] =>
           /\ ReadTrue(req[s])' /\ ~ Keyed(req'[s]) /\ ~ Keyed(req[s]) /\ req[s].pc # "idle"
           /\ fileFaults = 0 /\ req'[s].op = "delete" /\ req'[s].pc = "remove"
              /\ req'[s].snap.version = doc.version => \A k \in renditions : Excused(k),
         FileTrue', Cleaned'
  PROVE  FileInv'
<1>1. FileTypes'
  BY DEF FileInv, FileTypes
<1>2. ASSUME NEW s \in FileSlots
      PROVE  ReadTrue(req[s])' /\ RenditionTrue(req[s])'
  <2>1. CASE req'[s] = req[s]
    <3>1. ReadTrue(req[s]) /\ RenditionTrue(req[s])
      BY DEF FileInv, RequestsTrue
    <3>2. ReadTrue(req[s])'
      BY <2>1, <3>1 DEF ReadTrue, Placed
    <3>3. RenditionTrue(req[s])'
      BY <2>1, <3>1 DEF RenditionTrue, Keyed, Rendering, Fixed
    <3> QED
      BY <3>2, <3>3
  <2>2. CASE req'[s] # req[s]
    <3>1. ReadTrue(req[s])' /\ ~ Keyed(req'[s])
      BY <2>2
    <3>2. RenditionTrue(req[s])'
      BY <3>1 DEF RenditionTrue, Keyed, Rendering, Fixed
    <3> QED
      BY <3>1, <3>2
  <2> QED
    BY <2>1, <2>2
<1>3. RequestsTrue'
  BY <1>2 DEF RequestsTrue
<1>4. RequestsApart'
  <2> SUFFICES ASSUME NEW s \in FileSlots, NEW t \in FileSlots, s # t
               PROVE  /\ doc = Files!NoDoc => req'[s].pc = "idle" \/ req'[t].pc = "idle"
                      /\ Keyed(req'[s]) /\ Keyed(req'[t]) => req'[s].key # req'[t].key
    BY DEF RequestsApart, Keyed, Rendering, Fixed
  <2>1. /\ doc = Files!NoDoc => req[s].pc = "idle" \/ req[t].pc = "idle"
        /\ Keyed(req[s]) /\ Keyed(req[t]) => req[s].key # req[t].key
    BY DEF FileInv, RequestsApart
  <2>2. \A u \in FileSlots : req[u].pc = "idle" => req'[u] = req[u]
    OBVIOUS
  <2>3. \A u \in FileSlots : Keyed(req'[u]) => req'[u] = req[u]
    OBVIOUS
  <2> QED
    BY <2>1, <2>2, <2>3
<1>5. ManifestTrue'
  BY DEF FileInv, ManifestTrue, Fixed
<1>6. Kept'
  <2> SUFFICES ASSUME fileFaults = 0 PROVE Kept'
    BY DEF Kept
  <2>1. \A s \in FileSlots : Storing(req[s]) => Storing(req'[s]) /\ req'[s].key = req[s].key
    BY DEF Storing, Keyed, Rendering
  <2>2. \A k : Excused(k) => Excused(k)'
    BY <2>1, ExcusedStays
  <2>3. ASSUME NEW t \in FileSlots, req'[t].op = "delete", req'[t].pc = "remove",
               req'[t].snap.version = doc.version
        PROVE  \A k \in renditions : Excused(k)
    <3>1. CASE req'[t] = req[t]
      BY <2>3, <3>1 DEF FileInv, Kept
    <3>2. CASE req'[t] # req[t]
      BY <2>3, <3>2
    <3> QED
      BY <3>1, <3>2
  <2>4. Kept
    BY DEF FileInv
  <2> QED
    BY <2>2, <2>3, <2>4 DEF Kept, Files!Live
<1> QED
  BY <1>1, <1>3, <1>4, <1>5, <1>6 DEF FileInv

\* The same for a call of request r, with what the others rely on.
LEMMA ContentMoves ==
  ASSUME FileInv, NEW r \in FileSlots, NEW q \in FileRequests, req' = [req EXCEPT ![r] = q],
         UNCHANGED <<doc, renditions, infected, url, overlay, requested, ackLost, overtaken, late,
                     replaced, etags, fileRequests, fileFaults>>,
         primary' \in BOOLEAN, upload' \in {"none", "open", "aborted", "completed"},
         req[r].pc # "idle", ~ Keyed(req[r]), ~ Keyed(q), ReadTrue(q)', ContentTrue(q)',
         fileFaults = 0 /\ q.op = "delete" /\ q.pc = "remove" /\ q.snap.version = doc.version =>
           \A k \in renditions : Excused(k),
         primary => primary' \/ Lost \/ doc = Files!NoDoc,
         upload' # upload => url = "none",
         upload' = "open" /\ upload # "open" => doc = Files!NoDoc /\ ~ primary',
         primary' /\ ~ primary => /\ upload' # "open" /\ doc.state # "scan_failed"
                                  /\ doc.state # "upload_pending" \/ url # "none",
         primary' => req[r].pc # "cleanup" /\ (Judging(q) \/ (primary /\ ~ Judging(req[r])))
  PROVE  FileInv'
<1>1. req' \in [FileSlots -> FileRequests] /\ req'[r] = q
      /\ \A s \in FileSlots : s # r => req'[s] = req[s]
  BY DEF FileInv, FileTypes
<1>2. fileRequests # 0 /\ url \in {"none", "issued"} /\ late \in BOOLEAN
  BY FileFacts DEF FileInv, FileTypes
<1>3. FileTrue'
  <2>1. FileTrue /\ (doc = Files!NoDoc => doc.state = "none")
    BY DEF FileInv, Files!NoDoc
  <2>2. doc.state \in {"available", "scan_failed"} \/ primary' => Sealed'
    BY <2>1 DEF FileTrue, Sealed
  <2>3. doc.state = "available" => primary' \/ Lost'
    BY <2>1 DEF FileTrue, Lost
  <2> QED
    BY <1>2, <2>1, <2>2, <2>3 DEF FileTrue, Lost
<1>4. ASSUME NEW s \in FileSlots
      PROVE  ContentTrue(req[s])'
  <2>1. CASE s = r
    BY <1>1, <2>1 DEF ContentTrue, Completing, Sealed, Lost
  <2>2. CASE s # r
    <3>1. ContentTrue(req[s]) /\ ReadTrue(req[s]) /\ req'[s] = req[s]
      BY <1>1, <2>2 DEF FileInv, RequestsTrue
    <3>2. CASE doc = Files!NoDoc
      <4>1. req'[s].pc = "idle"
        BY <2>2, <3>1, <3>2, AloneIs
      <4> QED
        BY <4>1 DEF ContentTrue, Completing
    <3>3. CASE doc # Files!NoDoc
      <4>1. /\ req[s].op = "upload" => req[s].pc \in {"idle", "cleanup"}
            /\ req[s].op = "prepareMultipart" => req[s].pc \in {"idle", "abandon"}
            /\ req[s].pc # "createUpload"
        BY <3>1, <3>3 DEF ReadTrue, Placed, Creators
      <4>2. Completing(req[s]) => Sealed' /\ (primary' \/ Lost')
        <5>1. Sealed => Sealed'
          BY <3>3 DEF Sealed
        <5>2. primary \/ Lost => primary' \/ Lost'
          BY <3>3 DEF Lost
        <5> QED
          BY <3>1, <5>1, <5>2 DEF ContentTrue
      <4> QED
        BY <3>1, <4>1, <4>2 DEF ContentTrue, Completing, Sealed, Lost
    <3> QED
      BY <3>2, <3>3
  <2> QED
    BY <2>1, <2>2
<1>5. ASSUME NEW s \in FileSlots, req'[s] # req[s]
      PROVE  /\ ReadTrue(req[s])' /\ ~ Keyed(req'[s]) /\ ~ Keyed(req[s]) /\ req[s].pc # "idle"
             /\ fileFaults = 0 /\ req'[s].op = "delete" /\ req'[s].pc = "remove"
                /\ req'[s].snap.version = doc.version => \A k \in renditions : Excused(k)
  <2>1. s = r
    BY <1>1, <1>5
  <2>2. ReadTrue(req[s])'
    BY <1>1, <2>1 DEF ReadTrue, Placed
  <2> QED
    BY <1>1, <2>1, <2>2
<1>6. Cleaned'
  <2> SUFFICES ASSUME fileFaults = 0, infected, primary', ~late PROVE Cleaned'
    BY DEF Cleaned
  <2>1. /\ doc.state = "scan_failed" => primary
        /\ primary /\ doc.state = "scan_failed" => \E s \in FileSlots : req[s].pc = "cleanup"
        /\ primary => \/ doc.state = "upload_pending"
                      \/ overtaken /\ doc.state # "none"
                      \/ \E s \in FileSlots : req[s].pc = "cleanup" \/ Judging(req[s])
    BY DEF FileInv, Cleaned
  <2>2. doc.state = "scan_failed" => \E s \in FileSlots : req'[s].pc = "cleanup"
    BY <1>1, <2>1
  <2>3. \/ doc.state = "upload_pending"
        \/ overtaken /\ doc.state # "none"
        \/ \E s \in FileSlots : req'[s].pc = "cleanup" \/ Judging(req'[s])
    <3>1. CASE Judging(q)
      BY <1>1, <3>1
    <3>2. CASE primary /\ ~ Judging(req[r]) /\ req[r].pc # "cleanup"
      BY <1>1, <2>1, <3>2
    <3> QED
      BY <3>1, <3>2
  <2> QED
    BY <2>2, <2>3 DEF Cleaned, Judging, Completing
<1> QED
  BY <1>1, <1>2, <1>3, <1>4, <1>5, <1>6, ContentSteps

\* The browser's put, once or again: if the upload is closed, it counts as late.
LEMMA ClientPutKeeps ==
  ASSUME FileInv, Files!ClientPut
  PROVE  FileInv'
<1>1. /\ url = "issued" /\ doc # Files!NoDoc /\ primary' = TRUE /\ req' = req
      /\ UNCHANGED <<doc, upload, renditions, infected, url, overlay, requested, ackLost, overtaken,
                     replaced, etags, fileRequests, fileFaults>>
  BY DEF Files!ClientPut, Files!source, Files!counters
<1>2. upload = "none" /\ fileRequests # 0
  BY <1>1 DEF FileInv, FileTrue, Sealed
<1>3. FileTrue'
  BY <1>1, <1>2 DEF FileInv, FileTrue, Sealed, Lost
<1>4. ASSUME NEW s \in FileSlots
      PROVE  ContentTrue(req[s])'
  <2>1. ContentTrue(req[s]) /\ ReadTrue(req[s])
    BY DEF FileInv, RequestsTrue
  <2>2. req[s].pc # "createUpload" /\ (req[s].op = "upload" => req[s].pc \in {"idle", "cleanup"})
    BY <1>1, <2>1 DEF ReadTrue, Placed, Creators
  <2>3. req[s].op = "prepareMultipart" => req[s].pc = "idle"
    BY <1>1, <2>1 DEF ContentTrue, Sealed
  <2> QED
    BY <1>1, <1>2, <2>1, <2>2, <2>3 DEF ContentTrue, Completing, Lost, Sealed
<1>5. /\ req' \in [FileSlots -> FileRequests] /\ upload' \in {"none", "open", "aborted", "completed"}
      /\ late' \in BOOLEAN
  <2>1. late' \in BOOLEAN
    BY DEF Files!ClientPut
  <2> QED
    BY <1>1, <2>1 DEF FileInv, FileTypes
<1>6. Cleaned'
  <2>1. ~ late' => doc.state = "upload_pending"
    BY DEF Files!ClientPut
  <2> QED
    BY <1>1, <2>1 DEF Cleaned
<1> QED
  BY <1>1, <1>2, <1>3, <1>4, <1>5, <1>6, ContentSteps

\* A Worker's put, and the removal of what it had put.
LEMMA ObjectsKeep ==
  ASSUME FileInv, NEW r \in FileSlots, Files!PutObject(r) \/ Files!CleanupObject(r)
  PROVE  FileInv'
<1>1. /\ UNCHANGED <<doc, renditions, infected, url, overlay, requested, ackLost, overtaken, late,
                     replaced, etags, fileRequests, fileFaults>>
      /\ upload' = upload
  BY DEF Files!PutObject, Files!CleanupObject, Files!source, Files!counters, Files!history
<1>2. RequestTrue(req[r]) /\ upload \in {"none", "open", "aborted", "completed"}
  BY FileFacts DEF FileInv, FileTypes
<1>3. CASE Files!PutObject(r)
  <2>1. req[r].op = "upload" /\ req[r].pc = "put" /\ primary' = TRUE /\ Files!Goto(r, "scan")
    BY <1>3 DEF Files!PutObject, Files!At
  <2>2. PICK q : Moved(r, q, "scan")
    BY <2>1, GotoMoves DEF FilePlaces
  <2>3. q \in FileRequests /\ req' = [req EXCEPT ![r] = q] /\ q.op = "upload" /\ q.pc = "scan"
    BY <2>1, <2>2 DEF Moved
  <2>4. doc = Files!NoDoc /\ url = "none" /\ upload = "none" /\ doc.state = "none"
    BY <1>2, <2>1 DEF RequestTrue, ReadTrue, ContentTrue, Creators, Files!NoDoc
  <2>5. ReadTrue(q)' /\ ContentTrue(q)' /\ ~ Keyed(q) /\ ~ Keyed(req[r]) /\ Judging(q)
    BY <1>1, <2>1, <2>3, <2>4
       DEF ReadTrue, ContentTrue, Placed, Creators, Completing, Keyed, Rendering, Judging
  <2> QED
    BY <1>1, <1>2, <2>1, <2>3, <2>4, <2>5, ContentMoves
<1>4. CASE Files!CleanupObject(r)
  <2>1. req[r].pc = "cleanup" /\ primary' = FALSE /\ Files!End(r)
    BY <1>4 DEF Files!CleanupObject
  <2>2. PICK q : Ended(r, q)
    BY <2>1, EndMoves
  <2>3. q \in FileRequests /\ req' = [req EXCEPT ![r] = q] /\ q.pc = "idle"
    BY <2>2 DEF Ended
  <2>4. doc = Files!NoDoc \/ Lost
    BY <1>2, <2>1 DEF RequestTrue, ContentTrue
  <2>5. ReadTrue(q)' /\ ContentTrue(q)' /\ ~ Keyed(q) /\ ~ Keyed(req[r])
    BY <2>1, <2>3 DEF ReadTrue, ContentTrue, Placed, Completing, Keyed, Rendering, Fixed
  <2> QED
    BY <1>1, <1>2, <2>1, <2>3, <2>4, <2>5, ContentMoves
<1> QED
  BY <1>3, <1>4

\* The multipart upload: created, abandoned, completed, aborted.
LEMMA MultipartKeeps ==
  ASSUME FileInv, NEW r \in FileSlots,
         \/ Files!CreateMultipartUpload(r) \/ Files!AbandonMultipartUpload(r)
         \/ Files!CompleteMultipartObject(r) \/ Files!AbortMultipartObject(r)
  PROVE  FileInv'
<1>1. UNCHANGED <<doc, renditions, infected, url, overlay, requested, ackLost, overtaken, late,
                  replaced, etags, fileRequests, fileFaults>>
  BY DEF Files!CreateMultipartUpload, Files!AbandonMultipartUpload, Files!CompleteMultipartObject,
         Files!AbortMultipartObject, Files!source, Files!counters, Files!history
<1>2. /\ RequestTrue(req[r]) /\ primary \in BOOLEAN /\ fileFaults \in Nat
      /\ upload = "open" => url = "none" /\ doc.state \notin {"available", "scan_failed"}
  BY FileFacts DEF FileInv, FileTypes, FileTrue, Sealed
<1>3. CASE Files!CreateMultipartUpload(r)
  <2>1. /\ req[r].op = "prepareMultipart" /\ req[r].pc = "createUpload" /\ upload' = "open"
        /\ primary' = primary /\ Files!Goto(r, "create")
    BY <1>3 DEF Files!CreateMultipartUpload, Files!At
  <2>2. PICK q : Moved(r, q, "create")
    BY <2>1, GotoMoves DEF FilePlaces
  <2>3. q \in FileRequests /\ req' = [req EXCEPT ![r] = q] /\ q.op = "prepareMultipart" /\ q.pc = "create"
    BY <2>1, <2>2 DEF Moved
  <2>4. doc = Files!NoDoc /\ url = "none" /\ ~ primary
    BY <1>2, <2>1 DEF RequestTrue, ReadTrue, ContentTrue, Creators
  <2>5. ReadTrue(q)' /\ ContentTrue(q)' /\ ~ Keyed(q) /\ ~ Keyed(req[r])
    BY <1>1, <2>1, <2>3, <2>4 DEF ReadTrue, ContentTrue, Placed, Creators, Completing, Keyed, Rendering, Fixed
  <2> QED
    BY <1>1, <1>2, <2>1, <2>3, <2>4, <2>5, ContentMoves
<1>4. CASE Files!AbandonMultipartUpload(r)
  <2>1. /\ req[r].op = "prepareMultipart" /\ req[r].pc = "abandon" /\ upload' = "aborted"
        /\ primary' = primary /\ Files!End(r)
    BY <1>4 DEF Files!AbandonMultipartUpload, Files!At
  <2>2. PICK q : Ended(r, q)
    BY <2>1, EndMoves
  <2>3. q \in FileRequests /\ req' = [req EXCEPT ![r] = q] /\ q.pc = "idle"
    BY <2>2 DEF Ended
  <2>4. url = "none"
    BY <1>2, <2>1 DEF RequestTrue, ContentTrue
  <2>5. ReadTrue(q)' /\ ContentTrue(q)' /\ ~ Keyed(q) /\ ~ Keyed(req[r]) /\ ~ Judging(req[r])
    BY <2>1, <2>3 DEF ReadTrue, ContentTrue, Placed, Completing, Keyed, Rendering, Judging
  <2> QED
    BY <1>1, <1>2, <2>1, <2>3, <2>4, <2>5, ContentMoves
<1>5. CASE Files!CompleteMultipartObject(r)
  <2>1. /\ req[r].op = "completeMultipart" /\ req[r].pc = "complete" /\ ~ Judging(req[r])
        /\ doc.state # "upload_pending"
    BY <1>2, <1>5 DEF Files!CompleteMultipartObject, Files!At, Judging, Completing, RequestTrue,
                      ReadTrue
  <2>2. CASE upload = "open" /\ primary' = TRUE /\ upload' = "completed" /\ Files!Goto(r, "scan")
    <3>1. PICK q : Moved(r, q, "scan")
      BY <2>2, GotoMoves DEF FilePlaces
    <3>2. /\ q \in FileRequests /\ req' = [req EXCEPT ![r] = q] /\ q.op = "completeMultipart"
          /\ q.pc = "scan" /\ q.snap = req[r].snap
      BY <2>1, <3>1 DEF Moved
    <3>3. ReadTrue(q)'
      BY <1>1, <1>2, <2>1, <3>2 DEF RequestTrue, ReadTrue, Placed, Creators
    <3>4. ContentTrue(q)' /\ ~ Keyed(q) /\ ~ Keyed(req[r]) /\ Judging(q)
      BY <1>1, <1>2, <2>1, <2>2, <3>2 DEF ContentTrue, Completing, Sealed, Keyed, Rendering, Judging
    <3> QED
      BY <1>1, <1>2, <2>1, <2>2, <3>2, <3>3, <3>4, ContentMoves
  <2>3. CASE primary' = primary /\ upload' = upload /\ Files!End(r)
    <3>1. PICK q : Ended(r, q)
      BY <2>3, EndMoves
    <3> QED
      BY <1>1, <1>2, <2>1, <2>3, <3>1, EndTurns DEF Storing
  <2> QED
    BY <1>5, <2>2, <2>3 DEF Files!CompleteMultipartObject
<1>6. CASE Files!AbortMultipartObject(r)
  <2>1. /\ req[r].op = "abort" /\ req[r].pc = "abortUpload" /\ primary' = primary
        /\ ~ Judging(req[r])
    BY <1>6 DEF Files!AbortMultipartObject, Files!At, Judging, Completing
  <2>2. CASE upload = "open" /\ upload' = "aborted" /\ Files!Goto(r, "remove")
    <3>1. PICK q : Moved(r, q, "remove")
      BY <2>2, GotoMoves DEF FilePlaces
    <3>2. /\ q \in FileRequests /\ req' = [req EXCEPT ![r] = q] /\ q.op = "abort"
          /\ q.pc = "remove" /\ q.snap = req[r].snap
      BY <2>1, <3>1 DEF Moved
    <3>3. ReadTrue(q)'
      BY <1>1, <1>2, <2>1, <3>2 DEF RequestTrue, ReadTrue, Placed, Creators
    <3>4. ContentTrue(q)' /\ ~ Keyed(q) /\ ~ Keyed(req[r])
      BY <2>1, <3>2 DEF ContentTrue, Completing, Keyed, Rendering, Fixed
    <3> QED
      BY <1>1, <1>2, <2>1, <2>2, <3>2, <3>3, <3>4, ContentMoves
  <2>3. CASE upload' = upload /\ Files!End(r)
    <3>1. PICK q : Ended(r, q)
      BY <2>3, EndMoves
    <3> QED
      BY <1>1, <1>2, <2>1, <2>3, <3>1, EndTurns DEF Storing
  <2> QED
    BY <1>6, <2>2, <2>3 DEF Files!AbortMultipartObject
<1> QED
  BY <1>3, <1>4, <1>5, <1>6

\* The object of a file whose deletion was requested is removed.
LEMMA DeletePrimaryKeeps ==
  ASSUME FileInv, NEW r \in FileSlots, Files!DeletePrimaryObject(r)
  PROVE  FileInv'
<1>1. /\ req[r].op = "delete" /\ req[r].pc = "deletePrimary" /\ primary' = FALSE /\ upload' = upload
      /\ UNCHANGED <<doc, renditions, infected, url, overlay, requested, ackLost, overtaken, late,
                     replaced, etags, fileRequests, fileFaults>>
      /\ Files!Goto(r, IF req[r].snap.rendition = Files!NoRendition THEN "remove" ELSE "deleteRendition")
  BY DEF Files!DeletePrimaryObject, Files!At, Files!source, Files!counters, Files!history
<1>2. PICK place \in FilePlaces :
        place = IF req[r].snap.rendition = Files!NoRendition THEN "remove" ELSE "deleteRendition"
  BY DEF FilePlaces
<1>3. Files!Goto(r, place)
  BY <1>1, <1>2
<1>4. PICK q : Moved(r, q, place)
  BY <1>2, <1>3, GotoMoves
<1>5. /\ q \in FileRequests /\ req' = [req EXCEPT ![r] = q] /\ q.op = "delete"
      /\ q.pc = place /\ q.snap = req[r].snap
  BY <1>1, <1>4 DEF Moved
<1>6. RequestTrue(req[r]) /\ requested
  BY <1>1, FileFacts DEF RequestTrue, ReadTrue
<1>7. ReadTrue(q)'
  BY <1>1, <1>2, <1>5, <1>6 DEF RequestTrue, ReadTrue, Placed, Creators
<1>8. ContentTrue(q)' /\ ~ Keyed(q) /\ ~ Keyed(req[r])
  BY <1>1, <1>2, <1>5 DEF ContentTrue, Completing, Keyed, Rendering, Fixed
<1>9. fileFaults = 0 /\ place = "remove" /\ q.snap.version = doc.version =>
        \A k \in renditions : Excused(k)
  <2>1. q.snap.version = doc.version => q.snap = doc
    BY <1>1, <1>5, <1>6 DEF RequestTrue, ReadTrue, Creators
  <2>2. place = "remove" => q.snap.rendition.status = "none"
    BY <1>2, <1>5 DEF Files!NoRendition
  <2> QED
    BY <2>1, <2>2 DEF FileInv, Kept
<1>10. upload \in {"none", "open", "aborted", "completed"} /\ Lost
  BY <1>6 DEF FileInv, FileTypes, Lost
<1> QED
  BY <1>1, <1>5, <1>7, <1>8, <1>9, <1>10, ContentMoves

-----------------------------------------------------------------------------
(* The objects of renditions.                                              *)

\* A call that changes the rendition objects and moves its request.
LEMMA RenditionMoves ==
  ASSUME FileInv, NEW r \in FileSlots, NEW q \in FileRequests, req' = [req EXCEPT ![r] = q],
         UNCHANGED <<doc, primary, upload, infected, url, overlay, requested, ackLost, overtaken,
                     late, replaced, etags, fileRequests, fileFaults>>,
         \A k \in renditions' : k \in renditions \/ (k \in Nat /\ 1 <= k /\ k <= etags),
         req[r].pc \notin {"idle", "cleanup"}, ~ Judging(req[r]), RequestTrue(q)',
         Keyed(q) => Keyed(req[r]) /\ q.key = req[r].key,
         \A s \in FileSlots : s # r => RenditionTrue(req[s])',
         ManifestTrue', Kept'
  PROVE  FileInv'
<1>1. req' \in [FileSlots -> FileRequests] /\ req'[r] = q
      /\ \A s \in FileSlots : s # r => req'[s] = req[s]
  BY DEF FileInv, FileTypes
<1>2. FileTypes'
  <2>1. renditions' \in SUBSET Nat /\ \A k \in renditions' : 1 <= k /\ k <= etags
    BY DEF FileInv, FileTypes
  <2> QED
    BY <1>1, <2>1 DEF FileInv, FileTypes
<1>3. RequestsTrue'
  <2>1. RequestTrue(req[r])'
    BY <1>1 DEF RequestTrue, ReadTrue, ContentTrue, RenditionTrue, Placed, Completing, Sealed,
                Lost, Keyed, Rendering, Fixed
  <2>2. ASSUME NEW s \in FileSlots, s # r
        PROVE  ReadTrue(req[s])' /\ ContentTrue(req[s])'
    <3>1. ReadTrue(req[s]) /\ ContentTrue(req[s]) /\ req'[s] = req[s]
      BY <1>1, <2>2 DEF FileInv, RequestsTrue
    <3>2. ReadTrue(req[s])'
      BY <3>1 DEF ReadTrue, Placed
    <3>3. ContentTrue(req[s])'
      BY <3>1 DEF ContentTrue, Completing, Sealed, Lost
    <3> QED
      BY <3>2, <3>3
  <2> QED
    BY <2>1, <2>2 DEF RequestsTrue, RequestTrue
<1>4. RequestsApart'
  <2> SUFFICES ASSUME NEW s \in FileSlots, NEW t \in FileSlots, s # t
               PROVE  /\ doc = Files!NoDoc => req'[s].pc = "idle" \/ req'[t].pc = "idle"
                      /\ Keyed(req'[s]) /\ Keyed(req'[t]) => req'[s].key # req'[t].key
    BY DEF RequestsApart, Keyed, Rendering, Fixed
  <2>1. /\ doc = Files!NoDoc => req[s].pc = "idle" \/ req[t].pc = "idle"
        /\ Keyed(req[s]) /\ Keyed(req[t]) => req[s].key # req[t].key
    BY DEF FileInv, RequestsApart
  <2> QED
    BY <1>1, <2>1
<1>5. FileTrue'
  <2>1. fileRequests # 0
    BY FileFacts
  <2> QED
    BY <2>1 DEF FileInv, FileTrue, Sealed, Lost
<1>6. Cleaned'
  <2>1. \A s \in FileSlots : /\ req[s].pc = "cleanup" => req'[s].pc = "cleanup"
                             /\ Judging(req[s]) => Judging(req'[s])
    BY <1>1
  <2>2. Cleaned
    BY DEF FileInv
  <2> QED
    BY <2>1, <2>2, CleanedStays
<1> QED
  BY <1>2, <1>3, <1>4, <1>5, <1>6 DEF FileInv

\* The object of a rendition under way is stored, under the key it reserved.
LEMMA PutRenditionKeeps ==
  ASSUME FileInv, NEW r \in FileSlots, Files!PutRendition(r)
  PROVE  FileInv'
<1>1. /\ req[r].op = "rendition" /\ req[r].pc = "transform" /\ Files!Goto(r, "latest")
      /\ renditions' = renditions \cup {req[r].key}
      /\ UNCHANGED <<doc, primary, upload, infected, url, overlay, requested, ackLost, overtaken,
                     late, replaced, etags, fileRequests, fileFaults>>
  BY DEF Files!PutRendition, Files!At, Files!source, Files!counters, Files!history
<1>2. PICK q : Moved(r, q, "latest")
  BY <1>1, GotoMoves DEF FilePlaces
<1>3. /\ q \in FileRequests /\ req' = [req EXCEPT ![r] = q] /\ q.op = "rendition"
      /\ q.pc = "latest" /\ q.snap = req[r].snap /\ q.key = req[r].key /\ q.source = req[r].source
  BY <1>1, <1>2 DEF Moved
<1>4. /\ RequestTrue(req[r]) /\ Keyed(req[r]) /\ Rendering(req[r]) /\ req[r].key \in Nat
      /\ ~ Judging(req[r])
  BY <1>1, FileFacts DEF Keyed, Rendering, FileRequests, Judging, Completing
<1>5. /\ 1 <= req[r].key /\ req[r].key <= etags
      /\ ~ackLost /\ Fixed => doc.rendition.status = "pending" /\ doc.rendition.key = req[r].key
  BY <1>4 DEF RequestTrue, RenditionTrue
<1>6. RequestTrue(q)'
  <2>1. ReadTrue(q)'
    BY <1>1, <1>3, <1>4 DEF RequestTrue, ReadTrue, Placed, Creators
  <2>2. ContentTrue(q)'
    BY <1>3 DEF ContentTrue, Completing
  <2>3. RenditionTrue(q)'
    BY <1>1, <1>3, <1>4, <1>5 DEF RequestTrue, RenditionTrue, Keyed, Rendering, Fixed
  <2> QED
    BY <2>1, <2>2, <2>3 DEF RequestTrue
<1>7. req'[r] = q /\ \A s \in FileSlots : s # r => req'[s] = req[s]
  BY <1>3 DEF FileInv, FileTypes
<1>8. fileFaults = 0 => ~ ackLost
  BY DEF FileInv, ManifestTrue
<1>9. ASSUME NEW s \in FileSlots, s # r
      PROVE  RenditionTrue(req[s])'
  <2>1. RenditionTrue(req[s]) /\ ReadTrue(req[s]) /\ req'[s] = req[s]
    BY <1>7, <1>9 DEF FileInv, RequestsTrue
  <2>2. Keyed(req[s]) => req[s].key # req[r].key
    BY <1>4, <1>9 DEF FileInv, RequestsApart
  <2>3. req[s].op = "rendition" /\ req[s].pc \in {"latestFailed", "executeFailed"} /\ fileFaults = 0
        => req[s].key \notin renditions'
    BY <1>1, <2>1, <2>2 DEF RenditionTrue, Keyed, Rendering, Fixed
  <2>4. req[s].op = "rendition" /\ req[s].pc = "reserve" /\ ~ackLost /\ Fixed
        /\ req[s].snap.version = doc.version => req[s].snap.rendition.status # "available"
    BY <1>5, <2>1 DEF ReadTrue, Creators
  <2> QED
    BY <1>1, <2>1, <2>3, <2>4 DEF RenditionTrue, Keyed, Rendering, Fixed
<1>10. ManifestTrue'
  BY <1>1, <1>5, <1>8 DEF FileInv, ManifestTrue, Fixed
<1>11. Kept'
  <2> SUFFICES ASSUME fileFaults = 0 PROVE Kept'
    BY <1>1 DEF Kept
  <2>1. Storing(req'[r]) /\ req'[r].key = req[r].key
    BY <1>3, <1>7 DEF Storing
  <2>2. \A s \in FileSlots : Storing(req[s]) => Storing(req'[s]) /\ req'[s].key = req[s].key
    BY <1>7, <2>1
  <2>3. \A k : Excused(k) => Excused(k)'
    BY <1>1, <2>2, ExcusedStays
  <2>4. \A k : k = req[r].key => Excused(k)'
    BY <2>1 DEF Excused, Stored
  <2>5. \A s \in FileSlots : req'[s].op = "delete" => req'[s] = req[s]
    BY <1>3, <1>7
  <2>6. Kept /\ \A k \in renditions' : k \in renditions \/ k = req[r].key
    BY <1>1 DEF FileInv
  <2>7. ASSUME NEW k \in renditions'
        PROVE  \/ Files!Live(doc) /\ doc.rendition.status = "available" /\ doc.rendition.key = k
               \/ Excused(k)'
    <3>1. CASE k = req[r].key
      BY <2>4, <3>1
    <3>2. CASE k \in renditions
      BY <2>3, <2>6, <3>2 DEF Kept
    <3> QED
      BY <2>6, <3>1, <3>2
  <2>8. ASSUME NEW s \in FileSlots, req'[s].op = "delete", req'[s].pc = "remove",
               req'[s].snap.version = doc.version, NEW k \in renditions'
        PROVE  Excused(k)'
    <3>1. CASE k = req[r].key
      BY <2>4, <3>1
    <3>2. CASE k \in renditions
      BY <2>3, <2>5, <2>6, <2>8, <3>2 DEF Kept
    <3> QED
      BY <2>6, <3>1, <3>2
  <2> QED
    BY <1>1, <2>7, <2>8 DEF Kept, Files!Live
<1>12. \A k \in renditions' : k \in renditions \/ (k \in Nat /\ 1 <= k /\ k <= etags)
  BY <1>1, <1>4, <1>5
<1> QED
  BY <1>1, <1>3, <1>4, <1>6, <1>9, <1>10, <1>11, <1>12, RenditionMoves

\* A rendition that failed removes the object it may have stored.
LEMMA DiscardKeeps ==
  ASSUME FileInv, NEW r \in FileSlots, Files!DiscardRendition(r)
  PROVE  FileInv'
<1>1. /\ req[r].op = "rendition" /\ req[r].pc = "discard" /\ Files!Goto(r, "latestFailed")
      /\ renditions' = renditions \ {req[r].key}
      /\ UNCHANGED <<doc, primary, upload, infected, url, overlay, requested, ackLost, overtaken,
                     late, replaced, etags, fileRequests, fileFaults>>
  BY DEF Files!DiscardRendition, Files!At, Files!source, Files!counters, Files!history
<1>2. PICK q : Moved(r, q, "latestFailed")
  BY <1>1, GotoMoves DEF FilePlaces
<1>3. /\ q \in FileRequests /\ req' = [req EXCEPT ![r] = q] /\ q.op = "rendition"
      /\ q.pc = "latestFailed" /\ q.snap = req[r].snap /\ q.key = req[r].key
      /\ q.source = req[r].source
  BY <1>1, <1>2 DEF Moved
<1>4. RequestTrue(req[r]) /\ Keyed(req[r]) /\ Rendering(req[r]) /\ ~ Judging(req[r])
  BY <1>1, FileFacts DEF Keyed, Rendering, Judging, Completing
<1>5. /\ 1 <= req[r].key /\ req[r].key <= etags
      /\ ~ackLost /\ doc.rendition.key = req[r].key => doc.rendition.status = "pending"
  BY <1>4 DEF RequestTrue, RenditionTrue
<1>6. RequestTrue(q)'
  <2>1. ReadTrue(q)'
    BY <1>1, <1>3, <1>4 DEF RequestTrue, ReadTrue, Placed, Creators
  <2>2. ContentTrue(q)'
    BY <1>3 DEF ContentTrue, Completing
  <2>3. RenditionTrue(q)'
    BY <1>1, <1>3, <1>4, <1>5 DEF RequestTrue, RenditionTrue, Keyed, Rendering, Fixed
  <2> QED
    BY <2>1, <2>2, <2>3 DEF RequestTrue
<1>7. req'[r] = q /\ \A s \in FileSlots : s # r => req'[s] = req[s]
  BY <1>3 DEF FileInv, FileTypes
<1>8. fileFaults = 0 => ~ ackLost
  BY DEF FileInv, ManifestTrue
<1>9. ASSUME NEW s \in FileSlots, s # r
      PROVE  RenditionTrue(req[s])'
  <2>1. RenditionTrue(req[s]) /\ req'[s] = req[s]
    BY <1>7, <1>9 DEF FileInv, RequestsTrue
  <2>2. Keyed(req[s]) => req[s].key # req[r].key
    BY <1>4, <1>9 DEF FileInv, RequestsApart
  <2>3. req[s].op = "rendition" /\ req[s].pc \in {"latest", "execute"} /\ ~ackLost /\ ~requested
        => req[s].key \in renditions'
    BY <1>1, <2>1, <2>2 DEF RenditionTrue, Keyed, Rendering, Fixed
  <2> QED
    BY <1>1, <2>1, <2>3 DEF RenditionTrue, Keyed, Rendering, Fixed
<1>10. ManifestTrue'
  BY <1>1, <1>5, <1>8 DEF FileInv, ManifestTrue, Fixed
<1>11. Kept'
  <2> SUFFICES ASSUME fileFaults = 0 PROVE Kept'
    BY <1>1 DEF Kept
  <2>1. \A s \in FileSlots : s # r /\ Storing(req[s]) => Storing(req'[s]) /\ req'[s].key = req[s].key
    BY <1>7
  <2>2. \A s \in FileSlots : req'[s].op = "delete" => req'[s] = req[s]
    BY <1>3, <1>7
  <2>3. \A k \in renditions' : k \in renditions /\ k # req[r].key
    BY <1>1
  <2>4. \A k \in renditions' : Excused(k) => Excused(k)'
    BY <1>1, <2>1, <2>3 DEF Excused, Stored, Storing, Fixed
  <2>5. Kept
    BY DEF FileInv
  <2> QED
    BY <1>1, <2>2, <2>3, <2>4, <2>5 DEF Kept, Files!Live
<1>12. \A k \in renditions' : k \in renditions
  BY <1>1
<1> QED
  BY <1>1, <1>3, <1>4, <1>6, <1>9, <1>10, <1>11, <1>12, RenditionMoves

\* A deletion removes the object that the manifest named when it was read.
LEMMA DeleteRenditionKeeps ==
  ASSUME FileInv, NEW r \in FileSlots, Files!DeleteRenditionObject(r)
  PROVE  FileInv'
<1>1. /\ req[r].op = "delete" /\ req[r].pc = "deleteRendition" /\ Files!Goto(r, "remove")
      /\ renditions' = renditions \ {req[r].snap.rendition.key}
      /\ UNCHANGED <<doc, primary, upload, infected, url, overlay, requested, ackLost, overtaken,
                     late, replaced, etags, fileRequests, fileFaults>>
  BY DEF Files!DeleteRenditionObject, Files!At, Files!source, Files!counters, Files!history
<1>2. PICK q : Moved(r, q, "remove")
  BY <1>1, GotoMoves DEF FilePlaces
<1>3. /\ q \in FileRequests /\ req' = [req EXCEPT ![r] = q] /\ q.op = "delete"
      /\ q.pc = "remove" /\ q.snap = req[r].snap /\ ~ Keyed(q) /\ ~ Storing(req[r])
      /\ ~ Judging(req[r])
  BY <1>1, <1>2 DEF Moved, Keyed, Rendering, Storing, Judging, Completing
<1>4. RequestTrue(req[r]) /\ requested
  BY <1>1, FileFacts DEF RequestTrue, ReadTrue
<1>5. RequestTrue(q)'
  <2>1. ReadTrue(q)'
    BY <1>1, <1>3, <1>4 DEF RequestTrue, ReadTrue, Placed, Creators
  <2>2. ContentTrue(q)' /\ RenditionTrue(q)'
    BY <1>3 DEF ContentTrue, Completing, RenditionTrue, Keyed, Rendering, Fixed
  <2> QED
    BY <2>1, <2>2 DEF RequestTrue
<1>6. req'[r] = q /\ \A s \in FileSlots : s # r => req'[s] = req[s]
  BY <1>3 DEF FileInv, FileTypes
<1>7. ASSUME NEW s \in FileSlots, s # r
      PROVE  RenditionTrue(req[s])'
  <2>1. RenditionTrue(req[s]) /\ req'[s] = req[s]
    BY <1>6, <1>7 DEF FileInv, RequestsTrue
  <2> QED
    BY <1>1, <1>4, <2>1 DEF RenditionTrue, Keyed, Rendering, Fixed
<1>8. ManifestTrue'
  BY <1>1, <1>4 DEF FileInv, ManifestTrue, Fixed
<1>9. Kept'
  <2> SUFFICES ASSUME fileFaults = 0 PROVE Kept'
    BY <1>1 DEF Kept
  <2>1. \A s \in FileSlots : Storing(req[s]) => Storing(req'[s]) /\ req'[s].key = req[s].key
    BY <1>3, <1>6
  <2>2. \A k : Excused(k) => Excused(k)'
    BY <1>1, <2>1, ExcusedStays
  <2>3. Kept /\ renditions' \subseteq renditions
    BY <1>1 DEF FileInv
  <2>4. q.snap.version = doc.version => \A k \in renditions' : Excused(k)
    <3>1. q.snap.version = doc.version => req[r].snap = doc
      BY <1>1, <1>3, <1>4 DEF RequestTrue, ReadTrue, Creators
    <3> QED
      BY <1>1, <2>3, <3>1 DEF Kept
  <2>5. \A t \in FileSlots :
          req'[t].op = "delete" /\ req'[t].pc = "remove" /\ req'[t].snap.version = doc.version =>
            \A k \in renditions' : Excused(k)
    BY <1>6, <2>3, <2>4 DEF Kept
  <2> QED
    BY <1>1, <2>2, <2>3, <2>5 DEF Kept, Files!Live
<1>10. \A k \in renditions' : k \in renditions
  BY <1>1
<1> QED
  BY <1>1, <1>3, <1>5, <1>7, <1>8, <1>9, <1>10, RenditionMoves

-----------------------------------------------------------------------------
(* FileInv holds.                                                          *)

\* Another overlay: what was left to the lock is excused from now on.
LEMMA ReplaceOverlayKeeps ==
  ASSUME FileInv, Files!ReplaceOverlay
  PROVE  FileInv'
<1>1. /\ overlay' = overlay + 1
      /\ UNCHANGED <<doc, primary, upload, renditions, infected, url, req, etags, fileRequests,
                     fileFaults, requested, ackLost, overtaken, late, replaced>>
  BY DEF Files!ReplaceOverlay, Files!objects, Files!counters, Files!history
<1>2. overlay' \in Nat \ {0} /\ overlay' # 1
  BY <1>1 DEF FileInv, FileTypes
<1>3. ~ Fixed'
  BY <1>2 DEF Fixed
<1>4. FileTypes'
  BY <1>1, <1>2 DEF FileInv, FileTypes
<1>5. RequestsTrue'
  <2> SUFFICES ASSUME NEW s \in FileSlots
               PROVE  ReadTrue(req[s])' /\ ContentTrue(req[s])' /\ RenditionTrue(req[s])'
    BY DEF RequestsTrue
  <2>1. ReadTrue(req[s]) /\ ContentTrue(req[s]) /\ RenditionTrue(req[s]) /\ req'[s] = req[s]
    BY <1>1 DEF FileInv, RequestsTrue
  <2>2. ReadTrue(req[s])'
    BY <1>1, <2>1 DEF ReadTrue, Placed
  <2>3. ContentTrue(req[s])'
    BY <1>1, <2>1 DEF ContentTrue, Completing, Sealed, Lost
  <2>4. RenditionTrue(req[s])'
    BY <1>1, <1>3, <2>1 DEF RenditionTrue, Keyed, Rendering
  <2> QED
    BY <2>2, <2>3, <2>4
<1>6. RequestsApart'
  BY <1>1 DEF FileInv, RequestsApart, Keyed, Rendering
<1>7. FileTrue' /\ ManifestTrue'
  BY <1>1, <1>3 DEF FileInv, FileTrue, ManifestTrue, Sealed, Lost
<1>8. Kept'
  <2>1. \A k : Excused(k) => Excused(k)'
    BY <1>1, <1>3 DEF Excused, Stored, Storing
  <2>2. Kept
    BY DEF FileInv
  <2> QED
    BY <1>1, <2>1, <2>2 DEF Kept, Files!Live
<1>9. Cleaned'
  BY <1>1 DEF FileInv, Cleaned, Judging, Completing
<1> QED
  BY <1>4, <1>5, <1>6, <1>7, <1>8, <1>9 DEF FileInv

LEMMA FileStep ==
  ASSUME FileInv, Files!Next
  PROVE  FileInv'
<1>1. CASE Files!ClientPut \/ Files!ReplaceOverlay
  BY <1>1, ClientPutKeeps, ReplaceOverlayKeeps
<1>2. ASSUME NEW r \in FileSlots, Files!UploadStep(r)
      PROVE  FileInv'
  BY <1>2, FirstStartsKeep, ObjectsKeep, LooksKeep, CreationsKeep, StartsKeep, ExecuteCompletionKeeps
     DEF Files!UploadStep
<1>3. ASSUME NEW r \in FileSlots, Files!MultipartStep(r)
      PROVE  FileInv'
  BY <1>3, FirstStartsKeep, MultipartKeeps, CreationsKeep, StartsKeep, StorePartKeeps, EditsKeep,
     RereadsKeep, LooksKeep DEF Files!MultipartStep
<1>4. ASSUME NEW r \in FileSlots, Files!RenditionStep(r)
      PROVE  FileInv'
  BY <1>4, StartsKeep, EditsKeep, PlanKeeps, ReserveKeeps, PutRenditionKeeps, RereadsKeep, RecordsKeep,
     DiscardKeeps DEF Files!RenditionStep
<1>5. ASSUME NEW r \in FileSlots, Files!DeleteStep(r)
      PROVE  FileInv'
  BY <1>5, StartsKeep, EditsKeep, DeletePrimaryKeeps, DeleteRenditionKeeps, RemoveKeeps
     DEF Files!DeleteStep
<1>6. ASSUME NEW r \in FileSlots, Files!FaultStep(r)
      PROVE  FileInv'
  BY <1>6, FaultsKeep, CreationsKeep DEF Files!FaultStep
<1> QED
  BY <1>1, <1>2, <1>3, <1>4, <1>5, <1>6 DEF Files!Next

LEMMA FileInits ==
  ASSUME Files!Init
  PROVE  FileInv
<1>1. /\ doc = Files!NoDoc /\ Files!NoDoc \in FileDocs /\ doc.state = "none" /\ doc.rendition.key = 0
      /\ doc.rendition = Files!NoRendition /\ Files!NoRendition.status = "none"
  BY DEF Files!Init, Files!NoDoc, Files!NoRendition, FileDocs, DocStates, Renditions
<1>2. /\ req \in [FileSlots -> FileRequests]
      /\ \A r \in FileSlots : req[r].pc = "idle"
  BY <1>1 DEF Files!Init, Files!Idle, FileRequests, FileOps, FilePlaces, Files!NoVersion
<1>3. FileTypes
  <2>1. /\ upload = "none" /\ url = "none" /\ renditions = {} /\ etags = 0 /\ fileRequests = 0
        /\ fileFaults = 0 /\ overlay = 1 /\ replaced = {}
    BY DEF Files!Init
  <2>2. /\ primary \in BOOLEAN /\ infected \in BOOLEAN /\ requested \in BOOLEAN
        /\ ackLost \in BOOLEAN /\ overtaken \in BOOLEAN /\ late \in BOOLEAN
    BY DEF Files!Init
  <2> QED
    BY <1>1, <1>2, <2>1, <2>2 DEF FileTypes
<1>4. RequestsTrue /\ RequestsApart
  BY <1>2, IdleTrue DEF RequestsTrue, RequestsApart, RequestTrue
<1>5. FileTrue
  BY <1>1, <1>2 DEF Files!Init, FileTrue
<1>6. ManifestTrue /\ Kept /\ Cleaned
  BY <1>1, <1>2 DEF Files!Init, ManifestTrue, Kept, Cleaned
<1> QED
  BY <1>3, <1>4, <1>5, <1>6 DEF FileInv

LEMMA FileStutters ==
  ASSUME FileInv, UNCHANGED fileVars
  PROVE  FileInv'
<1>1. UNCHANGED <<doc, primary, upload, renditions, infected, url, overlay, req, etags,
                  fileRequests, fileFaults, requested, ackLost, overtaken, late, replaced>>
  BY DEF fileVars
<1>2. FileTypes' /\ RequestsTrue' /\ RequestsApart' /\ FileTrue' /\ ManifestTrue'
  BY <1>1 DEF FileInv, FileTypes, RequestsTrue, RequestsApart, FileTrue, ManifestTrue, ReadTrue,
              ContentTrue, RenditionTrue, Placed, Completing, Rendering, Keyed, Fixed, Sealed, Lost
<1>3. Kept' /\ Cleaned'
  BY <1>1 DEF FileInv, Kept, Cleaned, Excused, Stored, Storing, Fixed, Judging, Completing,
              Files!Live
<1> QED
  BY <1>2, <1>3 DEF FileInv

LEMMA FilesOfSideEffects == SideEffectsSpec => []FileInv
<1>1. SideEffectsInit => FileInv
  BY FileInits DEF SideEffectsInit
<1>2. FileInv /\ [SideEffectsNext]_<<service, vars, fileVars, mailVars>> => FileInv'
  BY FileStep, FileStutters DEF SideEffectsNext
<1> QED
  BY <1>1, <1>2, PTL DEF SideEffectsSpec

(***************************************************************************)
(* A file that calls itself available has its content, however many        *)
(* completions, aborts, renditions and deletions of FileService interleave *)
(* and whichever of their calls fail: only a requested deletion, or an     *)
(* upload that takes its commit for a failure, removes it.                 *)
(***************************************************************************)
THEOREM ContentIsKept == SideEffectsSpec => []ContentKept
<1>1. FileInv => ContentKept
  BY DEF FileInv, FileTrue, Lost, ContentKept, Files!ContentKept
<1> QED
  BY <1>1, FilesOfSideEffects, PTL

(***************************************************************************)
(* Content that the scanner rejects never becomes available.  Once the     *)
(* requests of FileService are through without a fault, it is stored only  *)
(* under a reservation nobody has completed, after the command that ends a *)
(* completion was refused, or by a client that puts it again late: until   *)
(* then a request is on its way that finds out, or that removes it.        *)
(***************************************************************************)
THEOREM InfectedIsRemoved == SideEffectsSpec => []InfectedRemoved
<1>1. FileInv => InfectedRemoved
  <2> SUFFICES ASSUME FileInv, infected PROVE Files!InfectedRemoved
    BY DEF InfectedRemoved, Files!InfectedRemoved
  <2>1. doc.state # "available" /\ doc.state \in DocStates
    BY DEF FileInv, FileTrue, FileTypes, FileDocs
  <2>2. Files!Quiet => \A r \in FileSlots : req[r].pc # "cleanup" /\ ~ Judging(req[r])
    BY DEF Files!Quiet, Judging, Completing
  <2>3. Files!Quiet /\ fileFaults = 0 /\ ~late /\ primary =>
          /\ doc.state # "scan_failed"
          /\ doc.state = "upload_pending" \/ (overtaken /\ doc.state # "none")
    BY <2>2 DEF FileInv, Cleaned
  <2> QED
    BY <2>1, <2>3 DEF Files!InfectedRemoved, DocStates
<1> QED
  BY <1>1, FilesOfSideEffects, PTL

(***************************************************************************)
(* Once the requests of FileService are through without a fault, every     *)
(* rendition object is named by the manifest of a live document, or its    *)
(* entry was replaced after the overlay had changed; and an entry marked   *)
(* available has its object until a deletion is requested.  The key of a   *)
(* rendition is fresh, its pending entry keeps out others of the same      *)
(* sources, and a request that is overtaken discards what it stored.       *)
(***************************************************************************)
THEOREM RenditionsAreOwned == SideEffectsSpec => []RenditionsOwned
<1>1. FileInv => RenditionsOwned
  <2> SUFFICES ASSUME FileInv PROVE Files!RenditionsOwned
    BY DEF RenditionsOwned
  <2>1. Files!Live(doc) /\ doc.rendition.status = "available" /\ ~requested /\ ~ackLost =>
          doc.rendition.key \in renditions
    BY DEF FileInv, ManifestTrue
  <2>2. ASSUME Files!Quiet, fileFaults = 0, NEW k \in renditions
        PROVE  \/ Files!Live(doc) /\ doc.rendition.status = "available" /\ doc.rendition.key = k
               \/ overlay > 1 /\ k \in replaced
    <3>1. ~ Stored(k)
      BY <2>2 DEF Files!Quiet, Stored, Storing
    <3>2. ~ Fixed => overlay > 1
      BY DEF FileInv, FileTypes, Fixed
    <3> QED
      BY <2>2, <3>1, <3>2 DEF FileInv, Kept, Excused
  <2> QED
    BY <2>1, <2>2 DEF Files!RenditionsOwned
<1> QED
  BY <1>1, FilesOfSideEffects, PTL
=============================================================================
