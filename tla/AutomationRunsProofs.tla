------------------------ MODULE AutomationRunsProofs ------------------------
(***************************************************************************)
(* Proofs about AutomationRuns, for any documents, rules, drains and       *)
(* bounds: chains of automations are cut off, a delivered run took effect, *)
(* no action is applied blindly, and delivered and dead are final.         *)
(*                                                                         *)
(* The inductive invariant is IInv.  Its heart is DrainOK: what a drain    *)
(* may rely on at each await, given that between two of its own steps the  *)
(* store only grows (Grows): streams of documents are appended to, and a   *)
(* run record that changes gets a new version.                             *)
(***************************************************************************)
EXTENDS AutomationRuns, InductionLemmas, FiniteSetTheorems

Values == EditValues \cup {Initial, Deleted} \cup {Patch[rule] : rule \in Rules}

Events == [value : Values, action : Nat, path : Seq(Rules)]

Statuses == {"pending", "claimed", "failed", "delivered", "dead"}

Runs == [rule : Rules, path : Seq(Rules), status : Statuses, attempts : Nat,
         claim : ClaimIds \cup {NoClaim}, version : Nat, due : BOOLEAN]

Places == {"idle", "list", "read", "append", "applied", "target", "update", "recheck"}

Ops == {"none", "claim", "deliver", "fail", "deadLetter"}

Drains == [claim : ClaimIds \cup {NoClaim}, now : SUBSET (Nat \X Nat),
           selected : SUBSET Nat, claimed : SUBSET (Nat \X Nat), op : Ops,
           attempt : Nat, version : Nat, expected : Nat]

\* The type of the state.
TypeOK ==
  /\ docs \in [Docs -> Seq(Events)]
  /\ \A d \in Docs : docs[d] # <<>>
  /\ runs \in Seq(Runs)
  /\ pc \in [Workers -> Places]
  /\ drain \in [Workers -> Drains]
  /\ edits \in Nat
  /\ faults \in Nat

\* The run that a drain is on.
CurrentOf(dr) ==
  IF dr.op = "claim" THEN First(dr.selected) ELSE First({c[1] : c \in dr.claimed})

\* The action of run r is in its target, or was found not to be needed.
TookEffect(rs, ds, found, r) ==
  \/ \E i \in 1..Len(ds[Target[rs[r].rule]]) : ds[Target[rs[r].rule]][i].action = r
  \/ r \in found

\* The runs a drain works on exist, and those it has claimed were once alive.
Working(rs, place, dr) ==
  /\ dr.selected \subseteq 1..Len(rs)
  /\ \A c \in dr.claimed : c[1] \in 1..Len(rs) /\ rs[c[1]].attempts > 0
  /\ place \in {"read", "append"} =>
       /\ dr.op # "none"
       /\ dr.op = "claim" => dr.selected # {}
       /\ dr.op # "claim" => dr.claimed # {}
  /\ place \in {"applied", "target", "update", "recheck"} =>
       dr.op = "none" /\ dr.claimed # {}

\* An event is planned for a record as it was at the version that was read.
PlanOK(rs, dr) ==
  LET record == rs[CurrentOf(dr)]
  IN  /\ dr.version <= record.version
      /\ dr.version = record.version =>
           IF dr.op = "claim" THEN record.status \in {"pending", "failed", "claimed"}
           ELSE record.status = "claimed"

\* An update is planned for a target that was not yet as the patch wants it.
UpdateOK(rs, ds, dr) ==
  LET rule == rs[CurrentOf(dr)].rule
      stream == ds[Target[rule]]
  IN  /\ dr.expected > 0
      /\ dr.expected <= Len(stream)
      /\ dr.expected = Len(stream) => stream[Len(stream)].value # Patch[rule]

DrainOK(rs, ds, found, place, dr) ==
  /\ Working(rs, place, dr)
  /\ dr.op = "deliver" /\ place \in {"read", "append"} =>
       TookEffect(rs, ds, found, CurrentOf(dr))
  /\ place = "append" => PlanOK(rs, dr)
  /\ place = "update" => UpdateOK(rs, ds, dr)

\* A run that is alive, or ever was, is within the limits.
RunsOK(rs) ==
  \A r \in 1..Len(rs) :
    rs[r].status # "dead" \/ rs[r].attempts > 0 => WithinLimits(rs[r].path)

\* Events are within the limits, and a run's action changes its target.
StreamOK(stream) ==
  \A i \in 1..Len(stream) :
    /\ WithinLimits(stream[i].path)
    /\ stream[i].action # NoAction =>
         i > 1 /\ stream[i - 1].value # stream[i].value

EffectsOK(rs, ds, found) ==
  \A r \in 1..Len(rs) : rs[r].status = "delivered" => TookEffect(rs, ds, found, r)

IInv ==
  /\ TypeOK
  /\ RunsOK(runs)
  /\ \A d \in Docs : StreamOK(docs[d])
  /\ EffectsOK(runs, docs, satisfied)
  /\ \A w \in Workers : DrainOK(runs, docs, satisfied, pc[w], drain[w])

-----------------------------------------------------------------------------
(* Chains.                                                                 *)

\* A key occurs once more in a path that it is appended to.
LEMMA OccurrencesAppend ==
  ASSUME NEW path \in Seq(Rules), NEW key \in Rules, NEW rule \in Rules
  PROVE  /\ Occurrences(rule, path) \in Nat
         /\ Occurrences(rule, Append(path, key)) =
              IF rule = key THEN Occurrences(rule, path) + 1 ELSE Occurrences(rule, path)
<1> DEFINE n == Len(path)
           S == {i \in 1..n : path[i] = rule}
           longer == Append(path, key)
           T == {i \in 1..Len(longer) : longer[i] = rule}
<1>1. /\ n \in Nat /\ Len(longer) = n + 1
      /\ longer[n + 1] = key /\ \A i \in 1..n : longer[i] = path[i]
  OBVIOUS
<1>2. IsFiniteSet(S) /\ Cardinality(S) \in Nat
  <2>1. IsFiniteSet(1..n)
    BY <1>1, FS_Interval
  <2>2. QED
    BY <2>1, FS_Subset, FS_CardinalityType
<1>3. n + 1 \notin S
  BY <1>1
<1> HIDE DEF longer
<1>4. T = IF rule = key THEN S \cup {n + 1} ELSE S
  BY <1>1
<1> HIDE DEF S, T, n
<1>5. Cardinality(S \cup {n + 1}) = Cardinality(S) + 1
  BY <1>2, <1>3, FS_AddElement
<1>6. Occurrences(rule, path) = Cardinality(S) /\ Occurrences(rule, longer) = Cardinality(T)
  BY DEF Occurrences, S, T, n
<1>7. QED
  BY <1>2, <1>4, <1>5, <1>6 DEF longer

\* A user's commit starts a chain that is within every limit.
LEMMA EmptyPathWithinLimits == WithinLimits(<<>>)
<1>1. \A rule : Occurrences(rule, <<>>) = 0
  <2> SUFFICES ASSUME NEW rule PROVE Occurrences(rule, <<>>) = 0
    OBVIOUS
  <2>1. {i \in 1..Len(<<>>) : <<>>[i] = rule} = {}
    OBVIOUS
  <2>2. QED
    BY <2>1, FS_EmptySet DEF Occurrences
<1>2. QED
  BY <1>1, NumbersAssumption DEF WithinLimits

\* planEnqueueFromDomainEvent: a new run is alive only within the limits.
LEMMA NewRunOK ==
  ASSUME NEW path \in Seq(Rules), WithinLimits(path), NEW rule \in Rules
  PROVE  /\ NewRun(rule, path) \in Runs
         /\ NewRun(rule, path).attempts = 0
         /\ NewRun(rule, path).status \in {"pending", "dead"}
         /\ NewRun(rule, path).status # "dead" => WithinLimits(NewRun(rule, path).path)
<1>1. Append(path, rule) \in Seq(Rules) /\ Len(Append(path, rule)) = Len(path) + 1
  OBVIOUS
<1>2. /\ NewRun(rule, path) \in Runs /\ NewRun(rule, path).attempts = 0
      /\ NewRun(rule, path).status \in {"pending", "dead"}
      /\ NewRun(rule, path).path = Append(path, rule)
      /\ NewRun(rule, path).status # "dead" => ~ Suppressed(path, rule)
  BY <1>1 DEF NewRun, Runs, Statuses
<1>3. ASSUME ~ Suppressed(path, rule) PROVE WithinLimits(Append(path, rule))
  <2>1. Len(path) + 1 <= MaxDepth /\ Occurrences(rule, path) + 1 <= MaxPathRepeats
    BY <1>3, OccurrencesAppend, NumbersAssumption DEF Suppressed
  <2>2. \A key \in Rules : Occurrences(key, Append(path, rule)) <= MaxPathRepeats
    BY <2>1, OccurrencesAppend DEF WithinLimits
  <2>3. QED
    BY <1>1, <2>1, <2>2 DEF WithinLimits
<1>4. QED
  BY <1>2, <1>3

-----------------------------------------------------------------------------
(* The store grows.                                                        *)

\* What every step does to documents, runs and the observer.
Grows(rs, ds, found, rs2, ds2, found2) ==
  /\ rs2 \in Seq(Runs)
  /\ ds2 \in [Docs -> Seq(Events)]
  /\ Len(rs) <= Len(rs2)
  /\ \A r \in 1..Len(rs) :
       /\ rs2[r].rule = rs[r].rule
       /\ rs2[r].path = rs[r].path
       /\ rs2[r].attempts >= rs[r].attempts
       /\ rs2[r].version >= rs[r].version
       /\ rs2[r].version = rs[r].version => rs2[r].status = rs[r].status
  /\ \A d \in Docs :
       /\ Len(ds[d]) <= Len(ds2[d])
       /\ \A i \in 1..Len(ds[d]) : ds2[d][i] = ds[d][i]
  /\ found \subseteq found2

\* The run a drain is on is one of those it works on.
LEMMA FirstIn ==
  ASSUME NEW S \in SUBSET Nat, S # {}
  PROVE  First(S) \in S
<1>1. \E r \in S : \A q \in S : r <= q
  BY LeastNatural
<1>2. QED
  BY <1>1 DEF First

LEMMA CurrentIn ==
  ASSUME NEW rs \in Seq(Runs), NEW dr \in Drains, NEW place \in Places \ {"idle", "list"},
         Working(rs, place, dr)
  PROVE  /\ CurrentOf(dr) \in 1..Len(rs)
         /\ dr.op = "claim" => CurrentOf(dr) \in dr.selected
         /\ dr.op # "claim" => rs[CurrentOf(dr)].attempts > 0
<1> DEFINE ids == {c[1] : c \in dr.claimed}
<1>1. ids \in SUBSET Nat /\ dr.selected \in SUBSET Nat
  BY DEF Drains
<1>2. CASE dr.op = "claim"
  <2>1. dr.selected # {} /\ CurrentOf(dr) = First(dr.selected)
    BY <1>2 DEF Working, Places, CurrentOf
  <2>2. QED
    BY <1>1, <1>2, <2>1, FirstIn DEF Working
<1>3. CASE dr.op # "claim"
  <2>1. ids # {} /\ CurrentOf(dr) = First(ids)
    BY <1>3 DEF Working, Places, CurrentOf
  <2>2. CurrentOf(dr) \in ids
    BY <1>1, <2>1, FirstIn
  <2>3. QED
    BY <1>3, <2>2 DEF Working
<1>4. QED
  BY <1>2, <1>3

\* What took effect stays so.
LEMMA TookEffectGrows ==
  ASSUME NEW rs \in Seq(Runs), NEW ds \in [Docs -> Seq(Events)], NEW found,
         NEW rs2, NEW ds2, NEW found2,
         Grows(rs, ds, found, rs2, ds2, found2),
         NEW r \in 1..Len(rs), TookEffect(rs, ds, found, r)
  PROVE  TookEffect(rs2, ds2, found2, r)
<1> DEFINE d == Target[rs[r].rule]
<1>1. rs[r] \in Runs
  OBVIOUS
<1>2. d \in Docs
  BY <1>1, DocsAssumption DEF Runs
<1>3. rs2[r].rule = rs[r].rule /\ found \subseteq found2
  BY DEF Grows
<1>4. /\ Len(ds[d]) <= Len(ds2[d]) /\ Len(ds[d]) \in Nat /\ Len(ds2[d]) \in Nat
      /\ \A i \in 1..Len(ds[d]) : ds2[d][i] = ds[d][i]
  BY <1>2 DEF Grows
<1>5. \/ r \in found
      \/ \E i \in 1..Len(ds[d]) : ds[d][i].action = r
  BY DEF TookEffect
<1>6. \/ r \in found2
      \/ \E i \in 1..Len(ds2[d]) : ds2[d][i].action = r
  BY <1>3, <1>4, <1>5
<1>7. QED
  BY <1>3, <1>6 DEF TookEffect

\* A drain may go on relying on what it relies on, whatever others do.
LEMMA DrainGrows ==
  ASSUME NEW rs \in Seq(Runs), NEW ds \in [Docs -> Seq(Events)], NEW found,
         NEW rs2, NEW ds2, NEW found2,
         Grows(rs, ds, found, rs2, ds2, found2),
         NEW place \in Places, NEW dr \in Drains, DrainOK(rs, ds, found, place, dr)
  PROVE  DrainOK(rs2, ds2, found2, place, dr)
<1>1. rs2 \in Seq(Runs) /\ Len(rs) <= Len(rs2) /\ ds2 \in [Docs -> Seq(Events)]
  BY DEF Grows
<1>2. Working(rs2, place, dr)
  <2>1. \A c \in dr.claimed : c[1] \in 1..Len(rs2) /\ rs2[c[1]].attempts > 0
    <3> SUFFICES ASSUME NEW c \in dr.claimed
                 PROVE  c[1] \in 1..Len(rs2) /\ rs2[c[1]].attempts > 0
      OBVIOUS
    <3>1. Working(rs, place, dr)
      BY DEF DrainOK
    <3>2. c[1] \in 1..Len(rs) /\ rs[c[1]].attempts > 0
      BY <3>1 DEF Working
    <3>3. rs2[c[1]].attempts >= rs[c[1]].attempts /\ c[1] \in 1..Len(rs2)
      BY <1>1, <3>2 DEF Grows
    <3>4. rs2[c[1]] \in Runs /\ rs[c[1]] \in Runs
      BY <1>1, <3>2, <3>3
    <3>5. rs2[c[1]].attempts \in Nat /\ rs[c[1]].attempts \in Nat
      BY <3>4 DEF Runs
    <3>6. QED
      BY <3>2, <3>3, <3>5
  <2>2. dr.selected \subseteq 1..Len(rs2)
    BY <1>1 DEF DrainOK, Working
  <2>3. QED
    BY <2>1, <2>2 DEF DrainOK, Working
<1> DEFINE r == CurrentOf(dr)
<1>3. CASE place \in {"idle", "list"}
  BY <1>2, <1>3 DEF DrainOK
<1>4. CASE place \notin {"idle", "list"}
  <2>1. r \in 1..Len(rs)
    BY <1>4, CurrentIn DEF DrainOK
  <2>2. /\ rs[r] \in Runs /\ rs2[r] \in Runs
        /\ rs2[r].rule = rs[r].rule /\ rs2[r].version >= rs[r].version
        /\ rs2[r].version = rs[r].version => rs2[r].status = rs[r].status
    BY <1>1, <2>1 DEF Grows
  <2>3. Target[rs[r].rule] \in Docs
    BY <2>2, DocsAssumption DEF Runs
  <2> HIDE DEF r
  <2>4. dr.op = "deliver" /\ place \in {"read", "append"} => TookEffect(rs2, ds2, found2, r)
    BY <2>1, TookEffectGrows DEF DrainOK, r
  <2>5. place = "append" => PlanOK(rs2, dr)
    <3>1. dr.version \in Nat /\ rs[r].version \in Nat /\ rs2[r].version \in Nat
      BY <2>2 DEF Drains, Runs
    <3>2. QED
      BY <2>2, <3>1 DEF DrainOK, PlanOK, r
  <2>6. place = "update" => UpdateOK(rs2, ds2, dr)
    <3> SUFFICES ASSUME place = "update" PROVE UpdateOK(rs2, ds2, dr)
      OBVIOUS
    <3> DEFINE d == Target[rs[r].rule]
    <3>1. /\ dr.expected > 0 /\ dr.expected <= Len(ds[d])
          /\ dr.expected = Len(ds[d]) => ds[d][Len(ds[d])].value # Patch[rs[r].rule]
      BY DEF DrainOK, UpdateOK, r
    <3>2. /\ Len(ds[d]) <= Len(ds2[d]) /\ \A i \in 1..Len(ds[d]) : ds2[d][i] = ds[d][i]
      BY <2>3 DEF Grows
    <3>3. Len(ds[d]) \in Nat /\ Len(ds2[d]) \in Nat /\ dr.expected \in Nat
      BY <1>1, <2>3 DEF Drains
    <3>4. dr.expected <= Len(ds2[d])
      BY <3>1, <3>2, <3>3
    <3>5. dr.expected = Len(ds2[d]) => ds2[d][Len(ds2[d])].value # Patch[rs[r].rule]
      BY <3>1, <3>2, <3>3
    <3>6. QED
      BY <2>2, <3>1, <3>4, <3>5 DEF UpdateOK, r
  <2>7. QED
    BY <1>2, <2>4, <2>5, <2>6 DEF DrainOK, r
<1>5. QED
  BY <1>3, <1>4

-----------------------------------------------------------------------------
(* Where a drain goes.                                                     *)

\* A good place to be, in a store with runs rs, documents ds and observer found.
Good(rs, ds, found, place, dr) ==
  place \in Places /\ dr \in Drains /\ DrainOK(rs, ds, found, place, dr)

\* What the drain is on does not depend on anything but what it works on.
LEMMA CurrentIs ==
  ASSUME NEW w \in Workers
  PROVE  Current(w) = CurrentOf(drain[w])
BY DEF Current, CurrentOf, ClaimedRuns

LEMMA EndDrainGood ==
  ASSUME NEW rs, NEW ds, NEW found
  PROVE  Good(rs, ds, found, "idle", NoDrain)
BY DEF Good, Places, Drains, NoDrain, Ops, DrainOK, Working

\* An attempt of appendRunEvent begins with a read.
LEMMA AttemptGood ==
  ASSUME NEW rs, NEW ds, NEW found, NEW dr \in Drains, NEW n \in Nat,
         NEW op \in {"claim", "deliver", "fail", "deadLetter"}, NEW place,
         Working(rs, place, dr),
         op = "claim" => dr.selected # {} /\ dr.op = "claim",
         op # "claim" => dr.claimed # {} /\ dr.op # "claim",
         op = "deliver" => TookEffect(rs, ds, found, CurrentOf(dr))
  PROVE  Good(rs, ds, found, "read", [dr EXCEPT !.op = op, !.attempt = n, !.version = 0])
<1> DEFINE next == [dr EXCEPT !.op = op, !.attempt = n, !.version = 0]
<1>1. /\ next \in Drains /\ next.op = op /\ next.selected = dr.selected
      /\ next.claimed = dr.claimed
  BY DEF Drains, Ops
<1> HIDE DEF next
<1>2. Working(rs, "read", next)
  BY <1>1 DEF Working
<1>3. op = "deliver" => CurrentOf(next) = CurrentOf(dr)
  BY <1>1 DEF CurrentOf
<1>4. DrainOK(rs, ds, found, "read", next)
  BY <1>1, <1>2, <1>3 DEF DrainOK
<1>5. QED
  BY <1>1, <1>4 DEF Good, Places, next

\* claimPending's loop and drain's loop.
LEMMA GoOnGood ==
  ASSUME IInv, NEW w \in Workers, NEW rs, NEW ds, NEW found,
         NEW selected \in SUBSET Nat, NEW claimed \in SUBSET (Nat \X Nat),
         selected \subseteq 1..Len(rs),
         \A c \in claimed : c[1] \in 1..Len(rs) /\ rs[c[1]].attempts > 0,
         GoOn(w, selected, claimed)
  PROVE  \E place, dr : Go(w, place, dr) /\ Good(rs, ds, found, place, dr)
<1> DEFINE next == [drain[w] EXCEPT !.selected = selected, !.claimed = claimed,
                                    !.op = "none", !.attempt = 0, !.version = 0,
                                    !.expected = 0]
           claiming == [next EXCEPT !.op = "claim", !.attempt = 1]
<1>1. drain[w] \in Drains
  BY DEF IInv, TypeOK
<1>2. /\ next \in Drains /\ next.op = "none" /\ next.selected = selected
      /\ next.claimed = claimed
      /\ claiming \in Drains /\ claiming.op = "claim" /\ claiming.selected = selected
      /\ claiming.claimed = claimed
  BY <1>1 DEF Drains, Ops
<1>3. CASE selected # {}
  <2>1. Go(w, "read", claiming)
    BY <1>3 DEF GoOn
  <2> HIDE DEF claiming, next
  <2>2. Good(rs, ds, found, "read", claiming)
    BY <1>2, <1>3 DEF Good, Places, DrainOK, Working
  <2>3. QED
    BY <2>1, <2>2
<1>4. CASE selected = {} /\ claimed # {}
  <2>1. Go(w, "applied", next)
    BY <1>4 DEF GoOn
  <2> HIDE DEF claiming, next
  <2>2. Good(rs, ds, found, "applied", next)
    BY <1>2, <1>4 DEF Good, Places, DrainOK, Working
  <2>3. QED
    BY <2>1, <2>2
<1>5. CASE selected = {} /\ claimed = {}
  <2>1. Go(w, "idle", NoDrain)
    BY <1>5 DEF GoOn, EndDrain
  <2>2. QED
    BY <2>1, EndDrainGood
<1>6. QED
  BY <1>3, <1>4, <1>5

\* An operation returns; the runs it claimed have been paid for.
LEMMA ReturnGood ==
  ASSUME IInv, NEW w \in Workers, NEW rs, NEW ds, NEW found, NEW place,
         Working(rs, place, drain[w]),
         NEW newly \in SUBSET (Nat \X Nat),
         drain[w].op = "claim" =>
           \A c \in newly : c[1] \in 1..Len(rs) /\ rs[c[1]].attempts > 0,
         Return(w, newly)
  PROVE  \E place2, dr : Go(w, place2, dr) /\ Good(rs, ds, found, place2, dr)
<1>1. drain[w] \in Drains
  BY DEF IInv, TypeOK
<1>2. /\ drain[w].selected \in SUBSET Nat /\ drain[w].claimed \in SUBSET (Nat \X Nat)
      /\ drain[w].selected \subseteq 1..Len(rs)
      /\ \A c \in drain[w].claimed : c[1] \in 1..Len(rs) /\ rs[c[1]].attempts > 0
  BY <1>1 DEF Drains, Working
<1>3. CASE drain[w].op = "claim"
  <2> DEFINE selected == drain[w].selected \ {Current(w)}
             claimed == drain[w].claimed \cup newly
  <2>1. GoOn(w, selected, claimed)
    BY <1>3 DEF Return
  <2>2. /\ selected \in SUBSET Nat /\ claimed \in SUBSET (Nat \X Nat)
        /\ selected \subseteq 1..Len(rs)
        /\ \A c \in claimed : c[1] \in 1..Len(rs) /\ rs[c[1]].attempts > 0
    BY <1>2, <1>3
  <2> HIDE DEF selected, claimed
  <2>3. QED
    BY <2>1, <2>2, GoOnGood
<1>4. CASE drain[w].op # "claim"
  <2> DEFINE claimed == {c \in drain[w].claimed : c[1] # Current(w)}
  <2>1. GoOn(w, {}, claimed)
    BY <1>4 DEF Return
  <2>2. /\ {} \in SUBSET Nat /\ claimed \in SUBSET (Nat \X Nat)
        /\ {} \subseteq 1..Len(rs)
        /\ \A c \in claimed : c[1] \in 1..Len(rs) /\ rs[c[1]].attempts > 0
    BY <1>2
  <2> HIDE DEF claimed
  <2>3. QED
    BY <2>1, <2>2, GoOnGood
<1>5. QED
  BY <1>3, <1>4

\* An exception fails the run, or ends the drain.
LEMMA ThrowGood ==
  ASSUME IInv, NEW w \in Workers, NEW rs, NEW ds, NEW found,
         NEW place \in Places \ {"idle", "list"},
         Working(rs, place, drain[w]), Throw(w)
  PROVE  \E place2, dr : Go(w, place2, dr) /\ Good(rs, ds, found, place2, dr)
<1>1. drain[w] \in Drains
  BY DEF IInv, TypeOK
<1>2. CASE drain[w].op \in {"none", "deliver"}
  <2>1. PICK op \in {"fail", "deadLetter"} : StartAttempt(w, op, 1)
    BY <1>2 DEF Throw, Fail
  <2>2. drain[w].claimed # {} /\ drain[w].op # "claim" /\ 1 \in Nat
    BY <1>2 DEF Working, Places
  <2>3. Good(rs, ds, found, "read", [drain[w] EXCEPT !.op = op, !.attempt = 1, !.version = 0])
    BY <1>1, <2>2, AttemptGood
  <2>4. QED
    BY <2>1, <2>3 DEF StartAttempt
<1>3. CASE drain[w].op \notin {"none", "deliver"}
  <2>1. Go(w, "idle", NoDrain)
    BY <1>3 DEF Throw, EndDrain
  <2>2. QED
    BY <2>1, EndDrainGood
<1>4. QED
  BY <1>2, <1>3

-----------------------------------------------------------------------------
(* What the steps do to the store.                                         *)

\* A finished run is left as it is.
RunsFinal ==
  \A r \in 1..Len(runs) : runs[r].status \in {"delivered", "dead"} => runs'[r] = runs[r]

\* A step that keeps the store good.
StoreStep ==
  /\ Grows(runs, docs, satisfied, runs', docs', satisfied')
  /\ RunsOK(runs')
  /\ \A d \in Docs : StreamOK(docs'[d])
  /\ EffectsOK(runs', docs', satisfied')
  /\ RunsFinal

\* Reading, and time, leave it as it is, whatever the observer has seen.
LEMMA QuietStore ==
  ASSUME IInv, UNCHANGED <<docs, runs>>, satisfied \subseteq satisfied'
  PROVE  StoreStep
<1>1. runs \in Seq(Runs) /\ docs \in [Docs -> Seq(Events)]
  BY DEF IInv, TypeOK
<1>2. \A r \in 1..Len(runs) : runs[r] \in Runs
  BY <1>1
<1>3. \A r \in 1..Len(runs) : runs[r].attempts \in Nat /\ runs[r].version \in Nat
  BY <1>2 DEF Runs
<1>4. \A d \in Docs : Len(docs[d]) \in Nat
  BY <1>1
<1>5. Grows(runs, docs, satisfied, runs', docs', satisfied')
  BY <1>1, <1>3, <1>4 DEF Grows
<1>6. EffectsOK(runs', docs', satisfied')
  BY DEF IInv, EffectsOK, TookEffect
<1>7. QED
  BY <1>5, <1>6 DEF StoreStep, IInv, RunsFinal

\* What is appended comes after what was there.
LEMMA Concatenation ==
  ASSUME NEW S, NEW s \in Seq(S), NEW t \in Seq(S)
  PROVE  /\ s \o t \in Seq(S) /\ Len(s \o t) = Len(s) + Len(t) /\ Len(t) \in Nat
         /\ \A i \in 1..Len(s) : (s \o t)[i] = s[i]
         /\ \A i \in (Len(s) + 1)..Len(s \o t) :
              (s \o t)[i] = t[i - Len(s)] /\ i - Len(s) \in 1..Len(t)
<1>1. s \o t \in Seq(S) /\ Len(s \o t) = Len(s) + Len(t) /\ Len(t) \in Nat /\ Len(s) \in Nat
  OBVIOUS
<1>2. \A i \in 1..Len(s) : (s \o t)[i] = s[i]
  OBVIOUS
<1>3. ASSUME NEW i \in (Len(s) + 1)..(Len(s) + Len(t))
      PROVE  (s \o t)[i] = t[i - Len(s)] /\ i - Len(s) \in 1..Len(t)
  BY <1>1
<1>4. QED
  BY <1>1, <1>2, <1>3

\* A commit of a document: users start chains, runs continue them.
LEMMA CommitStore ==
  ASSUME IInv, NEW d \in Docs, NEW event \in Events, WithinLimits(event.path),
         event.action # NoAction => Value(d) # event.value,
         CommitUpdate(d, event), satisfied' = satisfied
  PROVE  /\ StoreStep
         /\ \E i \in 1..Len(docs'[d]) : docs'[d][i] = event
<1> DEFINE n == Len(runs)
           rules == RulesOn[d]
           added == [k \in 1..Len(rules) |-> NewRun(rules[k], event.path)]
<1>1. runs \in Seq(Runs) /\ docs \in [Docs -> Seq(Events)] /\ n \in Nat /\ docs[d] # <<>>
  BY DEF IInv, TypeOK
<1>2. rules \in Seq(Rules) /\ Len(rules) \in Nat /\ event.path \in Seq(Rules)
  BY DocsAssumption DEF Events
<1>3. \A k \in 1..Len(rules) :
        /\ NewRun(rules[k], event.path) \in Runs
        /\ NewRun(rules[k], event.path).attempts = 0
        /\ NewRun(rules[k], event.path).status \in {"pending", "dead"}
        /\ NewRun(rules[k], event.path).status # "dead"
             => WithinLimits(NewRun(rules[k], event.path).path)
  <2>1. \A k \in 1..Len(rules) : rules[k] \in Rules
    BY <1>2
  <2>2. QED
    BY <1>2, <2>1, NewRunOK
<1>4. added \in Seq(Runs) /\ Len(added) = Len(rules)
  BY <1>2, <1>3
<1>5. \A k \in 1..Len(added) :
        /\ added[k].attempts = 0 /\ added[k].status \in {"pending", "dead"}
        /\ added[k].status # "dead" => WithinLimits(added[k].path)
  BY <1>3, <1>4
<1>6. runs' = runs \o added /\ docs' = [docs EXCEPT ![d] = Append(@, event)]
  BY DEF CommitUpdate
<1> HIDE DEF added
<1>7. /\ runs' \in Seq(Runs) /\ Len(runs') = n + Len(added) /\ Len(added) \in Nat
      /\ \A r \in 1..n : runs'[r] = runs[r]
      /\ \A r \in (n + 1)..Len(runs') : runs'[r] = added[r - n] /\ r - n \in 1..Len(added)
  <2> DEFINE all == runs \o added
  <2>1. /\ all \in Seq(Runs) /\ Len(all) = Len(runs) + Len(added) /\ Len(added) \in Nat
        /\ \A r \in 1..Len(runs) : all[r] = runs[r]
        /\ \A r \in (Len(runs) + 1)..Len(all) :
             all[r] = added[r - Len(runs)] /\ r - Len(runs) \in 1..Len(added)
    BY <1>1, <1>4, Concatenation
  <2>2. runs' = all
    BY <1>6
  <2> HIDE DEF all
  <2>3. QED
    BY <2>1, <2>2
<1>8. docs' \in [Docs -> Seq(Events)] /\ docs'[d] = Append(docs[d], event)
      /\ \A e \in Docs \ {d} : docs'[e] = docs[e]
  BY <1>1, <1>6
<1> DEFINE m == Len(docs[d])
<1>9. /\ Len(docs'[d]) = m + 1 /\ m \in Nat /\ m > 0 /\ docs'[d][m + 1] = event
      /\ \A i \in 1..m : docs'[d][i] = docs[d][i]
  BY <1>1, <1>8
<1> HIDE DEF m, n
<1>10. Grows(runs, docs, satisfied, runs', docs', satisfied')
  <2>1. \A r \in 1..n : runs[r] \in Runs
    BY <1>1 DEF n
  <2>2. \A r \in 1..n : runs[r].attempts \in Nat /\ runs[r].version \in Nat
    BY <2>1 DEF Runs
  <2>3. \A e \in Docs : Len(docs[e]) \in Nat
    BY <1>1
  <2>4. \A e \in Docs : /\ Len(docs[e]) <= Len(docs'[e])
                        /\ \A i \in 1..Len(docs[e]) : docs'[e][i] = docs[e][i]
    BY <1>8, <1>9, <2>3 DEF m
  <2>5. Len(runs) <= Len(runs')
    BY <1>1, <1>7 DEF n
  <2>6. QED
    BY <1>7, <1>8, <2>2, <2>4, <2>5 DEF Grows, n
<1>11. RunsOK(runs')
  <2> SUFFICES ASSUME NEW r \in 1..Len(runs'),
                      runs'[r].status # "dead" \/ runs'[r].attempts > 0
               PROVE  WithinLimits(runs'[r].path)
    BY DEF RunsOK
  <2>1. CASE r \in 1..n
    BY <1>7, <2>1 DEF IInv, RunsOK, n
  <2>2. CASE r \notin 1..n
    <3>1. r \in (n + 1)..Len(runs')
      BY <1>1, <1>7, <2>2
    <3>2. runs'[r] = added[r - n] /\ r - n \in 1..Len(added)
      BY <1>7, <3>1
    <3>3. QED
      BY <1>5, <3>2
  <2>3. QED
    BY <2>1, <2>2
<1>12. ASSUME NEW e \in Docs PROVE StreamOK(docs'[e])
  <2>1. CASE e # d
    BY <1>8, <2>1 DEF IInv
  <2>2. CASE e = d
    <3> SUFFICES ASSUME NEW i \in 1..(m + 1)
                 PROVE  /\ WithinLimits(docs'[d][i].path)
                        /\ docs'[d][i].action # NoAction =>
                             i > 1 /\ docs'[d][i - 1].value # docs'[d][i].value
      BY <1>9, <2>2 DEF StreamOK
    <3>1. CASE i = m + 1
      <4>1. i > 1 /\ i - 1 = m /\ docs'[d][i - 1] = docs[d][m] /\ docs'[d][i] = event
        BY <1>9, <3>1
      <4>2. QED
        BY <4>1 DEF Value, m
    <3>2. CASE i \in 1..m
      <4>1. /\ WithinLimits(docs[d][i].path)
            /\ docs[d][i].action # NoAction =>
                 i > 1 /\ docs[d][i - 1].value # docs[d][i].value
        BY <3>2 DEF IInv, StreamOK, m
      <4>2. docs'[d][i] = docs[d][i] /\ (i > 1 => docs'[d][i - 1] = docs[d][i - 1])
        BY <1>9, <3>2
      <4>3. QED
        BY <4>1, <4>2
    <3>3. QED
      BY <1>9, <3>1, <3>2
  <2>3. QED
    BY <2>1, <2>2
<1>13. EffectsOK(runs', docs', satisfied')
  <2> SUFFICES ASSUME NEW r \in 1..Len(runs'), runs'[r].status = "delivered"
               PROVE  TookEffect(runs', docs', satisfied', r)
    BY DEF EffectsOK
  <2>1. CASE r \in 1..n
    <3>1. r \in 1..Len(runs) /\ TookEffect(runs, docs, satisfied, r)
      BY <1>7, <2>1 DEF IInv, EffectsOK, n
    <3>2. QED
      BY <1>1, <1>10, <3>1, TookEffectGrows
  <2>2. CASE r \notin 1..n
    <3>1. r \in (n + 1)..Len(runs')
      BY <1>1, <1>7, <2>2
    <3>2. QED
      BY <1>5, <1>7, <3>1
  <2>3. QED
    BY <2>1, <2>2
<1>14. RunsFinal
  BY <1>7 DEF RunsFinal, n
<1>15. \E i \in 1..Len(docs'[d]) : docs'[d][i] = event
  <2>1. m + 1 \in 1..Len(docs'[d])
    BY <1>9
  <2>2. QED
    BY <1>9, <2>1
<1>16. QED
  BY <1>10, <1>11, <1>12, <1>13, <1>14, <1>15 DEF StoreStep

\* One record is rewritten, under the rule and the path it has.
LEMMA RecordStore ==
  ASSUME IInv, NEW r \in 1..Len(runs), NEW record \in Runs,
         runs' = [runs EXCEPT ![r] = record], UNCHANGED <<docs, satisfied>>,
         record.rule = runs[r].rule, record.path = runs[r].path,
         record.attempts >= runs[r].attempts,
         \/ record.version = runs[r].version /\ record.status = runs[r].status
         \/ record.version > runs[r].version,
         runs[r].status \notin {"delivered", "dead"},
         record.status = "delivered" => TookEffect(runs, docs, satisfied, r)
  PROVE  StoreStep
<1>1. runs \in Seq(Runs) /\ docs \in [Docs -> Seq(Events)]
  BY DEF IInv, TypeOK
<1>2. /\ runs' \in Seq(Runs) /\ Len(runs') = Len(runs) /\ runs'[r] = record
      /\ \A q \in 1..Len(runs) : q # r => runs'[q] = runs[q]
  BY <1>1
<1>3. \A q \in 1..Len(runs) : runs[q] \in Runs
  BY <1>1
<1>4. /\ \A q \in 1..Len(runs) : runs[q].attempts \in Nat /\ runs[q].version \in Nat
      /\ record.version \in Nat /\ record.attempts \in Nat
  BY <1>3 DEF Runs
<1>5. \A d \in Docs : Len(docs[d]) \in Nat
  BY <1>1
<1>6. Grows(runs, docs, satisfied, runs', docs', satisfied')
  <2>1. ASSUME NEW q \in 1..Len(runs)
        PROVE  /\ runs'[q].rule = runs[q].rule
               /\ runs'[q].path = runs[q].path
               /\ runs'[q].attempts >= runs[q].attempts
               /\ runs'[q].version >= runs[q].version
               /\ runs'[q].version = runs[q].version => runs'[q].status = runs[q].status
    <3>1. CASE q = r
      BY <1>2, <1>4, <3>1
    <3>2. CASE q # r
      BY <1>2, <1>4, <3>2
    <3>3. QED
      BY <3>1, <3>2
  <2>2. QED
    BY <1>1, <1>2, <1>5, <2>1 DEF Grows
<1>7. RunsOK(runs')
  <2> SUFFICES ASSUME NEW q \in 1..Len(runs),
                      runs'[q].status # "dead" \/ runs'[q].attempts > 0
               PROVE  WithinLimits(runs'[q].path)
    BY <1>2 DEF RunsOK
  <2>1. CASE q = r
    BY <1>2, <2>1 DEF IInv, RunsOK
  <2>2. CASE q # r
    BY <1>2, <2>2 DEF IInv, RunsOK
  <2>3. QED
    BY <2>1, <2>2
<1>8. EffectsOK(runs', docs', satisfied')
  <2> SUFFICES ASSUME NEW q \in 1..Len(runs), runs'[q].status = "delivered"
               PROVE  TookEffect(runs', docs', satisfied', q)
    BY <1>2 DEF EffectsOK
  <2>1. TookEffect(runs, docs, satisfied, q)
    BY <1>2 DEF IInv, EffectsOK
  <2>2. QED
    BY <1>1, <1>6, <2>1, TookEffectGrows
<1>9. RunsFinal
  BY <1>2 DEF RunsFinal
<1>10. QED
  BY <1>6, <1>7, <1>8, <1>9 DEF StoreStep, IInv

\* What an event makes of a record.
LEMMA ApplyOpType ==
  ASSUME NEW record \in Runs, NEW op \in {"claim", "deliver", "fail", "deadLetter"},
         NEW claimId \in ClaimIds \cup {NoClaim}
  PROVE  LET next == ApplyOp(record, op, claimId)
         IN  /\ next \in Runs /\ next.rule = record.rule /\ next.path = record.path
             /\ next.version = record.version + 1
             /\ next.attempts = (IF op = "claim" THEN record.attempts + 1 ELSE record.attempts)
             /\ next.status = "delivered" => op = "deliver"
<1> DEFINE status == CASE op = "claim" -> "claimed"
                       [] op = "deliver" -> "delivered"
                       [] op = "fail" -> "failed"
                       [] op = "deadLetter" -> "dead"
<1>1. status \in Statuses /\ (status = "delivered" => op = "deliver")
  BY DEF Statuses
<1>2. ApplyOp(record, op, claimId) =
        [record EXCEPT !.status = status,
                       !.attempts = IF op = "claim" THEN record.attempts + 1 ELSE record.attempts,
                       !.claim = claimId, !.version = record.version + 1, !.due = FALSE]
  BY DEF ApplyOp
<1>3. record.attempts \in Nat /\ record.version \in Nat
  BY DEF Runs
<1> DEFINE attempts == IF op = "claim" THEN record.attempts + 1 ELSE record.attempts
<1>4. attempts \in Nat /\ record.version + 1 \in Nat
  BY <1>3
<1> HIDE DEF status, attempts
<1>5. QED
  BY <1>1, <1>2, <1>4 DEF Runs, attempts

\* The event of appendRunEvent, at the version it was planned for.
LEMMA WrittenStore ==
  ASSUME IInv, NEW w \in Workers, pc[w] = "append",
         runs[Current(w)].version = drain[w].version,
         runs' = [runs EXCEPT ![Current(w)] = Written(w)], UNCHANGED <<docs, satisfied>>
  PROVE  /\ StoreStep
         /\ Current(w) \in 1..Len(runs')
         /\ runs'[Current(w)].attempts = Written(w).attempts
         /\ drain[w].op = "claim" => Written(w).attempts > 0
         /\ Written(w).attempts \in Nat
<1> DEFINE r == Current(w)
           dr == drain[w]
<1>1. runs \in Seq(Runs) /\ dr \in Drains /\ DrainOK(runs, docs, satisfied, "append", dr)
  BY DEF IInv, TypeOK
<1>2. Working(runs, "append", dr) /\ PlanOK(runs, dr) /\ r = CurrentOf(dr)
  BY <1>1, CurrentIs DEF DrainOK
<1>3. r \in 1..Len(runs) /\ runs[r] \in Runs
  BY <1>1, <1>2, CurrentIn DEF Places
<1>4. dr.op \in {"claim", "deliver", "fail", "deadLetter"} /\ dr.claim \in ClaimIds \cup {NoClaim}
  BY <1>1, <1>2 DEF Working, Drains, Ops
<1>5. /\ runs[r].status \notin {"delivered", "dead"}
      /\ dr.op = "deliver" => TookEffect(runs, docs, satisfied, r)
  BY <1>1, <1>2 DEF PlanOK, DrainOK
<1> DEFINE record == ApplyOp(runs[r], dr.op, dr.claim)
<1>6. /\ record \in Runs /\ record.rule = runs[r].rule /\ record.path = runs[r].path
      /\ record.version = runs[r].version + 1
      /\ record.attempts = (IF dr.op = "claim" THEN runs[r].attempts + 1 ELSE runs[r].attempts)
      /\ record.status = "delivered" => dr.op = "deliver"
  BY <1>3, <1>4, ApplyOpType
<1>7. runs[r].attempts \in Nat /\ runs[r].version \in Nat
  BY <1>3 DEF Runs
<1>8. Written(w) = record
  BY DEF Written
<1> HIDE DEF r, dr, record
<1>9. StoreStep
  <2>1. runs' = [runs EXCEPT ![r] = record]
    BY <1>8 DEF r
  <2>2. record.attempts >= runs[r].attempts /\ record.version > runs[r].version
    BY <1>6, <1>7
  <2>3. QED
    BY <1>3, <1>5, <1>6, <2>1, <2>2, RecordStore
<1>10. r \in 1..Len(runs') /\ runs'[r] = record
  BY <1>1, <1>3, <1>8 DEF r
<1>11. QED
  BY <1>6, <1>7, <1>8, <1>9, <1>10 DEF r, dr

-----------------------------------------------------------------------------
(* The steps.                                                              *)

\* One drain moves to a good place, or none does.
LEMMA KeepsInv ==
  ASSUME IInv, StoreStep, edits' \in Nat, faults' \in Nat,
         \/ UNCHANGED <<pc, drain>>
         \/ \E w \in Workers : \E place, dr :
              Go(w, place, dr) /\ Good(runs', docs', satisfied', place, dr)
  PROVE  IInv' /\ RunsFinal
<1>1. /\ runs \in Seq(Runs) /\ docs \in [Docs -> Seq(Events)]
      /\ pc \in [Workers -> Places] /\ drain \in [Workers -> Drains]
      /\ \A d \in Docs : docs[d] # <<>>
  BY DEF IInv, TypeOK
<1>2. Grows(runs, docs, satisfied, runs', docs', satisfied')
  BY DEF StoreStep
<1>3. \A w \in Workers : DrainOK(runs', docs', satisfied', pc[w], drain[w])
  BY <1>1, <1>2, DrainGrows DEF IInv
<1>4. /\ pc' \in [Workers -> Places] /\ drain' \in [Workers -> Drains]
      /\ \A w \in Workers : DrainOK(runs', docs', satisfied', pc'[w], drain'[w])
  <2>1. CASE UNCHANGED <<pc, drain>>
    BY <1>1, <1>3, <2>1
  <2>2. ASSUME NEW w \in Workers, NEW place, NEW dr, Go(w, place, dr),
               Good(runs', docs', satisfied', place, dr)
        PROVE  /\ pc' \in [Workers -> Places] /\ drain' \in [Workers -> Drains]
               /\ \A v \in Workers : DrainOK(runs', docs', satisfied', pc'[v], drain'[v])
    <3>1. /\ pc' \in [Workers -> Places] /\ drain' \in [Workers -> Drains]
          /\ pc'[w] = place /\ drain'[w] = dr
          /\ \A v \in Workers \ {w} : pc'[v] = pc[v] /\ drain'[v] = drain[v]
      BY <1>1, <2>2 DEF Go, Good
    <3>2. QED
      BY <1>3, <2>2, <3>1 DEF Good
  <2>3. QED
    BY <2>1, <2>2
<1>5. runs' \in Seq(Runs) /\ docs' \in [Docs -> Seq(Events)]
  BY <1>2 DEF Grows
<1>6. ASSUME NEW d \in Docs PROVE docs'[d] # <<>>
  <2>1. Len(docs[d]) > 0 /\ Len(docs[d]) \in Nat
    BY <1>1
  <2>2. Len(docs'[d]) >= Len(docs[d]) /\ Len(docs'[d]) \in Nat
    BY <1>2, <1>5 DEF Grows
  <2>3. QED
    BY <2>1, <2>2
<1>7. TypeOK'
  BY <1>4, <1>5, <1>6 DEF TypeOK
<1>8. QED
  BY <1>4, <1>7 DEF StoreStep, IInv

\* The same for a step that only moves a drain.
LEMMA QuietMove ==
  ASSUME IInv, NEW w \in Workers, NEW place, NEW dr, Go(w, place, dr),
         UNCHANGED <<docs, runs, edits>>, satisfied \subseteq satisfied', faults' \in Nat,
         Good(runs, docs, satisfied', place, dr)
  PROVE  IInv' /\ RunsFinal
<1>1. StoreStep
  BY QuietStore
<1>2. edits' \in Nat
  BY DEF IInv, TypeOK
<1>3. QED
  BY <1>1, <1>2, KeepsInv

\* Users: an update or a deletion of a document.
LEMMA UsersKeep ==
  ASSUME IInv, NEW d \in Docs,
         Delete(d) \/ \E value \in EditValues : Edit(d, value)
  PROVE  IInv' /\ RunsFinal
<1>1. edits' \in Nat /\ faults' \in Nat /\ UNCHANGED <<pc, drain, satisfied>>
  BY DEF Delete, Edit, IInv, TypeOK
<1>2. <<>> \in Seq(Rules) /\ NoAction \in Nat
  BY DEF NoAction
<1>3. ASSUME NEW value \in EditValues, Edit(d, value) PROVE StoreStep
  <2> DEFINE event == Event(value, NoAction, <<>>)
  <2>1. event \in Events /\ event.action = NoAction /\ event.path = <<>>
    BY <1>2 DEF Event, Events, Values
  <2>2. CommitUpdate(d, event)
    BY <1>3 DEF Edit
  <2> HIDE DEF event
  <2>3. QED
    BY <1>1, <2>1, <2>2, CommitStore, EmptyPathWithinLimits
<1>4. ASSUME Delete(d) PROVE StoreStep
  <2> DEFINE event == Event(Deleted, NoAction, <<>>)
             m == Len(docs[d])
  <2>1. event \in Events /\ event.action = NoAction /\ event.path = <<>>
    BY <1>2 DEF Event, Events, Values
  <2>2. runs' = runs /\ docs' = [docs EXCEPT ![d] = Append(@, event)]
    BY <1>4 DEF Delete
  <2>3. runs \in Seq(Runs) /\ docs \in [Docs -> Seq(Events)]
    BY DEF IInv, TypeOK
  <2> HIDE DEF event
  <2>4. docs' \in [Docs -> Seq(Events)] /\ docs'[d] = Append(docs[d], event)
        /\ \A e \in Docs \ {d} : docs'[e] = docs[e]
    BY <2>1, <2>2, <2>3
  <2>5. /\ Len(docs'[d]) = m + 1 /\ m \in Nat /\ docs'[d][m + 1] = event
        /\ \A i \in 1..m : docs'[d][i] = docs[d][i]
    BY <2>1, <2>3, <2>4
  <2> HIDE DEF m
  <2>6. Grows(runs, docs, satisfied, runs', docs', satisfied')
    <3>1. \A r \in 1..Len(runs) : runs[r] \in Runs
      BY <2>3
    <3>2. \A r \in 1..Len(runs) : runs[r].attempts \in Nat /\ runs[r].version \in Nat
      BY <3>1 DEF Runs
    <3>3. \A e \in Docs : Len(docs[e]) \in Nat
      BY <2>3
    <3>4. \A e \in Docs : /\ Len(docs[e]) <= Len(docs'[e])
                          /\ \A i \in 1..Len(docs[e]) : docs'[e][i] = docs[e][i]
      <4> SUFFICES ASSUME NEW e \in Docs
                   PROVE  /\ Len(docs[e]) <= Len(docs'[e])
                          /\ \A i \in 1..Len(docs[e]) : docs'[e][i] = docs[e][i]
        OBVIOUS
      <4>1. CASE e = d
        BY <2>5, <4>1 DEF m
      <4>2. CASE e # d
        BY <2>4, <3>3, <4>2
      <4>3. QED
        BY <4>1, <4>2
    <3>5. QED
      BY <1>1, <2>2, <2>3, <2>4, <3>2, <3>4 DEF Grows
  <2>7. ASSUME NEW e \in Docs PROVE StreamOK(docs'[e])
    <3>1. CASE e # d
      BY <2>4, <3>1 DEF IInv
    <3>2. CASE e = d
      <4> SUFFICES ASSUME NEW i \in 1..(m + 1)
                   PROVE  /\ WithinLimits(docs'[d][i].path)
                          /\ docs'[d][i].action # NoAction =>
                               i > 1 /\ docs'[d][i - 1].value # docs'[d][i].value
        BY <2>5, <3>2 DEF StreamOK
      <4>1. CASE i = m + 1
        <5>1. docs'[d][i] = event
          BY <2>5, <4>1
        <5>2. QED
          BY <2>1, <5>1, EmptyPathWithinLimits
      <4>2. CASE i \in 1..m
        <5>1. /\ WithinLimits(docs[d][i].path)
              /\ docs[d][i].action # NoAction =>
                   i > 1 /\ docs[d][i - 1].value # docs[d][i].value
          BY <4>2 DEF IInv, StreamOK, m
        <5>2. docs'[d][i] = docs[d][i] /\ (i > 1 => docs'[d][i - 1] = docs[d][i - 1])
          BY <2>5, <4>2
        <5>3. QED
          BY <5>1, <5>2
      <4>3. QED
        BY <2>5, <4>1, <4>2
    <3>3. QED
      BY <3>1, <3>2
  <2>8. EffectsOK(runs', docs', satisfied')
    BY <2>2, <2>3, <2>6, TookEffectGrows DEF IInv, EffectsOK
  <2>9. QED
    BY <2>2, <2>6, <2>7, <2>8 DEF StoreStep, RunsFinal, IInv
<1>5. QED
  BY <1>1, <1>3, <1>4, KeepsInv

\* A retryAt or a lease runs out.
LEMMA FallDueKeeps ==
  ASSUME IInv, NEW r \in RunIds, FallDue(r)
  PROVE  IInv' /\ RunsFinal
<1>1. runs \in Seq(Runs) /\ edits' \in Nat /\ faults' \in Nat
  BY DEF FallDue, IInv, TypeOK
<1>2. r \in 1..Len(runs) /\ runs[r] \in Runs
  BY <1>1 DEF RunIds
<1> DEFINE record == [runs[r] EXCEPT !.due = TRUE]
<1>3. /\ record \in Runs /\ record.rule = runs[r].rule /\ record.path = runs[r].path
      /\ record.attempts = runs[r].attempts /\ record.version = runs[r].version
      /\ record.status = runs[r].status /\ runs[r].attempts \in Nat
      /\ runs[r].status \in {"failed", "claimed"}
  BY <1>2 DEF Runs, FallDue
<1>4. runs' = [runs EXCEPT ![r] = record] /\ UNCHANGED <<docs, satisfied, pc, drain>>
  BY DEF FallDue
<1> HIDE DEF record
<1>5. StoreStep
  <2>1. record.attempts >= runs[r].attempts /\ runs[r].status \notin {"delivered", "dead"}
        /\ record.status # "delivered"
    BY <1>3
  <2>2. QED
    BY <1>2, <1>3, <1>4, <2>1, RecordStore
<1>6. QED
  BY <1>1, <1>4, <1>5, KeepsInv

\* The drain's place before a step of it.
LEMMA At ==
  ASSUME IInv, NEW w \in Workers
  PROVE  /\ runs \in Seq(Runs) /\ docs \in [Docs -> Seq(Events)]
         /\ pc[w] \in Places /\ drain[w] \in Drains /\ edits \in Nat /\ faults \in Nat
         /\ DrainOK(runs, docs, satisfied, pc[w], drain[w])
         /\ Working(runs, pc[w], drain[w])
         /\ Current(w) = CurrentOf(drain[w])
         /\ pc[w] \notin {"idle", "list"} =>
              /\ Current(w) \in 1..Len(runs)
              /\ runs[Current(w)] \in Runs
              /\ TargetOf(Current(w)) \in Docs
              /\ drain[w].op # "claim" => runs[Current(w)].attempts > 0
<1>1. /\ runs \in Seq(Runs) /\ docs \in [Docs -> Seq(Events)]
      /\ pc[w] \in Places /\ drain[w] \in Drains /\ edits \in Nat /\ faults \in Nat
      /\ DrainOK(runs, docs, satisfied, pc[w], drain[w])
      /\ Working(runs, pc[w], drain[w])
  BY DEF IInv, TypeOK, DrainOK
<1>2. Current(w) = CurrentOf(drain[w])
  BY CurrentIs
<1>3. ASSUME pc[w] \notin {"idle", "list"}
      PROVE  /\ Current(w) \in 1..Len(runs)
             /\ runs[Current(w)] \in Runs
             /\ TargetOf(Current(w)) \in Docs
             /\ drain[w].op # "claim" => runs[Current(w)].attempts > 0
  <2>1. /\ Current(w) \in 1..Len(runs)
        /\ drain[w].op # "claim" => runs[Current(w)].attempts > 0
    BY <1>1, <1>2, <1>3, CurrentIn
  <2>2. runs[Current(w)] \in Runs
    BY <1>1, <2>1
  <2>3. TargetOf(Current(w)) \in Docs
    BY <2>2, DocsAssumption DEF TargetOf, Runs
  <2>4. QED
    BY <2>1, <2>2, <2>3
<1>4. QED
  BY <1>1, <1>2, <1>3

\* drain() and claimPending's selection.
LEMMA ListingKeeps ==
  ASSUME IInv, NEW w \in Workers, Start(w) \/ List(w)
  PROVE  IInv' /\ RunsFinal
<1>1. /\ runs \in Seq(Runs) /\ drain[w] \in Drains /\ faults \in Nat
      /\ UNCHANGED <<docs, runs, edits, satisfied, faults>>
  BY At DEF Start, StartDrain, List, Unchanging
<1>2. ASSUME NEW claimId \in ClaimIds, StartDrain(w, claimId)
      PROVE  \E place, dr : Go(w, place, dr) /\ Good(runs, docs, satisfied, place, dr)
  <2> DEFINE next == [NoDrain EXCEPT !.claim = claimId, !.now = DueNow]
  <2>1. DueNow \in SUBSET (Nat \X Nat)
    <3>1. \A q \in RunIds : q \in Nat /\ runs[q] \in Runs
      BY <1>1 DEF RunIds
    <3>2. \A q \in RunIds : <<q, runs[q].version>> \in Nat \X Nat
      BY <3>1 DEF Runs
    <3>3. QED
      BY <3>2 DEF DueNow
  <2>2. next \in Drains /\ next.op = "none" /\ next.selected = {} /\ next.claimed = {}
    BY <2>1 DEF Drains, NoDrain, Ops
  <2>3. Go(w, "list", next)
    BY <1>2 DEF StartDrain
  <2> HIDE DEF next
  <2>4. Good(runs, docs, satisfied, "list", next)
    BY <2>2 DEF Good, Places, DrainOK, Working
  <2>5. QED
    BY <2>3, <2>4
<1>3. ASSUME List(w)
      PROVE  \E place, dr : Go(w, place, dr) /\ Good(runs, docs, satisfied, place, dr)
  <2> DEFINE S == Oldest({r \in RunIds : ClaimableAt(r, drain[w].now)}, ClaimLimit)
  <2>1. GoOn(w, S, {})
    BY <1>3 DEF List
  <2>2. S \in SUBSET Nat /\ S \subseteq 1..Len(runs) /\ {} \in SUBSET (Nat \X Nat)
    BY <1>1 DEF Oldest, RunIds
  <2> HIDE DEF S
  <2>3. QED
    BY <2>1, <2>2, GoOnGood
<1>4. QED
  BY <1>1, <1>2, <1>3, QuietMove DEF Start

\* A read of the run's record, and what is planned from it.
LEMMA ReadRunKeeps ==
  ASSUME IInv, NEW w \in Workers, ReadRun(w)
  PROVE  IInv' /\ RunsFinal
<1> DEFINE dr == drain[w]
           r == Current(w)
<1>1. /\ runs \in Seq(Runs) /\ dr \in Drains /\ faults \in Nat
      /\ pc[w] = "read" /\ r = CurrentOf(dr) /\ r \in 1..Len(runs) /\ runs[r] \in Runs
      /\ Working(runs, "read", dr) /\ DrainOK(runs, docs, satisfied, "read", dr)
      /\ UNCHANGED <<docs, runs, edits, satisfied, faults>>
  BY At DEF ReadRun, Unchanging
<1>2. \/ /\ IF dr.op = "claim" THEN ClaimableAt(r, dr.now) ELSE ClaimedBy(runs[r], dr.claim)
         /\ Go(w, "append", [dr EXCEPT !.version = runs[r].version])
      \/ Return(w, {})
      \/ Throw(w)
  BY DEF ReadRun
<1>3. CASE Return(w, {})
  <2>1. \A c \in {} : c[1] \in 1..Len(runs) /\ runs[c[1]].attempts > 0
    OBVIOUS
  <2>2. {} \in SUBSET (Nat \X Nat)
    OBVIOUS
  <2>3. \E place, next : Go(w, place, next) /\ Good(runs, docs, satisfied, place, next)
    BY <1>1, <1>3, <2>1, <2>2, ReturnGood
  <2>4. QED
    BY <1>1, <2>3, QuietMove
<1>4. CASE Throw(w)
  <2>1. \E place, next : Go(w, place, next) /\ Good(runs, docs, satisfied, place, next)
    BY <1>1, <1>4, ThrowGood DEF Places
  <2>2. QED
    BY <1>1, <2>1, QuietMove
<1>5. CASE /\ IF dr.op = "claim" THEN ClaimableAt(r, dr.now) ELSE ClaimedBy(runs[r], dr.claim)
           /\ Go(w, "append", [dr EXCEPT !.version = runs[r].version])
  <2> DEFINE next == [dr EXCEPT !.version = runs[r].version]
  <2>1. runs[r].version \in Nat
    BY <1>1 DEF Runs
  <2>2. /\ next \in Drains /\ next.version = runs[r].version /\ next.op = dr.op
        /\ next.selected = dr.selected /\ next.claimed = dr.claimed
    BY <1>1, <2>1 DEF Drains
  <2>3. IF dr.op = "claim" THEN runs[r].status \in {"pending", "failed", "claimed"}
        ELSE runs[r].status = "claimed"
    BY <1>5 DEF ClaimableAt, ClaimedBy
  <2>4. Go(w, "append", next)
    BY <1>5
  <2> HIDE DEF next, dr, r
  <2>5. CurrentOf(next) = r
    BY <1>1, <2>2 DEF CurrentOf
  <2>6. PlanOK(runs, next)
    BY <2>1, <2>2, <2>3, <2>5 DEF PlanOK
  <2>7. DrainOK(runs, docs, satisfied, "append", next)
    BY <1>1, <2>2, <2>5, <2>6 DEF DrainOK, Working
  <2>8. Good(runs, docs, satisfied, "append", next)
    BY <2>2, <2>7 DEF Good, Places
  <2>9. QED
    BY <1>1, <2>4, <2>8, QuietMove
<1>6. QED
  BY <1>2, <1>3, <1>4, <1>5

\* commitBatch of the planned event: committed, in conflict, or in doubt.
LEMMA AppendKeeps ==
  ASSUME IInv, NEW w \in Workers, AppendCommit(w) \/ AppendConflict(w) \/ AppendError(w)
  PROVE  IInv' /\ RunsFinal
<1>1. /\ runs \in Seq(Runs) /\ drain[w] \in Drains /\ faults \in Nat /\ edits \in Nat
      /\ pc[w] = "append" /\ Current(w) = CurrentOf(drain[w]) /\ Current(w) \in 1..Len(runs)
      /\ Working(runs, "append", drain[w])
      /\ DrainOK(runs, docs, satisfied, "append", drain[w])
      /\ "append" \in Places \ {"idle", "list"}
      /\ UNCHANGED <<docs, edits, satisfied>>
      /\ faults' \in Nat
  BY At DEF AppendCommit, AppendConflict, AppendError, Unchanging, Places
<1>2. CASE Throw(w) /\ runs' = runs
  <2>1. \E place, dr : Go(w, place, dr) /\ Good(runs, docs, satisfied, place, dr)
    BY <1>1, <1>2, ThrowGood
  <2>2. QED
    BY <1>1, <1>2, <2>1, QuietMove
<1>3. CASE AppendConflict(w) /\ drain[w].attempt < MaxAppendAttempts
  <2>1. /\ StartAttempt(w, drain[w].op, drain[w].attempt + 1)
        /\ UNCHANGED <<runs, docs, edits, satisfied, faults>>
    BY <1>3 DEF AppendConflict, Unchanging
  <2>2. /\ drain[w].op \in {"claim", "deliver", "fail", "deadLetter"}
        /\ drain[w].attempt + 1 \in Nat
        /\ drain[w].op = "claim" => drain[w].selected # {}
        /\ drain[w].op # "claim" => drain[w].claimed # {}
        /\ drain[w].op = "deliver" => TookEffect(runs, docs, satisfied, CurrentOf(drain[w]))
    BY <1>1 DEF Working, Drains, Ops, DrainOK
  <2>3. Good(runs, docs, satisfied, "read",
             [drain[w] EXCEPT !.op = drain[w].op, !.attempt = drain[w].attempt + 1, !.version = 0])
    BY <1>1, <2>2, AttemptGood
  <2>4. QED
    BY <1>1, <2>1, <2>3, QuietMove DEF StartAttempt
<1>4. ASSUME runs[Current(w)].version = drain[w].version,
             runs' = [runs EXCEPT ![Current(w)] = Written(w)],
             Throw(w) \/ Return(w, {<<Current(w), Written(w).attempts>>})
      PROVE  IInv' /\ RunsFinal
  <2>1. /\ StoreStep /\ Current(w) \in 1..Len(runs')
        /\ runs'[Current(w)].attempts = Written(w).attempts
        /\ drain[w].op = "claim" => Written(w).attempts > 0
        /\ Written(w).attempts \in Nat
    BY <1>1, <1>4, WrittenStore
  <2>2. Working(runs', "append", drain[w])
    <3>1. DrainOK(runs', docs', satisfied', "append", drain[w])
      BY <1>1, <2>1, DrainGrows, At DEF StoreStep
    <3>2. QED
      BY <3>1 DEF DrainOK
  <2>3. \E place, dr : Go(w, place, dr) /\ Good(runs', docs', satisfied', place, dr)
    <3>1. CASE Throw(w)
      BY <1>1, <2>2, <3>1, ThrowGood
    <3>2. CASE Return(w, {<<Current(w), Written(w).attempts>>})
      <4> DEFINE newly == {<<Current(w), Written(w).attempts>>}
      <4>1. Current(w) \in Nat
        BY <1>1
      <4>2. newly \in SUBSET (Nat \X Nat)
        BY <2>1, <4>1
      <4>3. drain[w].op = "claim" =>
              \A c \in newly : c[1] \in 1..Len(runs') /\ runs'[c[1]].attempts > 0
        BY <2>1
      <4>4. Return(w, newly)
        BY <3>2
      <4> HIDE DEF newly
      <4>5. QED
        BY <2>2, <4>2, <4>3, <4>4, ReturnGood
    <3>3. QED
      BY <1>4, <3>1, <3>2
  <2>4. edits' \in Nat
    BY <1>1
  <2>5. QED
    BY <1>1, <2>1, <2>3, <2>4, KeepsInv
<1>5. QED
  BY <1>2, <1>3, <1>4 DEF AppendCommit, AppendConflict, AppendError, Unchanging

\* An action that is in the target's stream took effect.
LEMMA AppliedTookEffect ==
  ASSUME NEW r, HasApplied(r)
  PROVE  TookEffect(runs, docs, satisfied, r)
BY DEF HasApplied, TookEffect, TargetOf

\* markDelivered begins for an action that took effect.
LEMMA DeliverGood ==
  ASSUME IInv, NEW w \in Workers, NEW rs, NEW ds, NEW found,
         pc[w] \in {"applied", "target", "update", "recheck"},
         Working(rs, pc[w], drain[w]),
         TookEffect(rs, ds, found, Current(w)), StartAttempt(w, "deliver", 1)
  PROVE  \E place, dr : Go(w, place, dr) /\ Good(rs, ds, found, place, dr)
<1>1. /\ drain[w] \in Drains /\ drain[w].op = "none" /\ drain[w].claimed # {}
      /\ 1 \in Nat /\ Current(w) = CurrentOf(drain[w])
  BY At DEF Working
<1>2. Good(rs, ds, found, "read",
           [drain[w] EXCEPT !.op = "deliver", !.attempt = 1, !.version = 0])
  BY <1>1, AttemptGood
<1>3. QED
  BY <1>2 DEF StartAttempt

\* The drain goes on to another of its awaits.
LEMMA MoveOnGood ==
  ASSUME NEW dr \in Drains, NEW rs, NEW ds, NEW found, NEW here,
         here \in {"applied", "target", "update", "recheck"}, Working(rs, here, dr)
  PROVE  /\ Good(rs, ds, found, "target", dr)
         /\ Good(rs, ds, found, "recheck", dr)
BY DEF Good, DrainOK, Working, Places

\* The reads of deliverUpdateDocument, and an update that did not commit.
LEMMA LookingKeeps ==
  ASSUME IInv, NEW w \in Workers,
         CheckApplied(w) \/ ReadTarget(w) \/ UpdateConflict(w) \/ Recheck(w)
  PROVE  IInv' /\ RunsFinal
<1> DEFINE r == Current(w)
           dr == drain[w]
           d == TargetOf(r)
<1>1. /\ runs \in Seq(Runs) /\ docs \in [Docs -> Seq(Events)] /\ dr \in Drains
      /\ faults \in Nat /\ pc[w] \in {"applied", "target", "update", "recheck"}
      /\ pc[w] \in Places \ {"idle", "list"} /\ r = CurrentOf(dr)
      /\ r \in 1..Len(runs) /\ d \in Docs /\ Working(runs, pc[w], dr)
      /\ UNCHANGED <<docs, runs, edits, faults>> /\ satisfied \subseteq satisfied'
  <2>1. /\ pc[w] \in {"applied", "target", "update", "recheck"}
        /\ UNCHANGED <<docs, runs, edits, faults>> /\ satisfied \subseteq satisfied'
    BY DEF CheckApplied, ReadTarget, UpdateConflict, Recheck, Unchanging
  <2>2. QED
    BY <2>1, At DEF Places
<1>2. CASE Throw(w)
  <2>1. \E place, next : Go(w, place, next) /\ Good(runs, docs, satisfied', place, next)
    BY <1>1, <1>2, ThrowGood
  <2>2. QED
    BY <1>1, <2>1, QuietMove
<1>3. CASE StartAttempt(w, "deliver", 1) /\ TookEffect(runs, docs, satisfied', r)
  <2>1. \E place, next : Go(w, place, next) /\ Good(runs, docs, satisfied', place, next)
    BY <1>1, <1>3, DeliverGood
  <2>2. QED
    BY <1>1, <2>1, QuietMove
<1>4. CASE Go(w, "target", dr) \/ Go(w, "recheck", dr)
  <2>1. Good(runs, docs, satisfied', "target", dr) /\ Good(runs, docs, satisfied', "recheck", dr)
    BY <1>1, MoveOnGood
  <2>2. QED
    BY <1>1, <1>4, <2>1, QuietMove
<1>5. CASE CheckApplied(w) \/ Recheck(w)
  <2>1. satisfied' = satisfied
    BY <1>5 DEF CheckApplied, Recheck, Unchanging
  <2>2. HasApplied(r) => TookEffect(runs, docs, satisfied', r)
    BY <2>1, AppliedTookEffect
  <2>3. QED
    BY <1>2, <1>3, <1>4, <1>5, <2>2 DEF CheckApplied, Recheck
<1>6. CASE UpdateConflict(w)
  BY <1>4, <1>6 DEF UpdateConflict
<1>7. CASE ReadTarget(w)
  <2>1. CASE StartAttempt(w, "deliver", 1) /\ satisfied' = satisfied \cup {r}
    BY <1>3, <2>1 DEF TookEffect
  <2>2. CASE /\ Value(d) # Patch[runs[r].rule]
             /\ Go(w, "update", [dr EXCEPT !.expected = Len(docs[d])])
    <3> DEFINE next == [dr EXCEPT !.expected = Len(docs[d])]
    <3>1. Len(docs[d]) \in Nat /\ Len(docs[d]) > 0
      <4>1. docs[d] # <<>>
        BY <1>1 DEF IInv, TypeOK
      <4>2. QED
        BY <1>1, <4>1
    <3>2. /\ next \in Drains /\ next.expected = Len(docs[d]) /\ next.op = dr.op
          /\ next.selected = dr.selected /\ next.claimed = dr.claimed
      BY <1>1, <3>1 DEF Drains
    <3>3. d = Target[runs[r].rule] /\ docs[d][Len(docs[d])].value # Patch[runs[r].rule]
      BY <2>2 DEF TargetOf, Value
    <3>4. Go(w, "update", next)
      BY <2>2
    <3> HIDE DEF next, dr, r, d
    <3>5. CurrentOf(next) = r
      BY <1>1, <3>2 DEF CurrentOf
    <3>6. UpdateOK(runs, docs, next)
      BY <3>1, <3>2, <3>3, <3>5 DEF UpdateOK
    <3>7. Working(runs, "update", next)
      BY <1>1, <3>2 DEF Working
    <3>8. next.op = "none"
      BY <3>7 DEF Working
    <3>9. Good(runs, docs, satisfied', "update", next)
      BY <3>2, <3>6, <3>7, <3>8 DEF Good, Places, DrainOK
    <3>10. QED
      BY <1>1, <3>4, <3>9, QuietMove
  <2>3. QED
    BY <1>2, <1>7, <2>1, <2>2 DEF ReadTarget
<1>8. QED
  BY <1>5, <1>6, <1>7

\* documents.update: committed, or in doubt.
LEMMA UpdateKeeps ==
  ASSUME IInv, NEW w \in Workers, Update(w) \/ UpdateError(w)
  PROVE  IInv' /\ RunsFinal
<1> DEFINE r == Current(w)
           d == TargetOf(r)
           event == ActionEvent(r)
<1>1. /\ runs \in Seq(Runs) /\ docs \in [Docs -> Seq(Events)] /\ drain[w] \in Drains
      /\ pc[w] = "update" /\ r = CurrentOf(drain[w]) /\ r \in 1..Len(runs)
      /\ runs[r] \in Runs /\ d \in Docs
      /\ Working(runs, "update", drain[w]) /\ DrainOK(runs, docs, satisfied, "update", drain[w])
      /\ satisfied' = satisfied /\ edits' \in Nat /\ faults' \in Nat
  BY At DEF Update, UpdateError
<1>2. CASE UpdateError(w) /\ UNCHANGED <<docs, runs>>
  <2>1. Go(w, "recheck", drain[w]) /\ UNCHANGED edits
    BY <1>2 DEF UpdateError
  <2>2. Good(runs, docs, satisfied', "recheck", drain[w])
    BY <1>1, MoveOnGood
  <2>3. QED
    BY <1>1, <1>2, <2>1, <2>2, QuietMove
<1>3. ASSUME Len(docs[d]) = drain[w].expected, CommitUpdate(d, event),
             StartAttempt(w, "deliver", 1) \/ Go(w, "recheck", drain[w])
      PROVE  IInv' /\ RunsFinal
  <2>1. drain[w].op = "none" /\ r \in Nat /\ r # 0
    BY <1>1 DEF Working
  <2>2. runs[r].rule \in Rules /\ runs[r].path \in Seq(Rules) /\ runs[r].attempts > 0
    BY <1>1, <2>1, At DEF Runs
  <2>3. WithinLimits(runs[r].path)
    BY <1>1, <2>2 DEF IInv, RunsOK
  <2>4. Value(d) # Patch[runs[r].rule]
    BY <1>1, <1>3 DEF DrainOK, UpdateOK, Value, TargetOf
  <2>5. /\ event \in Events /\ event.path = runs[r].path /\ event.action = r
        /\ event.value = Patch[runs[r].rule]
    BY <2>1, <2>2 DEF ActionEvent, Event, Events, Values
  <2> HIDE DEF event
  <2>6. StoreStep /\ \E i \in 1..Len(docs'[d]) : docs'[d][i] = event
    BY <1>1, <1>3, <2>3, <2>4, <2>5, CommitStore
  <2>7. Grows(runs, docs, satisfied, runs', docs', satisfied')
    BY <2>6 DEF StoreStep
  <2>8. Working(runs', "update", drain[w])
    <3>1. DrainOK(runs', docs', satisfied', "update", drain[w])
      BY <1>1, <2>7, DrainGrows DEF Places
    <3>2. QED
      BY <3>1 DEF DrainOK
  <2>9. TookEffect(runs', docs', satisfied', r)
    <3>1. runs'[r].rule = runs[r].rule
      BY <1>1, <2>7 DEF Grows
    <3>2. d = Target[runs[r].rule]
      BY DEF TargetOf
    <3> HIDE DEF d, r
    <3>3. QED
      BY <2>5, <2>6, <3>1, <3>2 DEF TookEffect
  <2>10. \E place, dr : Go(w, place, dr) /\ Good(runs', docs', satisfied', place, dr)
    <3>1. CASE StartAttempt(w, "deliver", 1)
      BY <1>1, <2>8, <2>9, <3>1, DeliverGood
    <3>2. CASE Go(w, "recheck", drain[w])
      BY <1>1, <2>8, <3>2, MoveOnGood
    <3>3. QED
      BY <1>3, <3>1, <3>2
  <2>11. QED
    BY <1>1, <2>6, <2>10, KeepsInv
<1>4. QED
  BY <1>2, <1>3 DEF Update, UpdateError

\* An invocation dies.
LEMMA CrashKeeps ==
  ASSUME IInv, NEW w \in Workers, Crash(w)
  PROVE  IInv' /\ RunsFinal
<1>1. /\ Go(w, "idle", NoDrain) /\ UNCHANGED <<docs, runs, edits, satisfied>>
      /\ faults' \in Nat
  BY DEF Crash, EndDrain, IInv, TypeOK
<1>2. QED
  BY <1>1, EndDrainGood, QuietMove

-----------------------------------------------------------------------------
(* The theorems.                                                           *)

LEMMA InitIInv == Init => IInv
<1> SUFFICES ASSUME Init PROVE IInv
  OBVIOUS
<1> DEFINE first == Event(Initial, NoAction, <<>>)
<1>1. first \in Events /\ first.action = NoAction /\ first.path = <<>>
  BY DEF Event, Events, Values, NoAction
<1>2. /\ runs = <<>> /\ docs = [d \in Docs |-> <<first>>]
      /\ \A w \in Workers : pc[w] = "idle" /\ drain[w] = NoDrain
  BY DEF Init
<1> HIDE DEF first
<1>3. \A w \in Workers : Good(runs, docs, satisfied, pc[w], drain[w])
  BY <1>2, EndDrainGood
<1>4. TypeOK
  <2>1. pc \in [Workers -> Places] /\ drain \in [Workers -> Drains]
    BY <1>3 DEF Good, Init
  <2>2. docs \in [Docs -> Seq(Events)] /\ \A d \in Docs : docs[d] # <<>>
    BY <1>1, <1>2
  <2>3. QED
    BY <1>2, <2>1, <2>2 DEF TypeOK, Init
<1>5. RunsOK(runs) /\ EffectsOK(runs, docs, satisfied)
  BY <1>2 DEF RunsOK, EffectsOK
<1>6. ASSUME NEW d \in Docs PROVE StreamOK(docs[d])
  <2>1. Len(docs[d]) = 1 /\ docs[d][1] = first
    BY <1>1, <1>2
  <2>2. QED
    BY <1>1, <2>1, EmptyPathWithinLimits DEF StreamOK
<1>7. QED
  BY <1>3, <1>4, <1>5, <1>6 DEF IInv, Good

LEMMA NextIInv == IInv /\ [Next]_vars => IInv' /\ RunsFinal
<1> SUFFICES ASSUME IInv, [Next]_vars PROVE IInv' /\ RunsFinal
  OBVIOUS
<1>1. CASE UNCHANGED vars
  <2>1. StoreStep /\ edits' \in Nat /\ faults' \in Nat /\ UNCHANGED <<pc, drain>>
    BY <1>1, QuietStore DEF vars, IInv, TypeOK
  <2>2. QED
    BY <2>1, KeepsInv
<1>2. ASSUME NEW w \in Workers, Start(w) \/ Step(w) \/ Fault(w) PROVE IInv' /\ RunsFinal
  BY <1>2, ListingKeeps, ReadRunKeeps, AppendKeeps, LookingKeeps, UpdateKeeps, CrashKeeps
     DEF Step, Fault
<1>3. ASSUME NEW d \in Docs, Delete(d) \/ \E value \in EditValues : Edit(d, value)
      PROVE  IInv' /\ RunsFinal
  BY <1>3, UsersKeep
<1>4. ASSUME NEW r \in RunIds, FallDue(r) PROVE IInv' /\ RunsFinal
  BY <1>4, FallDueKeeps
<1>5. QED
  BY <1>1, <1>2, <1>3, <1>4 DEF Next

LEMMA IInvHolds == Spec => []IInv
<1>1. IInv /\ [Next]_vars => IInv'
  BY NextIInv
<1>2. QED
  BY <1>1, InitIInv, PTL DEF Spec

\* The variables keep their types.
THEOREM TypeCorrect == Spec => []TypeOK
<1>1. IInv => TypeOK
  BY DEF IInv
<1>2. QED
  BY <1>1, IInvHolds, PTL

\* Chains of automations are cut off, whatever rules form them: no run that is
\* to be delivered and no event is at the end of a chain beyond the limits.
\* A run that is dead may be applied by a drain that claimed it before, so the
\* invariant bounds every run that was ever claimed.
THEOREM ChainsAreCutOff == Spec => []LoopsBounded
<1>1. IInv => LoopsBounded
  BY DEF IInv, RunsOK, StreamOK, LoopsBounded, RunIds
<1>2. QED
  BY <1>1, IInvHolds, PTL

\* markDelivered follows the effect, through every retry, conflict and doubt.
THEOREM DeliveriesTookEffect == Spec => []DeliveredTookEffect
<1>1. IInv => DeliveredTookEffect
  BY DEF IInv, EffectsOK, TookEffect, DeliveredTookEffect, HasApplied, TargetOf, RunIds
<1>2. QED
  BY <1>1, IInvHolds, PTL

\* expectedVersion keeps an action from being written over what its drain has
\* not seen, and so from being written twice in a row.
THEOREM ActionsSeeTheirTarget == Spec => []NoBlindReapply
<1>1. IInv => NoBlindReapply
  BY DEF IInv, StreamOK, NoBlindReapply
<1>2. QED
  BY <1>1, IInvHolds, PTL

\* A drain that lost its lease never takes a finished run back.
THEOREM FinishedRunsStay == Spec => TerminalIsFinal
<1>1. IInv /\ [Next]_vars =>
        [\A r \in RunIds :
           runs[r].status \in {"delivered", "dead"} => runs'[r] = runs[r]]_vars
  BY NextIInv DEF RunsFinal, RunIds
<1>2. QED
  BY <1>1, IInvHolds, PTL DEF Spec, TerminalIsFinal
=============================================================================
