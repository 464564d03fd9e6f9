------------------------- MODULE TrustRoutingProofs -------------------------
(***************************************************************************)
(* Proofs about TrustRouting, for every set of workers, ids, rules and     *)
(* bodies and every bound.                                                 *)
(*                                                                         *)
(* The argument: Bronze rows never change, so what a worker read stays     *)
(* what Bronze holds (HoldsBronzeRows); a verdict is a function of that    *)
(* row alone, so every verdict ever stored on an id is the same one. And   *)
(* since rows never go, the place of a row in the replay order can only    *)
(* move back: what is beyond the page of a pass stays beyond it.           *)
(***************************************************************************)
EXTENDS TrustRouting, FiniteSetTheorems, WellFoundedInduction, TLAPS

\* The initial tables are empty and every worker idle.
LEMMA InitRouting == Init => RoutingInv
  BY RoutingAssumption
  DEF Init, RoutingInv, TypeOK, HoldsBronzeRows, VerdictsMatchBronze, TrustedRow,
      QuarantineRecord, Event

\* A page holds well-typed events, each as Bronze holds it.
LEMMA PageOfBronze ==
  ASSUME TypeOK, NEW e \in BronzeEvents
  PROVE  e \in Event /\ bronze[e.id] = e.body
  BY DEF TypeOK, BronzeEvents, Stored, Event

\* Storing the verdict on the event held keeps every verdict right.
LEMMA RoutedIsRight ==
  ASSUME RoutingInv, NEW w \in Workers, stage[w] = "storing", Routed(w),
         UNCHANGED bronze
  PROVE  /\ silver' \in [Ids -> TrustedRow \cup {NoRow}]
         /\ quarantine' \in SUBSET QuarantineRecord
         /\ VerdictsMatchBronze'
<1> DEFINE c == current[w]
<1>1. /\ c \in Event
      /\ bronze[c.id] = c.body
      /\ c.id \in Ids
      /\ c.body \in Bodies
      /\ c.body # NoRow
      /\ stamp[w] \in 0..MaxClock
  BY RoutingAssumption DEF RoutingInv, TypeOK, HoldsBronzeRows, Event
<1>2. CASE Valid(c.body)
  <2>1. silver' = SilverAppended(w) /\ quarantine' = quarantine
    BY <1>2 DEF Routed
  <2>2. TrustedRowOf(w) \in TrustedRow /\ TrustedRowOf(w).body = c.body
    BY <1>1 DEF TrustedRowOf, TrustedRow
  <2>3. \A id \in Ids : silver'[id] # NoRow =>
          \/ silver'[id] = silver[id]
          \/ id = c.id /\ silver'[id] = TrustedRowOf(w)
    BY <2>1 DEF SilverAppended, RoutingInv, TypeOK
  <2>4. \A r \in Rules : bronze[c.id].findings[r] = "pass"
    BY <1>1, <1>2 DEF Valid, RuleFailures
  <2>5. silver' \in [Ids -> TrustedRow \cup {NoRow}]
    BY <2>1, <2>2 DEF SilverAppended, RoutingInv, TypeOK
  <2>6. ASSUME NEW id \in Ids, silver'[id] # NoRow
        PROVE  /\ silver'[id].body = bronze[id]
               /\ \A r \in Rules : bronze[id].findings[r] = "pass"
    <3>1. CASE silver'[id] = silver[id]
      BY <2>6, <3>1 DEF RoutingInv, VerdictsMatchBronze
    <3>2. CASE id = c.id /\ silver'[id] = TrustedRowOf(w)
      BY <3>2, <1>1, <2>2, <2>4
    <3> QED
      BY <2>3, <2>6, <3>1, <3>2
  <2> QED
    BY <2>1, <2>5, <2>6 DEF RoutingInv, TypeOK, VerdictsMatchBronze
<1>3. CASE ~Valid(c.body)
  <2>1. silver' = silver /\ quarantine' = quarantine \cup {RecordOf(w)}
    BY <1>3 DEF Routed
  <2>2. /\ RecordOf(w) \in QuarantineRecord
        /\ RecordOf(w).id = c.id
        /\ RecordOf(w).failures = {r \in Rules : bronze[c.id].findings[r] # "pass"}
        /\ RecordOf(w).failures # {}
    BY <1>1, <1>3 DEF RecordOf, QuarantineRecord, Valid, RuleFailures
  <2> QED
    BY <1>1, <2>1, <2>2 DEF RoutingInv, TypeOK, VerdictsMatchBronze
<1> QED
  BY <1>2, <1>3

\* No step changes a stored row under a worker that holds it.
LEMMA StepRouting == RoutingInv /\ [Next]_vars => RoutingInv'
<1> SUFFICES ASSUME RoutingInv, [Next]_vars PROVE RoutingInv'
  OBVIOUS
<1> USE DEF RoutingInv
<1>1. ASSUME NEW id \in Ids, NEW body \in Bodies, Land(id, body)
      PROVE  RoutingInv'
  <2>1. /\ bronze' = [bronze EXCEPT ![id] = body]
        /\ bronze[id] = NoRow
        /\ UNCHANGED <<silver, quarantine, clock, workerVars, failures>>
    BY <1>1 DEF Land
  <2>2. TypeOK'
    BY <2>1 DEF TypeOK, workerVars
  <2>3. \A x \in Ids : bronze[x] # NoRow => bronze'[x] = bronze[x]
    BY <2>1 DEF TypeOK
  <2>4. HoldsBronzeRows'
    <3>1. \A e \in Event : bronze[e.id] = e.body => bronze'[e.id] = e.body
      BY <2>3, RoutingAssumption DEF Event
    <3>2. \A w \in Workers : current[w] # NoEvent => current[w] \in Event
      BY DEF TypeOK
    <3> QED
      BY <2>1, <3>1, <3>2 DEF TypeOK, HoldsBronzeRows, workerVars
  <2>5. VerdictsMatchBronze'
    <3>1. \A x \in Ids : silver[x] # NoRow => bronze[x] # NoRow
      BY RoutingAssumption DEF TypeOK, VerdictsMatchBronze, TrustedRow
    <3> QED
      BY <2>1, <2>3, <3>1 DEF TypeOK, VerdictsMatchBronze, QuarantineRecord
  <2> QED
    BY <2>2, <2>4, <2>5
<1>2. CASE Tick
  BY <1>2, RoutingAssumption
  DEF Tick, TypeOK, HoldsBronzeRows, VerdictsMatchBronze, tableVars, workerVars
<1>3. ASSUME NEW w \in Workers, ReadPage(w)
      PROVE  RoutingInv'
  <2>1. \A e \in FirstPage : e \in Event /\ bronze[e.id] = e.body
    BY PageOfBronze DEF FirstPage
  <2> QED
    BY <1>3, <2>1 DEF ReadPage, TypeOK, HoldsBronzeRows, VerdictsMatchBronze, tableVars
<1>4. ASSUME NEW w \in Workers, NEW e \in BronzeEvents, ProcessEvent(w, e)
      PROVE  RoutingInv'
  <2>1. e \in Event /\ bronze[e.id] = e.body
    BY PageOfBronze
  <2> QED
    BY <1>4, <2>1
    DEF ProcessEvent, TypeOK, HoldsBronzeRows, VerdictsMatchBronze, tableVars
<1>5. ASSUME NEW w \in Workers, Validate(w)
      PROVE  RoutingInv'
  <2>1. PICK e \in page[w] :
          /\ current' = [current EXCEPT ![w] = e]
          /\ page' = [page EXCEPT ![w] = @ \ {e}]
    BY <1>5 DEF Validate
  <2>2. e \in Event /\ bronze[e.id] = e.body /\ e # NoEvent
    BY <2>1, RoutingAssumption DEF TypeOK, HoldsBronzeRows, Event
  <2>3. TypeOK'
    BY <1>5, <2>1, <2>2 DEF Validate, TypeOK, tableVars
  <2>4. HoldsBronzeRows'
    BY <1>5, <2>1, <2>2 DEF Validate, TypeOK, HoldsBronzeRows, tableVars
  <2>5. VerdictsMatchBronze'
    BY <1>5 DEF Validate, VerdictsMatchBronze, tableVars
  <2> QED
    BY <2>3, <2>4, <2>5
<1>6. ASSUME NEW w \in Workers, Store(w)
      PROVE  RoutingInv'
  <2>1. stage[w] = "storing" /\ Routed(w) /\ UNCHANGED bronze
    BY <1>6 DEF Store
  <2>2. /\ silver' \in [Ids -> TrustedRow \cup {NoRow}]
        /\ quarantine' \in SUBSET QuarantineRecord
        /\ VerdictsMatchBronze'
    BY <2>1, RoutedIsRight
  <2> QED
    BY <1>6, <2>2 DEF Store, TypeOK, HoldsBronzeRows
<1>7. ASSUME NEW w \in Workers, Return(w) \/ StoreCollides(w) \/ Crash(w)
      PROVE  RoutingInv'
  <2>1. /\ Leave(w) /\ UNCHANGED <<tableVars, clock, stamp>>
        /\ failures' \in 0..MaxFailures
    BY <1>7, RoutingAssumption DEF Return, StoreCollides, Crash, TypeOK
  <2> QED
    BY <2>1 DEF Leave, TypeOK, HoldsBronzeRows, VerdictsMatchBronze, tableVars
<1>8. ASSUME NEW w \in Workers, StoreFails(w)
      PROVE  RoutingInv'
  <2>1. /\ stage[w] = "storing" /\ Leave(w) /\ UNCHANGED <<bronze, clock, stamp>>
        /\ failures' \in 0..MaxFailures
        /\ UNCHANGED <<silver, quarantine>> \/ Routed(w)
    BY <1>8, RoutingAssumption DEF StoreFails, TypeOK
  <2>2. /\ silver' \in [Ids -> TrustedRow \cup {NoRow}]
        /\ quarantine' \in SUBSET QuarantineRecord
        /\ VerdictsMatchBronze'
    <3>1. CASE UNCHANGED <<silver, quarantine>>
      BY <2>1, <3>1 DEF TypeOK, VerdictsMatchBronze
    <3>2. CASE Routed(w)
      BY <2>1, <3>2, RoutedIsRight
    <3> QED
      BY <2>1, <3>1, <3>2
  <2> QED
    BY <2>1, <2>2 DEF Leave, TypeOK, HoldsBronzeRows
<1>9. CASE UNCHANGED vars
  BY <1>9
  DEF vars, tableVars, workerVars, TypeOK, HoldsBronzeRows, VerdictsMatchBronze
<1> QED
  BY <1>1, <1>2, <1>3, <1>4, <1>5, <1>6, <1>7, <1>8, <1>9 DEF Next, Step

\* What workers hold and what they stored agrees with Bronze, always.
THEOREM RoutingInvariant == Spec => []RoutingInv
  BY InitRouting, StepRouting, PTL DEF Spec

\* The tables and the workers keep their types.
THEOREM TypeCorrect == Spec => []TypeOK
  BY RoutingInvariant, PTL DEF RoutingInv

\* Silver holds what Bronze holds and every rule passed; Quarantine names
\* exactly the rules that failed.
THEOREM VerdictsRight == Spec => []VerdictsMatchBronze
  BY RoutingInvariant, PTL DEF RoutingInv

\* One event_id is never both trusted and rejected.
THEOREM Exclusive == Spec => []TrustIsExclusive
<1>1. RoutingInv => TrustIsExclusive
  BY DEF RoutingInv, VerdictsMatchBronze, TrustIsExclusive
<1> QED
  BY <1>1, RoutingInvariant, PTL

\* A trusted row is never replaced or removed.
THEOREM FirstValidationWins == Spec => SilverIsStable
<1>1. ASSUME RoutingInv, [Next]_vars
      PROVE  [\A id \in Ids : silver[id] # NoRow => silver'[id] = silver[id]]_vars
  <2>1. ASSUME NEW w \in Workers, Routed(w)
        PROVE  \A id \in Ids : silver[id] # NoRow => silver'[id] = silver[id]
    BY <1>1, <2>1 DEF Routed, SilverAppended, RoutingInv, TypeOK
  <2>2. ASSUME NEW w \in Workers, Step(w) \/ StoreFails(w) \/ Crash(w)
        PROVE  UNCHANGED silver \/ Routed(w)
    BY <2>2
    DEF Step, ReadPage, Validate, Store, StoreCollides, Return, StoreFails, Crash,
        tableVars
  <2> QED
    BY <1>1, <2>1, <2>2 DEF Next, Land, Tick, ProcessEvent, tableVars, vars
<1> QED
  BY <1>1, RoutingInvariant, PTL DEF Spec, SilverIsStable

\* Only Store takes a worker from an event to the rest of its page.
LEMMA StoredBeforeNext ==
  ASSUME RoutingInv, [Next]_vars, NEW w \in Workers,
         stage[w] = "storing", stage'[w] = "routing"
  PROVE  Store(w)
<1>1. stage' # stage
  BY DEF RoutingInv, TypeOK
<1>2. PICK v \in Workers :
        Step(v) \/ StoreFails(v) \/ Crash(v) \/ \E e \in BronzeEvents : ProcessEvent(v, e)
  BY <1>1 DEF Next, Land, Tick, vars, workerVars
<1>3. /\ v = w
      /\ stage[v] = "storing"
  BY <1>2
  DEF Step, ReadPage, Validate, Store, StoreCollides, Return, StoreFails, Crash,
      ProcessEvent, Leave, RoutingInv, TypeOK
<1> QED
  BY <1>2, <1>3
  DEF Step, ReadPage, Validate, StoreCollides, Return, StoreFails, Crash,
      ProcessEvent, Leave, RoutingInv, TypeOK

\* A batch goes on only when the event it held is in Silver or Quarantine.
THEOREM BatchDropsNothing == Spec => NothingDropped
<1>1. ASSUME RoutingInv, [Next]_vars, NEW w \in Workers, NEW id \in Ids,
             stage[w] = "storing", stage'[w] = "routing", current[w].id = id
      PROVE  IsRouted(id)'
  <2>1. Store(w)
    BY <1>1, StoredBeforeNext
  <2>2. current[w] \in Event /\ current[w].body \in Bodies
    BY <1>1 DEF RoutingInv, TypeOK, HoldsBronzeRows, Event
  <2>3. CASE Valid(current[w].body)
    <3>1. silver' = SilverAppended(w)
      BY <2>1, <2>3 DEF Store, Routed
    <3>2. TrustedRowOf(w) # NoRow
      BY <2>2, <1>1, RoutingAssumption DEF TrustedRowOf, RoutingInv, TypeOK
    <3>3. silver'[id] # NoRow
      BY <1>1, <3>1, <3>2 DEF SilverAppended, RoutingInv, TypeOK
    <3> QED
      BY <3>3 DEF IsRouted
  <2>4. CASE ~Valid(current[w].body)
    <3>1. RecordOf(w) \in quarantine' /\ RecordOf(w).id = id
      BY <1>1, <2>1, <2>4 DEF Store, Routed, RecordOf
    <3> QED
      BY <3>1 DEF IsRouted
  <2> QED
    BY <2>3, <2>4
<1>2. RoutingInv /\ [Next]_vars =>
        [\A w \in Workers, id \in Ids :
           /\ stage[w] = "storing" /\ stage'[w] = "routing"
           /\ current[w].id = id
           => IsRouted(id)']_vars
  BY <1>1
<1> QED
  BY <1>2, RoutingInvariant, PTL DEF Spec, NothingDropped

\* A verdict is stamped when it is reached, before it is stored.
StampsInThePast == \A w \in Workers : stamp[w] <= clock

\* A verdict carries the time at which it was reached, however much later it
\* is stored (service.py:157-185): Gold may find rows appear in its past, and
\* never in its future.
THEOREM StampedBeforeStored == Spec => []StampsInThePast
<1>1. Init => StampsInThePast
  BY RoutingAssumption DEF Init, StampsInThePast
<1>2. RoutingInv /\ StampsInThePast /\ [Next]_vars => StampsInThePast'
  <2> SUFFICES ASSUME RoutingInv, StampsInThePast, [Next]_vars,
                      NEW w \in Workers
               PROVE  stamp'[w] <= clock'
    BY DEF StampsInThePast
  <2> USE DEF RoutingInv
  <2>1. clock \in Nat /\ clock' \in Nat /\ clock <= clock'
    BY StepRouting, RoutingAssumption DEF TypeOK, Next, Step, Land, Tick, ReadPage, Validate,
       Store, StoreCollides, Return, StoreFails, Crash, ProcessEvent, vars
  <2>2. stamp[w] \in Nat
    BY RoutingAssumption DEF TypeOK
  <2>3. stamp'[w] \in {stamp[w], clock}
    BY DEF TypeOK, Next, Step, Land, Tick, ReadPage, Validate, Store, StoreCollides,
       Return, StoreFails, Crash, ProcessEvent, vars, workerVars
  <2> QED
    BY <2>1, <2>2, <2>3 DEF StampsInThePast
<1> QED
  BY <1>1, <1>2, RoutingInvariant, PTL DEF Spec

\* Records of Quarantine are never removed, and every attempt that rejects an
\* event adds one of its own, or raises (migrations/sql/003: the key is the
\* event_id and the instant).
THEOREM RejectionsVisible == Spec => EachRejectionVisible
<1>1. ASSUME RoutingInv, [Next]_vars
      PROVE  quarantine \subseteq quarantine'
  <2>1. ASSUME NEW w \in Workers, Routed(w)
        PROVE  quarantine \subseteq quarantine'
    BY <2>1 DEF Routed
  <2>2. UNCHANGED quarantine \/ \E w \in Workers : Routed(w)
    BY <1>1
    DEF Next, Step, Land, Tick, ReadPage, ProcessEvent, Validate, Store, StoreCollides,
        Return, StoreFails, Crash, tableVars, vars
  <2> QED
    BY <2>1, <2>2
<1>2. ASSUME RoutingInv, [Next]_vars, NEW w \in Workers,
             stage[w] = "storing", stage'[w] = "routing", stamp[w] < MaxClock,
             ~Valid(current[w].body)
      PROVE  \E r \in quarantine' \ quarantine :
               r.id = current[w].id /\ r.at = stamp[w]
  <2>1. Store(w)
    BY <1>2, StoredBeforeNext
  <2>2. \A r \in quarantine : ~(r.id = current[w].id /\ r.at = stamp[w])
    BY <1>2, <2>1 DEF Store, KeyTaken
  <2>3. RecordOf(w) \in quarantine'
    BY <1>2, <2>1 DEF Store, Routed
  <2>4. RecordOf(w).id = current[w].id /\ RecordOf(w).at = stamp[w]
    BY DEF RecordOf
  <2> QED
    BY <2>2, <2>3, <2>4
<1>3. RoutingInv /\ [Next]_vars =>
        [/\ quarantine \subseteq quarantine'
         /\ \A w \in Workers :
              stage[w] = "storing" /\ stage'[w] = "routing" /\ stamp[w] < MaxClock
                /\ ~Valid(current[w].body)
              => \E r \in quarantine' \ quarantine :
                   r.id = current[w].id /\ r.at = stamp[w]]_vars
  BY <1>1, <1>2
<1> QED
  BY <1>3, RoutingInvariant, PTL DEF Spec, EachRejectionVisible

----------------------------------------------------------------------------
(* The page a pass reads, and the rows it never reaches.                   *)

\* < is well-founded, so a set of natural numbers has a least one.
LEMMA LeastNatural ==
  ASSUME NEW T \in SUBSET Nat, T # {}
  PROVE  \E n \in T : \A m \in T : n <= m
<1> DEFINE R == OpToRel(<, Nat)
<1>1. IsWellFoundedOn(R, Nat)
  BY NatLessThanWellFounded
<1>2. PICK n \in T : \A m \in T : ~(<<m, n>> \in R)
  BY <1>1, WFMin
<1>3. \A m \in T : ~(m < n)
  BY <1>2 DEF OpToRel
<1> QED BY <1>3

\* Distinct rows of Bronze have distinct ids, so replay() orders them totally.
LEMMA ReplayOrder ==
  ASSUME TypeOK, NEW events \in SUBSET BronzeEvents
  PROVE  /\ \A e, f \in events : e # f => Precedes(e, f) \/ Precedes(f, e)
         /\ \A e \in events : ~Precedes(e, e)
         /\ \A e, f, g \in events : Precedes(e, f) /\ Precedes(f, g) => Precedes(e, g)
<1>1. \A e \in events : e \in Event /\ e.body = bronze[e.id] /\ e.id \in Nat /\ e.body.received \in Nat
  <2> TAKE e \in events
  <2>1. e \in Event /\ bronze[e.id] = e.body
    BY PageOfBronze
  <2>2. e.id \in Ids /\ e.body \in Bodies
    BY <2>1 DEF Event
  <2> QED BY <2>1, <2>2, RoutingAssumption
<1>2. ASSUME NEW e \in events, NEW f \in events, e # f PROVE Precedes(e, f) \/ Precedes(f, e)
  <2>1. e.id # f.id
    BY <1>1, <1>2 DEF Event
  <2> QED BY <1>1, <2>1 DEF Precedes
<1>3. \A e \in events : ~Precedes(e, e)
  BY <1>1 DEF Precedes
<1>4. ASSUME NEW e \in events, NEW f \in events, NEW g \in events, Precedes(e, f), Precedes(f, g)
      PROVE  Precedes(e, g)
  <2> DEFINE a == e.body.received
             b == f.body.received
             c == g.body.received
  <2>1. a \in Nat /\ b \in Nat /\ c \in Nat /\ e.id \in Nat /\ f.id \in Nat /\ g.id \in Nat
    BY <1>1
  <2>2. /\ a < b \/ (a = b /\ e.id < f.id)
        /\ b < c \/ (b = c /\ f.id < g.id)
    BY <1>4 DEF Precedes
  <2> HIDE DEF a, b, c
  <2>3. a < c \/ (a = c /\ e.id < g.id)
    BY <2>1, <2>2
  <2> QED BY <2>3 DEF a, c, Precedes
<1> QED BY <1>2, <1>3, <1>4

\* Bronze is finite, and so is whatever precedes a row of it.
LEMMA FiniteBronze ==
  ASSUME TypeOK, NEW events \in SUBSET BronzeEvents
  PROVE  IsFiniteSet(events) /\ Cardinality(events) \in Nat
<1> DEFINE row == [id \in Stored |-> [id |-> id, body |-> bronze[id]]]
<1>1. IsFiniteSet(Stored)
  BY RoutingAssumption, FS_Subset DEF Stored
<1>2. row \in Surjection(Stored, BronzeEvents)
  BY DEF Surjection, BronzeEvents
<1>3. IsFiniteSet(BronzeEvents)
  BY <1>1, <1>2, FS_Surjection
<1> QED BY <1>3, FS_Subset, FS_CardinalityType

\* The rows of some that come before e.
Before(e, some) == {f \in some : Precedes(f, e)}

\* Further down in the order there is more before a row.
LEMMA RankGrows ==
  ASSUME TypeOK, NEW some \in SUBSET BronzeEvents, NEW e \in some, NEW f \in some, Precedes(e, f)
  PROVE  /\ Cardinality(Before(e, some)) \in Nat
         /\ Cardinality(Before(f, some)) \in Nat
         /\ Cardinality(Before(e, some)) < Cardinality(Before(f, some))
<1> DEFINE A == Before(e, some)
           C == Before(f, some)
<1>1. A \in SUBSET BronzeEvents /\ C \in SUBSET BronzeEvents
  BY DEF Before
<1>2. IsFiniteSet(A) /\ IsFiniteSet(C) /\ Cardinality(A) \in Nat /\ Cardinality(C) \in Nat
  BY <1>1, FiniteBronze
<1>3. e \notin A /\ A \cup {e} \in SUBSET C
  BY ReplayOrder DEF Before
<1> HIDE DEF A, C
<1>4. IsFiniteSet(A \cup {e}) /\ Cardinality(A \cup {e}) = Cardinality(A) + 1
  BY <1>2, <1>3, FS_AddElement
<1>5. Cardinality(A \cup {e}) <= Cardinality(C)
  BY <1>2, <1>3, FS_Subset
<1> QED BY <1>2, <1>4, <1>5 DEF A, C

\* Some rows of Bronze, if any, have a first and a last one.
LEMMA FirstAndLastRow ==
  ASSUME TypeOK, NEW some \in SUBSET BronzeEvents, some # {}
  PROVE  /\ \E e \in some : IsNext(e, some)
         /\ \E e \in some : \A f \in some \ {e} : Precedes(f, e)
<1> DEFINE rank(e) == Cardinality(Before(e, some))
           size == Cardinality(some)
           ranks == {rank(e) : e \in some}
           gaps == {size - rank(e) : e \in some}
<1>1. /\ size \in Nat
      /\ \A e \in some : rank(e) \in Nat /\ rank(e) <= size
  <2>1. IsFiniteSet(some) /\ size \in Nat
    BY FiniteBronze
  <2>2. ASSUME NEW e \in some PROVE rank(e) \in Nat /\ rank(e) <= size
    <3>1. Before(e, some) \in SUBSET some
      BY DEF Before
    <3> QED BY <2>1, <3>1, FS_Subset, FS_CardinalityType
  <2> QED BY <2>1, <2>2
<1>2. \A e, f \in some : Precedes(e, f) => rank(e) < rank(f)
  BY RankGrows
<1>3. \A e, f \in some : e # f => Precedes(e, f) \/ Precedes(f, e)
  BY ReplayOrder
<1> HIDE DEF rank, size
<1>4. PICK n \in ranks : \A m \in ranks : n <= m
  <2>1. ranks \in SUBSET Nat /\ ranks # {}
    BY <1>1
  <2> HIDE DEF ranks
  <2> QED BY <2>1, LeastNatural
<1>5. PICK first \in some : n = rank(first)
  BY <1>4
<1>6. IsNext(first, some)
  <2> SUFFICES ASSUME NEW f \in some \ {first} PROVE Precedes(first, f)
    BY DEF IsNext
  <2>1. rank(first) <= rank(f) /\ rank(first) \in Nat /\ rank(f) \in Nat
    BY <1>1, <1>4, <1>5
  <2> QED BY <1>2, <1>3, <2>1
<1>7. PICK k \in gaps : \A m \in gaps : k <= m
  <2>1. gaps \in SUBSET Nat /\ gaps # {}
    BY <1>1
  <2> HIDE DEF gaps
  <2> QED BY <2>1, LeastNatural
<1>8. PICK last \in some : k = size - rank(last)
  BY <1>7
<1>9. \A f \in some \ {last} : Precedes(f, last)
  <2> SUFFICES ASSUME NEW f \in some \ {last} PROVE Precedes(f, last)
    OBVIOUS
  <2>1. size - rank(last) <= size - rank(f)
    BY <1>7, <1>8
  <2>2. rank(last) \in Nat /\ rank(f) \in Nat /\ size \in Nat
    BY <1>1
  <2>3. rank(f) <= rank(last)
    BY <2>1, <2>2
  <2> QED BY <1>2, <1>3, <2>2, <2>3
<1> QED BY <1>6, <1>9

\* A page is no longer than the limit, and is all of Bronze while Bronze is
\* no longer either.
LEMMA PageOfLimit ==
  ASSUME TypeOK
  PROVE  /\ FirstPage \in SUBSET BronzeEvents
         /\ Cardinality(FirstPage) <= Limit
         /\ Cardinality(BronzeEvents) <= Limit => FirstPage = BronzeEvents
<1>1. FirstPage \in SUBSET BronzeEvents
  BY DEF FirstPage
<1>2. Limit \in Nat /\ Limit # 0
  BY RoutingAssumption
<1>3. Cardinality(FirstPage) <= Limit
  <2>1. CASE FirstPage = {}
    BY <1>2, <2>1, FS_EmptySet
  <2>2. CASE FirstPage # {}
    <3>1. PICK last \in FirstPage : \A f \in FirstPage \ {last} : Precedes(f, last)
      BY <1>1, <2>2, FirstAndLastRow
    <3> DEFINE B == {f \in BronzeEvents : Precedes(f, last)}
    <3>2. Cardinality(B) < Limit
      BY <3>1 DEF FirstPage
    <3>3. FirstPage \ {last} \in SUBSET B /\ B \in SUBSET BronzeEvents
      BY <1>1, <3>1
    <3>4. IsFiniteSet(B) /\ Cardinality(B) \in Nat
      BY <3>3, FiniteBronze
    <3>5. IsFiniteSet(FirstPage) /\ Cardinality(FirstPage) \in Nat
      BY <1>1, FiniteBronze
    <3>6. Cardinality(FirstPage \ {last}) <= Cardinality(B)
      BY <3>3, <3>4, FS_Subset
    <3>7. Cardinality(FirstPage \ {last}) = Cardinality(FirstPage) - 1
      BY <3>1, <3>5, FS_RemoveElement
    <3> QED BY <1>2, <3>2, <3>4, <3>5, <3>6, <3>7
  <2> QED BY <2>1, <2>2
<1>4. ASSUME Cardinality(BronzeEvents) <= Limit, NEW e \in BronzeEvents
      PROVE  e \in FirstPage
  <2> DEFINE B == {f \in BronzeEvents : Precedes(f, e)}
  <2>1. B \in SUBSET (BronzeEvents \ {e})
    BY ReplayOrder
  <2>2. IsFiniteSet(BronzeEvents) /\ Cardinality(BronzeEvents) \in Nat
    BY FiniteBronze
  <2>3. IsFiniteSet(BronzeEvents \ {e}) /\ Cardinality(BronzeEvents \ {e}) = Cardinality(BronzeEvents) - 1
    BY <2>2, FS_RemoveElement
  <2> HIDE DEF B
  <2>4. B \in SUBSET (BronzeEvents \ {e})
    BY <2>1
  <2>5. Cardinality(B) <= Cardinality(BronzeEvents) - 1 /\ Cardinality(B) \in Nat
    BY <2>3, <2>4, FS_Subset, FS_CardinalityType
  <2>6. Cardinality(B) < Limit
    BY <1>2, <1>4, <2>2, <2>5
  <2> QED BY <2>6 DEF B, FirstPage
<1> QED BY <1>1, <1>3, <1>4

\* What a worker has still to route is some of Bronze.
LEMMA PageInBronze ==
  ASSUME RoutingInv, NEW w \in Workers
  PROVE  page[w] \in SUBSET BronzeEvents
<1> SUFFICES ASSUME NEW e \in page[w] PROVE e \in BronzeEvents
  OBVIOUS
<1>1. e \in Event /\ bronze[e.id] = e.body
  BY DEF RoutingInv, TypeOK, HoldsBronzeRows
<1>2. e.id \in Stored /\ e = [id |-> e.id, body |-> bronze[e.id]]
  BY <1>1, RoutingAssumption DEF Event, Stored
<1> QED BY <1>2 DEF BronzeEvents

\* What a worker still has to route is no more than a page,
\* and has a next event unless it is empty.
LoopGoesOn ==
  \A w \in Workers :
    /\ Cardinality(page[w]) <= Limit
    /\ page[w] # {} => \E e \in page[w] : IsNext(e, page[w])

\* The loop over a page always finds its next event and ends after at most
\* Limit of them (service.py:137-150): no tie in the replay order holds it up.
THEOREM BatchGoesOn == Spec => []LoopGoesOn
<1>1. Init => \A w \in Workers : Cardinality(page[w]) <= Limit
  BY RoutingAssumption, FS_EmptySet DEF Init
<1>2. RoutingInv /\ (\A w \in Workers : Cardinality(page[w]) <= Limit) /\ [Next]_vars
        => (\A w \in Workers : Cardinality(page[w]) <= Limit)'
  <2> SUFFICES ASSUME RoutingInv, \A w \in Workers : Cardinality(page[w]) <= Limit, [Next]_vars,
                      NEW w \in Workers
               PROVE  Cardinality(page'[w]) <= Limit
    OBVIOUS
  <2>1. Limit \in Nat /\ Limit >= 1
    BY RoutingAssumption
  <2>2. \/ page'[w] = page[w] \/ page'[w] = {} \/ page'[w] = FirstPage
        \/ \E e \in BronzeEvents : page'[w] = {e}
        \/ \E e \in page[w] : page'[w] = page[w] \ {e}
    BY DEF RoutingInv, TypeOK, Next, Step, Land, Tick, ReadPage, Validate, Store, StoreCollides,
       Return, StoreFails, Crash, ProcessEvent, Leave, vars, workerVars
  <2>3. page[w] \in SUBSET BronzeEvents
    BY PageInBronze
  <2>4. IsFiniteSet(page[w]) /\ Cardinality(page[w]) \in Nat
    BY <2>3, FiniteBronze DEF RoutingInv
  <2>5. ASSUME NEW e \in page[w] PROVE Cardinality(page[w] \ {e}) <= Limit
    <3>1. page[w] \ {e} \in SUBSET page[w]
      OBVIOUS
    <3>2. Cardinality(page[w] \ {e}) \in Nat /\ Cardinality(page[w] \ {e}) <= Cardinality(page[w])
      BY <2>4, <3>1, FS_Subset, FS_CardinalityType
    <3>3. Cardinality(page[w]) <= Limit
      OBVIOUS
    <3> QED BY <2>1, <2>4, <3>2, <3>3
  <2>6. \A e \in BronzeEvents : Cardinality({e}) <= Limit
    BY <2>1, FS_Singleton
  <2>7. Cardinality({}) <= Limit
    BY <2>1, FS_EmptySet
  <2>8. Cardinality(FirstPage) <= Limit
    BY PageOfLimit DEF RoutingInv
  <2> QED BY <2>2, <2>5, <2>6, <2>7, <2>8
<1>3. RoutingInv /\ (\A w \in Workers : Cardinality(page[w]) <= Limit) => LoopGoesOn
  BY PageInBronze, FirstAndLastRow DEF RoutingInv, LoopGoesOn
<1> QED BY <1>1, <1>2, <1>3, RoutingInvariant, PTL DEF Spec

\* A row of Bronze that is beyond the page and that nobody holds or has routed.
InHands(e) == \E w \in Workers : e \in page[w] \/ current[w] = e
LeftBehind == {e \in BronzeEvents \ FirstPage : ~IsRouted(e.id) /\ ~InHands(e)}

\* Only process_event() takes up a row left behind: no later pass does, though
\* pipeline.py:30-32 runs the stage for what an earlier run left unprocessed.
OnlyCallersReach ==
  [][\A e \in LeftBehind :
       e \in LeftBehind' \/ \E w \in Workers : ProcessEvent(w, e)]_vars

\* Rows never go, so no row comes nearer to the page.
LEMMA BeyondStaysBeyond ==
  ASSUME RoutingInv, [Next]_vars, NEW e \in BronzeEvents \ FirstPage
  PROVE  e \in (BronzeEvents \ FirstPage)'
<1>1. TypeOK /\ TypeOK'
  BY StepRouting DEF RoutingInv
<1>2. \A id \in Ids : bronze[id] # NoRow => bronze'[id] = bronze[id]
  BY DEF RoutingInv, TypeOK, Next, Step, Land, Tick, ReadPage, Validate, Store, StoreCollides,
     Return, StoreFails, Crash, ProcessEvent, vars, tableVars
<1>3. BronzeEvents \subseteq BronzeEvents'
  BY <1>2 DEF BronzeEvents, Stored
<1> DEFINE B == {f \in BronzeEvents : Precedes(f, e)}
           C == {f \in BronzeEvents' : Precedes(f, e)}
<1>4. ~(Cardinality(B) < Limit)
  BY DEF FirstPage
<1>5. B \in SUBSET C /\ B \in SUBSET BronzeEvents
  BY <1>3
<1>6. IsFiniteSet(C) /\ Cardinality(C) \in Nat
  <2>1. C \in SUBSET BronzeEvents'
    OBVIOUS
  <2>2. ASSUME TypeOK', NEW events \in SUBSET BronzeEvents'
        PROVE  IsFiniteSet(events) /\ Cardinality(events) \in Nat
    <3> DEFINE row == [id \in Stored' |-> [id |-> id, body |-> bronze'[id]]]
    <3>1. IsFiniteSet(Stored')
      BY RoutingAssumption, FS_Subset DEF Stored
    <3>2. row \in Surjection(Stored', BronzeEvents')
      BY DEF Surjection, BronzeEvents
    <3>3. IsFiniteSet(BronzeEvents')
      BY <3>1, <3>2, FS_Surjection
    <3> QED BY <3>3, FS_Subset, FS_CardinalityType
  <2> HIDE DEF C
  <2> QED BY <1>1, <2>1, <2>2
<1>7. Cardinality(B) \in Nat /\ Cardinality(B) <= Cardinality(C)
  <2> HIDE DEF B, C
  <2> QED BY <1>5, <1>6, FS_Subset, FS_CardinalityType
<1>8. ~(Cardinality(C) < Limit)
  <2> HIDE DEF B, C
  <2> QED BY <1>4, <1>6, <1>7, RoutingAssumption
<1> QED BY <1>3, <1>8 DEF FirstPage, Precedes

\* Bronze may outgrow the page, and then the page stays as it is: what is
\* beyond it is left behind for good, in any behaviour and for every limit.
THEOREM LeftBehindForGood == Spec => OnlyCallersReach
<1>1. ASSUME RoutingInv, [Next]_vars, NEW e \in LeftBehind,
             ~ \E w \in Workers : ProcessEvent(w, e)
      PROVE  e \in LeftBehind'
  <2>1. /\ e \in BronzeEvents /\ e \notin FirstPage
        /\ silver[e.id] = NoRow /\ \A r \in quarantine : r.id # e.id
        /\ \A w \in Workers : e \notin page[w] /\ current[w] # e
    BY <1>1 DEF LeftBehind, IsRouted, InHands
  <2>2. e \in Event /\ bronze[e.id] = e.body
    BY <1>1, <2>1, PageOfBronze DEF RoutingInv
  <2>3. e \in (BronzeEvents \ FirstPage)'
    BY <1>1, <2>1, BeyondStaysBeyond
  <2>4. ASSUME NEW w \in Workers PROVE e \notin page'[w] /\ current'[w] # e
    <3>1. \/ page'[w] = page[w] \/ page'[w] = {} \/ page'[w] = FirstPage
          \/ \E f \in BronzeEvents : ProcessEvent(w, f) /\ page'[w] = {f}
          \/ \E f \in page[w] : page'[w] = page[w] \ {f}
      BY <1>1 DEF RoutingInv, TypeOK, Next, Step, Land, Tick, ReadPage, Validate, Store,
         StoreCollides, Return, StoreFails, Crash, ProcessEvent, Leave, vars, workerVars
    <3>2. current'[w] \in {current[w], NoEvent} \cup page[w]
      BY <1>1 DEF RoutingInv, TypeOK, Next, Step, Land, Tick, ReadPage, Validate, Store,
         StoreCollides, Return, StoreFails, Crash, ProcessEvent, Leave, vars, workerVars
    <3>3. e # NoEvent
      BY <2>2, RoutingAssumption DEF Event
    <3> QED BY <1>1, <2>1, <3>1, <3>2, <3>3
  <2>5. silver'[e.id] = NoRow /\ \A r \in quarantine' : r.id # e.id
    <3>1. CASE UNCHANGED <<silver, quarantine>>
      BY <2>1, <3>1
    <3>2. ASSUME NEW w \in Workers, stage[w] = "storing", Routed(w) PROVE <2>5
      <4>1. current[w] \in Event /\ bronze[current[w].id] = current[w].body
        BY <1>1, <3>2 DEF RoutingInv, TypeOK, HoldsBronzeRows
      <4>2. current[w].id # e.id
        BY <2>1, <2>2, <4>1 DEF Event
      <4> QED BY <1>1, <2>1, <2>2, <3>2, <4>2 DEF Routed, SilverAppended, RecordOf, RoutingInv, TypeOK, Event
    <3>3. UNCHANGED <<silver, quarantine>> \/ \E w \in Workers : stage[w] = "storing" /\ Routed(w)
      BY <1>1 DEF Next, Step, Land, Tick, ReadPage, ProcessEvent, Validate, Store, StoreCollides,
         Return, StoreFails, Crash, tableVars, vars
    <3> QED BY <3>1, <3>2, <3>3
  <2> QED BY <2>3, <2>4, <2>5 DEF LeftBehind, IsRouted, InHands
<1>2. RoutingInv /\ [Next]_vars =>
        [\A e \in LeftBehind :
           e \in LeftBehind' \/ \E w \in Workers : ProcessEvent(w, e)]_vars
  BY <1>1
<1> QED BY <1>2, RoutingInvariant, PTL DEF Spec, OnlyCallersReach
=============================================================================
