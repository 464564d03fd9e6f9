------------------------ MODULE GoldProcessingProofs ------------------------
(***************************************************************************)
(* Proofs about GoldProcessing, for every set of workers and events, every *)
(* window length, allowed lateness and bound.                              *)
(*                                                                         *)
(* GoldFromSilver needs no order between workers. RowOnlyImproves does: it *)
(* holds for a single worker (OneWorker), because nobody else can replace  *)
(* the row between its read and its upsert, and as long as read_window()   *)
(* returns whole windows (WindowsFit). A pass always has a next window;    *)
(* which windows no pass comes to follows from the order of Silver alone.  *)
(***************************************************************************)
EXTENDS GoldProcessing, FiniteSetTheorems, WellFoundedInduction, TLAPS

OneWorker == \A v, w \in Workers : v = w

WindowsFit ==
  \A win \in Windows : Cardinality({e \in Events : WindowOf(e) = win}) <= ScanLimit

\* The initial tables are empty and every worker idle.
LEMMA InitGold == Init => GoldInv /\ ReadIsFresh
<1> SUFFICES ASSUME Init PROVE GoldInv /\ ReadIsFresh
  OBVIOUS
<1>1. TypeOK
  BY GoldAssumption DEF Init, TypeOK
<1> QED
  BY <1>1
  DEF Init, GoldInv, ReadIsFresh, GoldFromSilver, WorkFromSilver

\* Storing what a worker computed leaves Gold derived from Silver.
LEMMA UpsertedFromSilver ==
  ASSUME GoldInv, NEW w \in Workers, stage[w] = "upserting", Upserted(w),
         UNCHANGED <<silver, clock>>
  PROVE  gold' \in [Windows -> MarketWindow \cup {NoRow}] /\ GoldFromSilver'
<1>1. PICK win \in window[w] : gold' = [gold EXCEPT ![win] = row[w]]
  BY DEF Upserted
<1>2. /\ win \in Windows
      /\ row[w] \in MarketWindow
      /\ row[w] # NoRow
      /\ row[w].trades # {}
      /\ row[w].trades \subseteq InWindow(win)
      /\ row[w].final = IsFinal(win, row[w].computed)
      /\ row[w].computed <= clock
  BY <1>1 DEF GoldInv, TypeOK, WorkFromSilver
<1>3. \A x \in Windows : gold'[x] = IF x = win THEN row[w] ELSE gold[x]
  BY <1>1 DEF GoldInv, TypeOK
<1>4. \A x \in Windows : InWindow(x)' = InWindow(x)
  BY DEF InWindow, Trusted
<1> QED
  BY <1>1, <1>2, <1>3, <1>4 DEF GoldInv, TypeOK, GoldFromSilver

\* Every step keeps Gold, and all work on it, derived from Silver.
LEMMA StepGold == GoldInv /\ [Next]_vars => GoldInv'
<1> SUFFICES ASSUME GoldInv, [Next]_vars PROVE GoldInv'
  OBVIOUS
<1> USE DEF GoldInv
<1>1. ASSUME NEW e \in Events, NEW validated \in 0..MaxClock, Trust(e, validated)
      PROVE  GoldInv'
  <2>1. /\ silver' = [silver EXCEPT ![e] = validated]
        /\ silver[e] = NoRow
        /\ UNCHANGED <<gold, clock, workerVars, failures>>
    BY <1>1 DEF Trust
  <2>2. TypeOK'
    BY <2>1 DEF TypeOK, workerVars
  <2>3. \A win : InWindow(win) \subseteq InWindow(win)'
    BY <2>1, GoldAssumption DEF TypeOK, InWindow, Trusted
  <2>4. GoldFromSilver'
    BY <2>1, <2>3 DEF GoldFromSilver
  <2>5. WorkFromSilver'
    BY <2>1, <2>3 DEF WorkFromSilver, workerVars
  <2> QED
    BY <2>1, <2>2, <2>4, <2>5 DEF workerVars
<1>2. CASE Tick
  <2>1. /\ clock' = clock + 1 /\ clock \in Nat /\ clock' \in 0..MaxClock
        /\ UNCHANGED <<silver, gold, workerVars, failures>>
    BY <1>2, GoldAssumption DEF Tick, TypeOK
  <2>2. TypeOK'
    BY <2>1 DEF TypeOK, workerVars
  <2>3. \A win : InWindow(win)' = InWindow(win)
    BY <2>1 DEF InWindow, Trusted
  <2>4. \A r \in MarketWindow : r.computed <= clock => r.computed <= clock'
    BY <2>1, GoldAssumption DEF MarketWindow
  <2>5. GoldFromSilver'
    BY <2>1, <2>3, <2>4 DEF TypeOK, GoldFromSilver
  <2>6. WorkFromSilver'
    BY <2>1, <2>3, <2>4 DEF TypeOK, WorkFromSilver, workerVars
  <2> QED
    BY <2>1, <2>2, <2>5, <2>6 DEF workerVars
<1>3. ASSUME NEW w \in Workers, Discover(w) \/ \E win \in Windows : Recompute(w, win)
      PROVE  GoldInv'
  <2>1. /\ stage[w] = "idle"
        /\ stage' = [stage EXCEPT ![w] = "looping"]
        /\ UNCHANGED <<silver, gold, clock, window, events, row, failures>>
    BY <1>3 DEF Discover, Recompute
  <2>2. candidates' \in [Workers -> SUBSET Windows]
    <3>1. FirstPage \subseteq Events
      BY DEF FirstPage, Trusted
    <3>2. {WindowOf(e) : e \in FirstPage} \subseteq Windows
      BY <3>1 DEF Windows
    <3>3. CASE Discover(w)
      BY <3>2, <3>3 DEF Discover, TypeOK
    <3>4. CASE \E win \in Windows : Recompute(w, win)
      BY <3>4 DEF Recompute, TypeOK
    <3> QED
      BY <1>3, <3>3, <3>4
  <2>3. TypeOK'
    BY <2>1, <2>2 DEF TypeOK
  <2>4. GoldFromSilver' /\ WorkFromSilver'
    BY <2>1 DEF GoldFromSilver, WorkFromSilver, InWindow, Trusted
  <2> QED
    BY <2>1, <2>3, <2>4 DEF TypeOK
<1>4. ASSUME NEW w \in Workers, ReadWindow(w)
      PROVE  GoldInv'
  <2>1. PICK win \in candidates[w] :
          /\ candidates' = [candidates EXCEPT ![w] = @ \ {win}]
          /\ window' = [window EXCEPT ![w] = {win}]
          /\ events' = [events EXCEPT ![w] = ScanOf(win)]
    BY <1>4 DEF ReadWindow
  <2>2. /\ stage[w] = "looping"
        /\ stage' = [stage EXCEPT ![w] = "aggregating"]
        /\ UNCHANGED <<silver, gold, clock, row, failures>>
    BY <1>4 DEF ReadWindow
  <2>3. win \in Windows /\ ScanOf(win) \subseteq InWindow(win) /\ InWindow(win) \subseteq Events
    BY <2>1 DEF TypeOK, ScanOf, InWindow, Trusted
  <2>4. TypeOK'
    BY <2>1, <2>2, <2>3 DEF TypeOK
  <2>5. GoldFromSilver'
    BY <2>2 DEF GoldFromSilver, InWindow, Trusted
  <2>6. \A x : InWindow(x)' = InWindow(x)
    BY <2>2 DEF InWindow, Trusted
  <2>7. WorkFromSilver'
    BY <2>1, <2>2, <2>3, <2>6 DEF TypeOK, WorkFromSilver
  <2> QED
    BY <2>1, <2>2, <2>4, <2>5, <2>7 DEF TypeOK
<1>5. ASSUME NEW w \in Workers, SkipEmpty(w)
      PROVE  GoldInv'
  BY <1>5
  DEF SkipEmpty, TypeOK, GoldFromSilver, WorkFromSilver, InWindow, Trusted
<1>6. ASSUME NEW w \in Workers, Aggregate(w)
      PROVE  GoldInv'
  <2>1. PICK win \in window[w] : row' = [row EXCEPT ![w] = AggregateOf(w, win)]
    BY <1>6 DEF Aggregate
  <2>2. /\ stage[w] = "aggregating"
        /\ events[w] # {}
        /\ stage' = [stage EXCEPT ![w] = "upserting"]
        /\ UNCHANGED <<silver, gold, clock, candidates, window, events, failures>>
    BY <1>6 DEF Aggregate
  <2>3. /\ AggregateOf(w, win) \in MarketWindow
        /\ AggregateOf(w, win) # NoRow
        /\ AggregateOf(w, win).trades = events[w]
        /\ AggregateOf(w, win).final = IsFinal(win, AggregateOf(w, win).computed)
        /\ AggregateOf(w, win).computed <= clock
    <3>1. events[w] \in SUBSET Events /\ clock \in 0..MaxClock /\ clock <= clock
      BY GoldAssumption DEF TypeOK
    <3>2. IsFinal(win, clock) \in BOOLEAN
      BY DEF IsFinal
    <3>3. AggregateOf(w, win) \in MarketWindow
      BY <3>1, <3>2 DEF AggregateOf, MarketWindow
    <3>4. AggregateOf(w, win) # NoRow
      BY <3>3, GoldAssumption DEF MarketWindow
    <3> QED
      BY <3>1, <3>3, <3>4 DEF AggregateOf
  <2>4. TypeOK'
    BY <2>1, <2>2, <2>3 DEF TypeOK
  <2>5. GoldFromSilver'
    BY <2>2 DEF GoldFromSilver, InWindow, Trusted
  <2>6. \A x : InWindow(x)' = InWindow(x)
    BY <2>2 DEF InWindow, Trusted
  <2>7. window[w] = {win}
    BY <2>1 DEF WorkFromSilver
  <2>8. WorkFromSilver'
    BY <2>1, <2>2, <2>3, <2>6, <2>7 DEF TypeOK, WorkFromSilver
  <2>9. \A v \in Workers :
          /\ stage'[v] \in {"aggregating", "upserting"} <=> window'[v] # {}
          /\ stage'[v] = "upserting" <=> row'[v] # NoRow
    <3> TAKE v \in Workers
    <3>1. CASE v = w
      <4>1. stage'[v] = "upserting" /\ window'[v] = {win}
        BY <2>2, <2>7, <3>1 DEF TypeOK
      <4>2. row'[v] = AggregateOf(w, win)
        BY <2>1, <3>1 DEF TypeOK
      <4> QED
        BY <2>3, <4>1, <4>2
    <3>2. CASE v # w
      <4>1. stage'[v] = stage[v] /\ window'[v] = window[v] /\ row'[v] = row[v]
        BY <2>1, <2>2, <3>2 DEF TypeOK
      <4> QED
        BY <4>1
    <3> QED
      BY <3>1, <3>2
  <2> QED
    BY <2>4, <2>5, <2>8, <2>9
<1>7. ASSUME NEW w \in Workers, Upsert(w)
      PROVE  GoldInv'
  <2>1. /\ stage[w] = "upserting"
        /\ Upserted(w)
        /\ window' = [window EXCEPT ![w] = {}]
        /\ events' = [events EXCEPT ![w] = {}]
        /\ row' = [row EXCEPT ![w] = NoRow]
        /\ stage' = [stage EXCEPT ![w] = "looping"]
        /\ UNCHANGED <<silver, clock, candidates, failures>>
    BY <1>7 DEF Upsert
  <2>2. gold' \in [Windows -> MarketWindow \cup {NoRow}] /\ GoldFromSilver'
    BY <2>1, UpsertedFromSilver
  <2>3. TypeOK'
    BY <2>1, <2>2 DEF TypeOK
  <2>4. WorkFromSilver'
    BY <2>1 DEF TypeOK, WorkFromSilver, InWindow, Trusted
  <2> QED
    BY <2>1, <2>2, <2>3, <2>4 DEF TypeOK
<1>8. ASSUME NEW w \in Workers, Return(w) \/ AggregateFails(w) \/ UpsertFails(w) \/ Crash(w)
      PROVE  GoldInv'
  <2>1. /\ Leave(w) /\ UNCHANGED <<silver, clock>>
        /\ failures' \in 0..MaxFailures
        /\ gold' = gold \/ (stage[w] = "upserting" /\ Upserted(w))
    BY <1>8, GoldAssumption DEF Return, AggregateFails, UpsertFails, Crash, TypeOK
  <2>2. gold' \in [Windows -> MarketWindow \cup {NoRow}] /\ GoldFromSilver'
    <3>1. CASE gold' = gold
      BY <2>1, <3>1 DEF TypeOK, GoldFromSilver, InWindow, Trusted
    <3>2. CASE stage[w] = "upserting" /\ Upserted(w)
      BY <2>1, <3>2, UpsertedFromSilver
    <3> QED
      BY <2>1, <3>1, <3>2
  <2>3. TypeOK'
    BY <2>1, <2>2 DEF Leave, TypeOK
  <2>4. WorkFromSilver'
    BY <2>1 DEF Leave, TypeOK, WorkFromSilver, InWindow, Trusted
  <2> QED
    BY <2>1, <2>2, <2>3, <2>4 DEF Leave, TypeOK
<1>9. CASE UNCHANGED vars
  BY <1>9
  DEF vars, workerVars, TypeOK, GoldFromSilver, WorkFromSilver, InWindow, Trusted
<1> QED
  BY <1>1, <1>2, <1>3, <1>4, <1>5, <1>6, <1>7, <1>8, <1>9 DEF Next, Step

\* Gold and all work on it are derived from Silver, always.
THEOREM GoldInvariant == Spec => []GoldInv
<1>1. Init => GoldInv
  BY InitGold
<1> QED
  BY <1>1, StepGold, PTL DEF Spec

\* The trust boundary of Gold, for any number of workers.
THEOREM DerivedFromSilver == Spec => []GoldFromSilver
  BY GoldInvariant, PTL DEF GoldInv

\* A window that fits the query's limit is read whole.
LEMMA ScanIsComplete ==
  ASSUME WindowsFit, NEW win \in Windows
  PROVE  ScanOf(win) = InWindow(win)
<1> DEFINE Whole == {e \in Events : WindowOf(e) = win}
<1>1. IsFiniteSet(Whole)
  <2>1. Whole \subseteq Events
    OBVIOUS
  <2> QED
    BY <2>1, FS_Subset, GoldAssumption
<1>2. Cardinality(Whole) \in Nat /\ Cardinality(Whole) <= ScanLimit
  BY <1>1, FS_CardinalityType DEF WindowsFit
<1>3. ASSUME NEW e \in InWindow(win)
      PROVE  Cardinality({f \in InWindow(win) : TradedBefore(f, e)}) < ScanLimit
  <2> DEFINE Earlier == {f \in InWindow(win) : TradedBefore(f, e)}
  <2>1. e \in Whole /\ e.traded \in Nat /\ e.id \in Nat
    BY GoldAssumption DEF InWindow, Trusted
  <2>2. Earlier \subseteq Whole /\ Earlier # Whole
    BY <2>1 DEF InWindow, Trusted, TradedBefore
  <2>3. Cardinality(Earlier) \in Nat /\ Cardinality(Earlier) < Cardinality(Whole)
    BY <1>1, <2>2, FS_Subset, FS_CardinalityType
  <2> QED
    BY <1>2, <2>3, GoldAssumption
<1> QED
  BY <1>3 DEF ScanOf

\* With a single worker nothing it has read becomes older than Gold.
LEMMA StepFresh ==
  ASSUME OneWorker, WindowsFit, GoldInv, ReadIsFresh, [Next]_vars
  PROVE  ReadIsFresh'
<1>1. CASE Tick \/ (\E e \in Events, validated \in 0..MaxClock : Trust(e, validated))
  BY <1>1 DEF Tick, Trust, ReadIsFresh, workerVars
<1>2. ASSUME NEW w \in Workers, Discover(w) \/ \E win \in Windows : Recompute(w, win)
      PROVE  ReadIsFresh'
  BY <1>2 DEF Discover, Recompute, ReadIsFresh
<1>3. ASSUME NEW w \in Workers, ReadWindow(w)
      PROVE  ReadIsFresh'
  <2>1. PICK win \in candidates[w] :
          /\ window' = [window EXCEPT ![w] = {win}]
          /\ events' = [events EXCEPT ![w] = ScanOf(win)]
    BY <1>3 DEF ReadWindow
  <2>2. stage[w] = "looping" /\ UNCHANGED <<gold, row>>
    BY <1>3 DEF ReadWindow
  <2>3. win \in Windows /\ row[w] = NoRow
    BY <2>1, <2>2 DEF GoldInv, TypeOK
  <2>4. gold[win] # NoRow => gold[win].trades \subseteq ScanOf(win)
    BY <2>3, ScanIsComplete DEF GoldInv, GoldFromSilver
  <2> QED
    BY <2>1, <2>2, <2>3, <2>4 DEF GoldInv, TypeOK, ReadIsFresh
<1>4. ASSUME NEW w \in Workers, Aggregate(w)
      PROVE  ReadIsFresh'
  <2>1. PICK win \in window[w] : row' = [row EXCEPT ![w] = AggregateOf(w, win)]
    BY <1>4 DEF Aggregate
  <2>2. UNCHANGED <<gold, clock, window, events>>
    BY <1>4 DEF Aggregate
  <2>3. win \in Windows /\ window[w] = {win}
    BY <2>1 DEF GoldInv, TypeOK, WorkFromSilver
  <2>4. gold[win] # NoRow => gold[win].computed <= AggregateOf(w, win).computed
    BY <2>3 DEF GoldInv, GoldFromSilver, AggregateOf
  <2> QED
    BY <2>1, <2>2, <2>3, <2>4 DEF GoldInv, TypeOK, ReadIsFresh
<1>5. ASSUME NEW w \in Workers,
             \/ SkipEmpty(w) \/ Upsert(w) \/ Return(w)
             \/ AggregateFails(w) \/ UpsertFails(w) \/ Crash(w)
      PROVE  ReadIsFresh'
  <2>1. window' = [window EXCEPT ![w] = {}]
    BY <1>5 DEF SkipEmpty, Upsert, Return, AggregateFails, UpsertFails, Crash, Leave
  <2>2. \A v \in Workers : window'[v] = {}
    BY <2>1 DEF GoldInv, TypeOK, OneWorker
  <2> QED
    BY <2>2 DEF ReadIsFresh
<1>6. CASE UNCHANGED vars
  BY <1>6 DEF vars, workerVars, ReadIsFresh
<1> QED
  BY <1>1, <1>2, <1>3, <1>4, <1>5, <1>6 DEF Next, Step

\* A replacement by a fresh row is an improvement.
LEMMA StepImproves ==
  ASSUME GoldInv, ReadIsFresh, [Next]_vars, NEW win \in Windows, gold[win] # NoRow
  PROVE  /\ gold'[win] # NoRow
         /\ gold[win].trades \subseteq gold'[win].trades
         /\ gold[win].computed <= gold'[win].computed
         /\ gold[win].final => gold'[win].final
<1>1. gold[win].computed \in Nat
  BY DEF GoldInv, TypeOK, MarketWindow
<1>2. CASE gold' = gold
  BY <1>1, <1>2
<1>3. ASSUME NEW w \in Workers, stage[w] = "upserting", Upserted(w)
      PROVE  /\ gold'[win] # NoRow
             /\ gold[win].trades \subseteq gold'[win].trades
             /\ gold[win].computed <= gold'[win].computed
             /\ gold[win].final => gold'[win].final
  <2>1. PICK x \in window[w] : gold' = [gold EXCEPT ![x] = row[w]]
    BY <1>3 DEF Upserted
  <2>2. CASE x # win
    BY <1>1, <2>1, <2>2 DEF GoldInv, TypeOK
  <2>3. CASE x = win
    <3>1. gold'[win] = row[w] /\ row[w] # NoRow
      BY <1>3, <2>1, <2>3 DEF GoldInv, TypeOK
    <3>2. gold[win].trades \subseteq row[w].trades /\ gold[win].computed <= row[w].computed
      BY <2>1, <2>3, <3>1 DEF GoldInv, WorkFromSilver, ReadIsFresh
    <3>3. row[w].computed \in Nat /\ win.start \in Nat
      <4>1. row[w].computed \in Nat
        BY <3>1 DEF GoldInv, TypeOK, MarketWindow
      <4>2. PICK e \in Events : win = WindowOf(e)
        BY DEF Windows
      <4>3. \A n \in Nat : n - (n % WindowSeconds) \in Nat
        BY GoldAssumption
      <4>4. e.traded \in Nat
        BY GoldAssumption
      <4> QED
        BY <4>1, <4>2, <4>3, <4>4 DEF WindowOf
    <3>4. IsFinal(win, gold[win].computed) => IsFinal(win, row[w].computed)
      BY <1>1, <3>2, <3>3, GoldAssumption DEF IsFinal, WindowEnd
    <3>5. /\ gold[win].final = IsFinal(win, gold[win].computed)
          /\ row[w].final = IsFinal(win, row[w].computed)
      BY <2>1, <2>3, <3>1 DEF GoldInv, GoldFromSilver, WorkFromSilver
    <3> QED
      BY <3>1, <3>2, <3>4, <3>5
  <2> QED
    BY <2>2, <2>3
<1>4. gold' = gold \/ \E w \in Workers : stage[w] = "upserting" /\ Upserted(w)
  BY DEF Next, Step, Trust, Tick, Discover, Recompute, ReadWindow, SkipEmpty,
         Aggregate, AggregateFails, Upsert, Return, UpsertFails, Crash, vars
<1> QED
  BY <1>2, <1>3, <1>4

\* With a single worker and whole windows, a recomputation never loses
\* trades, goes back in time or reopens a window.
THEOREM OneWorkerOnlyImproves ==
  ASSUME OneWorker, WindowsFit
  PROVE  Spec => RowOnlyImproves
<1>1. Init => GoldInv /\ ReadIsFresh
  BY InitGold
<1>2. GoldInv /\ ReadIsFresh /\ [Next]_vars => (GoldInv /\ ReadIsFresh)'
  BY StepGold, StepFresh, OneWorker, WindowsFit
<1>3. GoldInv /\ ReadIsFresh /\ [Next]_vars =>
        [\A win \in Windows : gold[win] # NoRow =>
           /\ gold'[win] # NoRow
           /\ gold[win].trades \subseteq gold'[win].trades
           /\ gold[win].computed <= gold'[win].computed
           /\ gold[win].final => gold'[win].final]_vars
  BY StepImproves
<1> QED
  BY <1>1, <1>2, <1>3, PTL DEF Spec, RowOnlyImproves

----------------------------------------------------------------------------
(* Induction over the natural numbers and over finite sets.                *)

\* < is well-founded, so a set of natural numbers has a least one.
LEMMA LeastNatural ==
  ASSUME NEW T \in SUBSET Nat, T # {}
  PROVE  \E n \in T : \A m \in T : n <= m
<1> DEFINE R == OpToRel(<, Nat)
<1>1. IsWellFoundedOn(R, Nat)
  BY NatLessThanWellFounded
<1>2. PICK n \in T : \A m \in T : ~(<<m, n>> \in R)
  BY <1>1, WFMin
<1>3. \A m \in T : ~(m < n)
  BY <1>2 DEF OpToRel
<1> QED BY <1>3

\* Induction, on a set that holds 0 and every successor: the set says what an
\* operator would say in the theorems of NaturalsInduction.
LEMMA SetInduction ==
  ASSUME NEW T, 0 \in T, \A n \in Nat : n \in T => n + 1 \in T
  PROVE  Nat \subseteq T
<1> DEFINE U == Nat \ T
<1>1. SUFFICES ASSUME U # {} PROVE FALSE
  OBVIOUS
<1>2. PICK n \in U : \A m \in U : n <= m
  BY <1>1, LeastNatural
<1>3. n # 0 /\ n - 1 \in Nat
  OBVIOUS
<1>4. n - 1 \in T
  BY <1>2, <1>3
<1> QED BY <1>3, <1>4

\* Induction over the subsets of a finite set, one element at a time.
LEMMA SubsetInduction ==
  ASSUME NEW S, IsFiniteSet(S), NEW T,
         \A s \in SUBSET S : (\A x \in s : s \ {x} \in T) => s \in T
  PROVE  SUBSET S \subseteq T
<1> DEFINE U == {n \in Nat : \A s \in SUBSET S : Cardinality(s) = n => s \in T}
<1>1. \A s \in SUBSET S : IsFiniteSet(s) /\ Cardinality(s) \in Nat
  BY FS_Subset, FS_CardinalityType
<1>2. 0 \in U
  <2>1. {} \in T
    OBVIOUS
  <2> QED BY <1>1, <2>1, FS_EmptySet
<1>3. ASSUME NEW n \in Nat, n \in U PROVE n + 1 \in U
  <2> SUFFICES ASSUME NEW s \in SUBSET S, Cardinality(s) = n + 1 PROVE s \in T
    OBVIOUS
  <2>1. ASSUME NEW x \in s PROVE s \ {x} \in T
    <3>1. IsFiniteSet(s)
      BY <1>1
    <3>2. Cardinality(s \ {x}) = Cardinality(s) - 1
      BY <3>1, FS_RemoveElement, Zenon
    <3>3. Cardinality(s \ {x}) = n
      BY <3>2
    <3> QED BY <1>3, <3>3
  <2> QED BY <2>1
<1>4. Nat \subseteq U
  <2> HIDE DEF U
  <2> QED BY <1>2, <1>3, SetInduction
<1> QED BY <1>1, <1>4

\* A finite set that a relation orders has a first element.
LEMMA FirstExists ==
  ASSUME NEW S, IsFiniteSet(S), S # {}, NEW R,
         \A x, y \in S : x # y => <<x, y>> \in R \/ <<y, x>> \in R,
         \A x, y, z \in S : <<x, y>> \in R /\ <<y, z>> \in R => <<x, z>> \in R
  PROVE  \E x \in S : \A y \in S \ {x} : <<x, y>> \in R
<1> DEFINE T == {s \in SUBSET S : s # {} => \E x \in s : \A y \in s \ {x} : <<x, y>> \in R}
<1>1. ASSUME NEW s \in SUBSET S, \A x \in s : s \ {x} \in T PROVE s \in T
  <2> SUFFICES ASSUME NEW x \in s PROVE \E f \in s : \A y \in s \ {f} : <<f, y>> \in R
    OBVIOUS
  <2>1. CASE s \ {x} = {}
    BY <2>1
  <2>2. CASE s \ {x} # {}
    <3>1. PICK f \in s \ {x} : \A y \in (s \ {x}) \ {f} : <<f, y>> \in R
      BY <1>1, <2>2
    <3>2. CASE <<f, x>> \in R
      BY <3>1, <3>2
    <3>3. CASE <<x, f>> \in R
      <4>1. \A y \in s \ {x} : <<x, y>> \in R
        BY <3>1, <3>3
      <4> QED BY <4>1
    <3> QED BY <3>2, <3>3
  <2> QED BY <2>1, <2>2
<1>2. SUBSET S \subseteq T
  <2> HIDE DEF T
  <2> QED BY <1>1, SubsetInduction
<1> QED BY <1>2

----------------------------------------------------------------------------
(* The order of a pass, and the windows it never reaches.                  *)

\* Windows are identified by symbol and start, and there are finitely many.
LEMMA WindowTypes ==
  /\ Windows \subseteq [symbol: Nat, start: Nat]
  /\ IsFiniteSet(Windows)
<1>1. ASSUME NEW e \in Events PROVE WindowOf(e) \in [symbol: Nat, start: Nat]
  <2>1. e.symbol \in Nat /\ e.traded \in Nat /\ WindowSeconds \in Nat \ {0}
    BY GoldAssumption
  <2>2. e.traded - (e.traded % WindowSeconds) \in Nat
    BY <2>1
  <2> QED BY <2>1, <2>2 DEF WindowOf
<1>2. IsFiniteSet(Windows)
  <2> DEFINE of == [e \in Events |-> WindowOf(e)]
  <2>1. of \in Surjection(Events, Windows)
    BY DEF Surjection, Windows
  <2> QED BY <2>1, FS_Surjection, GoldAssumption
<1> QED BY <1>1, <1>2 DEF Windows

\* A pass that is not done has a window to go on with.
PassGoesOn ==
  \A w \in Workers :
    candidates[w] # {} => \E win \in candidates[w] : IsNext(win, candidates[w])

\* sorted(candidates) has no ties (service.py:109): windows of one start have
\* different symbols, so no pass stops before it has recomputed them all.
THEOREM PassesGoOn == Spec => []PassGoesOn
<1>1. ASSUME TypeOK, NEW w \in Workers, candidates[w] # {}
      PROVE  \E win \in candidates[w] : IsNext(win, candidates[w])
  <2> DEFINE S == candidates[w]
             R == {p \in S \X S : SortedBefore(p[1], p[2])}
  <2>1. S \in SUBSET Windows
    BY <1>1 DEF TypeOK
  <2>2. \A x, y \in S : <<x, y>> \in R <=> SortedBefore(x, y)
    OBVIOUS
  <2>3. \A x, y \in S : x # y => <<x, y>> \in R \/ <<y, x>> \in R
    <3> SUFFICES ASSUME NEW x \in S, NEW y \in S, ~SortedBefore(x, y), ~SortedBefore(y, x)
                 PROVE  x = y
      BY <2>2
    <3>1. x \in [symbol: Nat, start: Nat] /\ y \in [symbol: Nat, start: Nat]
      BY <2>1, WindowTypes
    <3>2. x.start = y.start /\ x.symbol = y.symbol
      BY <3>1 DEF SortedBefore
    <3> QED BY <3>1, <3>2
  <2>4. \A x, y, z \in S : <<x, y>> \in R /\ <<y, z>> \in R => <<x, z>> \in R
    <3> SUFFICES ASSUME NEW x \in S, NEW y \in S, NEW z \in S, SortedBefore(x, y), SortedBefore(y, z)
                 PROVE  SortedBefore(x, z)
      BY <2>2
    <3>1. \A v \in {x, y, z} : v.start \in Nat /\ v.symbol \in Nat
      BY <2>1, WindowTypes
    <3> QED BY <3>1 DEF SortedBefore
  <2>5. IsFiniteSet(S)
    BY <2>1, WindowTypes, FS_Subset
  <2> HIDE DEF R
  <2>6. \E x \in S : \A y \in S \ {x} : <<x, y>> \in R
    BY <1>1, <2>3, <2>4, <2>5, FirstExists
  <2> QED BY <2>2, <2>6 DEF IsNext
<1>2. GoldInv => PassGoesOn
  BY <1>1 DEF GoldInv, PassGoesOn
<1> QED BY <1>2, GoldInvariant, PTL

\* A window of which the page of Silver shows no trade, and that no worker
\* has to do with.
LeftBehind ==
  {win \in Windows :
     /\ InWindow(win) \cap FirstPage = {}
     /\ \A w \in Workers : win \notin candidates[w] \cup window[w]}

\* Such a window keeps the row it has, or none, however many passes run and
\* however many of its trades become trusted beyond the page: what reaches it
\* is recompute_window(), or a verdict on one of its trades that was stamped
\* so long before it is stored that the trade is on the page after all.
OnlyEarlyTradesReach ==
  [][\A win \in LeftBehind :
       \/ win \in LeftBehind' /\ gold'[win] = gold[win]
       \/ \E w \in Workers : Recompute(w, win)
       \/ \E e \in Events, validated \in 0..MaxClock :
            Trust(e, validated) /\ WindowOf(e) = win /\ e \in FirstPage']_vars

\* Trusted rows never go and keep their stamps, so no trade comes nearer to
\* the page.
LEMMA BeyondStaysBeyond ==
  ASSUME GoldInv, [Next]_vars, NEW e \in Trusted \ FirstPage
  PROVE  e \in (Trusted \ FirstPage)'
<1>1. \A f \in Trusted : silver'[f] = silver[f]
  BY DEF GoldInv, TypeOK, Trusted, Next, Step, Trust, Tick, Discover, Recompute, ReadWindow,
     SkipEmpty, Aggregate, AggregateFails, Upsert, Return, UpsertFails, Crash, vars
<1>2. Trusted \subseteq Trusted'
  BY <1>1 DEF Trusted
<1> DEFINE B == {f \in Trusted : ValidatedBefore(f, e)}
           C == {f \in Trusted' : ValidatedBefore(f, e)'}
<1>3. B \in SUBSET C /\ C \in SUBSET Events
  BY <1>1, <1>2 DEF ValidatedBefore, Trusted
<1>4. ~(Cardinality(B) < Limit)
  BY DEF FirstPage
<1> HIDE DEF B, C
<1>5. IsFiniteSet(C) /\ Cardinality(C) \in Nat
  BY <1>3, GoldAssumption, FS_Subset, FS_CardinalityType
<1>6. Cardinality(B) \in Nat /\ Cardinality(B) <= Cardinality(C)
  BY <1>3, <1>5, FS_Subset, FS_CardinalityType
<1>7. ~(Cardinality(C) < Limit)
  BY <1>4, <1>5, <1>6, GoldAssumption
<1> QED BY <1>2, <1>7 DEF C, FirstPage

\* Once Silver has outgrown the page, new windows stay without a row whatever
\* the passes do, for every limit and any number of workers.
THEOREM LeftBehindForGood == Spec => OnlyEarlyTradesReach
<1>1. ASSUME GoldInv, [Next]_vars, NEW win \in LeftBehind,
             ~ \E w \in Workers : Recompute(w, win),
             ~ \E e \in Events, validated \in 0..MaxClock :
                 Trust(e, validated) /\ WindowOf(e) = win /\ e \in FirstPage'
      PROVE  win \in LeftBehind' /\ gold'[win] = gold[win]
  <2>1. /\ win \in Windows /\ InWindow(win) \cap FirstPage = {}
        /\ \A w \in Workers : win \notin candidates[w] /\ win \notin window[w]
    BY <1>1 DEF LeftBehind
  <2>2. InWindow(win)' \cap FirstPage' = {}
    <3> SUFFICES ASSUME NEW e \in InWindow(win)', e \in FirstPage' PROVE FALSE
      OBVIOUS
    <3>1. e \in Events /\ silver'[e] # NoRow /\ WindowOf(e) = win
      BY DEF InWindow, Trusted, WindowOf
    <3>2. CASE e \in Trusted
      <4>1. e \in Trusted \ FirstPage
        BY <2>1, <3>1, <3>2 DEF InWindow
      <4> QED BY <1>1, <4>1, BeyondStaysBeyond
    <3>3. CASE e \notin Trusted
      <4>1. silver[e] = NoRow
        BY <3>1, <3>3 DEF Trusted
      <4>2. PICK f \in Events, validated \in 0..MaxClock : Trust(f, validated)
        BY <1>1, <3>1, <4>1 DEF Next, Step, Tick, Discover, Recompute, ReadWindow, SkipEmpty,
           Aggregate, AggregateFails, Upsert, Return, UpsertFails, Crash, vars
      <4>3. f = e
        BY <1>1, <3>1, <4>1, <4>2 DEF Trust, GoldInv, TypeOK
      <4> QED BY <1>1, <3>1, <4>2, <4>3
    <3> QED BY <3>2, <3>3
  <2>3. ASSUME NEW w \in Workers PROVE win \notin candidates'[w] /\ win \notin window'[w]
    <3>1. \/ candidates'[w] \subseteq candidates[w]
          \/ candidates'[w] = {WindowOf(e) : e \in FirstPage}
          \/ \E other \in Windows : Recompute(w, other) /\ candidates'[w] = {other}
      BY <1>1 DEF GoldInv, TypeOK, Next, Step, Trust, Tick, Discover, Recompute, ReadWindow,
         SkipEmpty, Aggregate, AggregateFails, Upsert, Return, UpsertFails, Crash, Leave, vars,
         workerVars
    <3>2. window'[w] \subseteq window[w] \cup candidates[w]
      BY <1>1 DEF GoldInv, TypeOK, Next, Step, Trust, Tick, Discover, Recompute, ReadWindow,
         SkipEmpty, Aggregate, AggregateFails, Upsert, Return, UpsertFails, Crash, Leave, vars,
         workerVars
    <3>3. win \notin {WindowOf(e) : e \in FirstPage}
      BY <2>1 DEF InWindow, FirstPage
    <3> QED BY <1>1, <2>1, <3>1, <3>2, <3>3
  <2>4. gold'[win] = gold[win]
    <3>1. \/ gold' = gold
          \/ \E w \in Workers : \E other \in window[w] : gold' = [gold EXCEPT ![other] = row[w]]
      BY <1>1 DEF Next, Step, Trust, Tick, Discover, Recompute, ReadWindow, SkipEmpty, Aggregate,
         AggregateFails, Upsert, Upserted, Return, UpsertFails, Crash, vars
    <3> QED BY <1>1, <2>1, <3>1 DEF GoldInv, TypeOK
  <2> QED BY <2>1, <2>2, <2>3, <2>4 DEF LeftBehind, Windows, WindowOf
<1>2. GoldInv /\ [Next]_vars =>
        [\A win \in LeftBehind :
           \/ win \in LeftBehind' /\ gold'[win] = gold[win]
           \/ \E w \in Workers : Recompute(w, win)
           \/ \E e \in Events, validated \in 0..MaxClock :
                Trust(e, validated) /\ WindowOf(e) = win /\ e \in FirstPage']_vars
  BY <1>1
<1> QED BY <1>2, GoldInvariant, PTL DEF Spec, OnlyEarlyTradesReach
=============================================================================
