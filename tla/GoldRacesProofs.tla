-------------------------- MODULE GoldRacesProofs --------------------------
(***************************************************************************)
(* Proofs about GoldRaces, for every set of workers and events, every      *)
(* window length, allowed lateness and bound: as long as read_window()     *)
(* returns whole windows (WindowsFit), only an overtaken worker makes a    *)
(* row worse; and, without that condition, the numbers of every row are    *)
(* consistent. Also the window of a timestamp.                             *)
(***************************************************************************)
EXTENDS GoldRaces, GoldProcessingProofs

\* The inductive invariant.
RacesInv == GoldInv /\ overtaken \in [Workers -> BOOLEAN] /\ FreshUnlessOvertaken

LEMMA InitRaces == RacesInit => RacesInv
  BY InitGold DEF RacesInit, Init, RacesInv, FreshUnlessOvertaken

\* Who writes Gold, and what becomes of its own work.
LEMMA WriterIsDone ==
  ASSUME GoldInv, Next
  PROVE  \/ gold' = gold
         \/ \E w \in Workers : \E win \in window[w] :
              /\ stage[w] = "upserting"
              /\ gold' = [gold EXCEPT ![win] = row[w]]
              /\ window' = [window EXCEPT ![w] = {}]
  BY DEF Next, Step, Trust, Tick, Discover, Recompute, ReadWindow, SkipEmpty, Aggregate,
         AggregateFails, Upsert, Upserted, Return, UpsertFails, Crash, Leave

\* A worker keeps its reading while it keeps its window, except that it reads
\* the window when it takes it and computes the row from what it read.
LEMMA WorkerSteps ==
  ASSUME GoldInv, Next, NEW w \in Workers, NEW win \in window'[w]
  PROVE  \/ /\ win \in window[w] /\ events'[w] = events[w]
            /\ row'[w] = row[w]
         \/ /\ win \in window[w] /\ events'[w] = events[w]
            /\ row'[w] = AggregateOf(w, win) /\ gold' = gold
         \/ /\ window[w] = {} /\ win \in Windows /\ events'[w] = ScanOf(win)
            /\ row'[w] = NoRow /\ gold' = gold
<1> USE DEF GoldInv, TypeOK
<1>1. ASSUME NEW v \in Workers, ReadWindow(v)
      PROVE  \/ /\ win \in window[w] /\ events'[w] = events[w] /\ row'[w] = row[w]
             \/ /\ window[w] = {} /\ win \in Windows /\ events'[w] = ScanOf(win)
                /\ row'[w] = NoRow /\ gold' = gold
  <2>1. PICK x \in candidates[v] :
          /\ window' = [window EXCEPT ![v] = {x}]
          /\ events' = [events EXCEPT ![v] = ScanOf(x)]
    BY <1>1 DEF ReadWindow
  <2>2. stage[v] = "looping" /\ gold' = gold /\ row' = row
    BY <1>1 DEF ReadWindow
  <2>3. CASE v = w
    <3>1. window[w] = {} /\ row[w] = NoRow
      BY <2>2, <2>3
    <3>2. window'[w] = {x} /\ events'[w] = ScanOf(x) /\ x \in Windows
      BY <2>1, <2>3
    <3> QED
      BY <2>2, <3>1, <3>2
  <2>4. CASE v # w
    BY <2>1, <2>2, <2>4
  <2> QED
    BY <2>3, <2>4
<1>2. ASSUME NEW v \in Workers, Aggregate(v)
      PROVE  \/ /\ win \in window[w] /\ events'[w] = events[w] /\ row'[w] = row[w]
             \/ /\ win \in window[w] /\ events'[w] = events[w]
                /\ row'[w] = AggregateOf(w, win) /\ gold' = gold
  <2>1. PICK x \in window[v] : row' = [row EXCEPT ![v] = AggregateOf(v, x)]
    BY <1>2 DEF Aggregate
  <2>2. UNCHANGED <<gold, window, events>>
    BY <1>2 DEF Aggregate
  <2>3. CASE v = w
    <3>1. x = win
      BY <2>1, <2>2, <2>3 DEF WorkFromSilver
    <3>2. row'[w] = AggregateOf(w, win)
      BY <2>1, <2>3, <3>1
    <3> QED
      BY <2>2, <3>2
  <2>4. CASE v # w
    BY <2>1, <2>2, <2>4
  <2> QED
    BY <2>3, <2>4
<1>3. ASSUME NEW v \in Workers,
             \/ SkipEmpty(v) \/ Upsert(v) \/ Return(v)
             \/ AggregateFails(v) \/ UpsertFails(v) \/ Crash(v)
      PROVE  win \in window[w] /\ events'[w] = events[w] /\ row'[w] = row[w]
  <2>1. /\ window' = [window EXCEPT ![v] = {}]
        /\ events' = [events EXCEPT ![v] = {}] \/ events' = events
        /\ row' = [row EXCEPT ![v] = NoRow] \/ row' = row
    BY <1>3 DEF SkipEmpty, Upsert, Return, AggregateFails, UpsertFails, Crash, Leave
  <2>2. v # w
    BY <2>1
  <2> QED
    BY <2>1, <2>2
<1>4. ASSUME NEW v \in Workers, Discover(v) \/ \E x \in Windows : Recompute(v, x)
      PROVE  win \in window[w] /\ events'[w] = events[w] /\ row'[w] = row[w]
  BY <1>4 DEF Discover, Recompute
<1>5. ASSUME Tick \/ \E e \in Events, validated \in 0..MaxClock : Trust(e, validated)
      PROVE  win \in window[w] /\ events'[w] = events[w] /\ row'[w] = row[w]
  BY <1>5 DEF Tick, Trust, workerVars
<1> QED
  BY <1>1, <1>2, <1>3, <1>4, <1>5 DEF Next, Step

\* What a worker reads stays fresh until it is overtaken.
LEMMA StepRaces ==
  ASSUME WindowsFit, RacesInv, [RacesNext]_racesVars
  PROVE  RacesInv'
<1>1. CASE RacesNext
  <2>1. GoldInv /\ GoldInv'
    BY <1>1, StepGold DEF RacesNext, RacesInv
  <2>2. /\ overtaken' \in [Workers -> BOOLEAN]
        /\ \A w \in Workers : overtaken'[w] =
             (/\ window'[w] # {}
              /\ window'[w] = window[w]
              /\ \/ overtaken[w]
                 \/ \E win \in window[w] : gold'[win] # gold[win])
    BY <1>1 DEF RacesNext, Overtakes, RacesInv
  <2>3. ASSUME NEW w \in Workers, NEW win \in window'[w], gold'[win] # NoRow, ~overtaken'[w]
        PROVE  /\ gold'[win].trades \subseteq events'[w]
               /\ row'[w] # NoRow => gold'[win].computed <= row'[w].computed
    <3>1. CASE win \in window[w]
      <4>1. window[w] = {win} /\ window'[w] = {win}
        BY <2>1, <3>1 DEF GoldInv, WorkFromSilver
      <4>2. ~overtaken[w] /\ gold'[win] = gold[win]
        BY <2>2, <2>3, <4>1
      <4>3. /\ gold[win].trades \subseteq events[w]
            /\ row[w] # NoRow => gold[win].computed <= row[w].computed
        BY <2>3, <3>1, <4>2 DEF RacesInv, FreshUnlessOvertaken
      <4>4. win \in Windows
        BY <2>1, <3>1 DEF GoldInv, TypeOK
      <4>5. gold[win].computed <= AggregateOf(w, win).computed
        BY <2>1, <2>3, <4>2, <4>4 DEF GoldInv, GoldFromSilver, AggregateOf
      <4> QED
        BY <1>1, <2>1, <4>1, <4>2, <4>3, <4>5, WorkerSteps DEF RacesNext
    <3>2. CASE win \notin window[w]
      <4>1. /\ win \in Windows /\ events'[w] = ScanOf(win)
            /\ row'[w] = NoRow /\ gold' = gold
        BY <1>1, <2>1, <3>2, WorkerSteps DEF RacesNext
      <4>2. gold[win].trades \subseteq ScanOf(win)
        BY <2>1, <2>3, <4>1, ScanIsComplete DEF GoldInv, GoldFromSilver
      <4> QED
        BY <4>1, <4>2
    <3> QED
      BY <3>1, <3>2
  <2> QED
    BY <2>1, <2>2, <2>3 DEF RacesInv, FreshUnlessOvertaken
<1>2. CASE UNCHANGED racesVars
  <2>1. UNCHANGED vars /\ UNCHANGED overtaken
    BY <1>2 DEF racesVars
  <2>2. GoldInv'
    BY <2>1, StepGold DEF RacesInv
  <2> QED
    BY <2>1, <2>2 DEF RacesInv, FreshUnlessOvertaken, vars, workerVars
<1> QED
  BY <1>1, <1>2

\* A row that a worker has not been overtaken on is replaced by a better one.
LEMMA StepImprovesUnlessOvertaken ==
  ASSUME RacesInv, RacesNext, NEW win \in Windows, gold[win] # NoRow
  PROVE  \/ /\ gold'[win] # NoRow
            /\ gold[win].trades \subseteq gold'[win].trades
            /\ gold[win].computed <= gold'[win].computed
            /\ gold[win].final => gold'[win].final
         \/ \E w \in Workers : overtaken[w] /\ window[w] = {win} /\ gold'[win] = row[w]
<1> USE DEF RacesInv
<1>1. gold[win].computed \in Nat
  BY DEF GoldInv, TypeOK, MarketWindow
<1>2. CASE gold' = gold
  BY <1>1, <1>2
<1>3. ASSUME NEW w \in Workers, NEW x \in window[w], stage[w] = "upserting",
             gold' = [gold EXCEPT ![x] = row[w]]
      PROVE  \/ /\ gold'[win] # NoRow
                /\ gold[win].trades \subseteq gold'[win].trades
                /\ gold[win].computed <= gold'[win].computed
                /\ gold[win].final => gold'[win].final
             \/ overtaken[w] /\ window[w] = {win} /\ gold'[win] = row[w]
  <2>1. CASE x # win
    BY <1>1, <1>3, <2>1 DEF GoldInv, TypeOK
  <2>2. CASE x = win /\ overtaken[w]
    BY <1>3, <2>2 DEF GoldInv, TypeOK, WorkFromSilver
  <2>3. CASE x = win /\ ~overtaken[w]
    <3>1. gold'[win] = row[w] /\ row[w] # NoRow
      BY <1>3, <2>3 DEF GoldInv, TypeOK
    <3>2. gold[win].trades \subseteq row[w].trades /\ gold[win].computed <= row[w].computed
      BY <1>3, <2>3, <3>1 DEF GoldInv, WorkFromSilver, FreshUnlessOvertaken
    <3>3. row[w].computed \in Nat /\ win.start \in Nat
      <4>1. row[w].computed \in Nat
        BY <3>1 DEF GoldInv, TypeOK, MarketWindow
      <4>2. PICK e \in Events : win = WindowOf(e)
        BY DEF Windows
      <4>3. \A n \in Nat : n - (n % WindowSeconds) \in Nat
        BY GoldAssumption
      <4>4. e.traded \in Nat
        BY GoldAssumption
      <4> QED
        BY <4>1, <4>2, <4>3, <4>4 DEF WindowOf
    <3>4. IsFinal(win, gold[win].computed) => IsFinal(win, row[w].computed)
      BY <1>1, <3>2, <3>3, GoldAssumption DEF IsFinal, WindowEnd
    <3>5. /\ gold[win].final = IsFinal(win, gold[win].computed)
          /\ row[w].final = IsFinal(win, row[w].computed)
      BY <1>3, <2>3, <3>1 DEF GoldInv, GoldFromSilver, WorkFromSilver
    <3> QED
      BY <3>1, <3>2, <3>4, <3>5
  <2> QED
    BY <2>1, <2>2, <2>3
<1>4. \/ gold' = gold
      \/ \E w \in Workers : \E x \in window[w] :
           stage[w] = "upserting" /\ gold' = [gold EXCEPT ![x] = row[w]]
  BY WriterIsDone DEF RacesNext
<1> QED
  BY <1>2, <1>3, <1>4

\* With any number of workers, a Gold row gets worse only where one worker
\* overtook another between its read and its upsert.
THEOREM OnlyOvertakenWorkersLose ==
  ASSUME WindowsFit
  PROVE  RacesSpec => ImprovesUnlessOvertaken
<1>1. RacesInit => RacesInv
  BY InitRaces
<1>2. RacesInv /\ [RacesNext]_racesVars => RacesInv'
  BY StepRaces, WindowsFit
<1>3. RacesInv /\ [RacesNext]_racesVars =>
        [\A win \in Windows : gold[win] # NoRow =>
           \/ /\ gold'[win] # NoRow
              /\ gold[win].trades \subseteq gold'[win].trades
              /\ gold[win].computed <= gold'[win].computed
              /\ gold[win].final => gold'[win].final
           \/ \E w \in Workers :
                overtaken[w] /\ window[w] = {win} /\ gold'[win] = row[w]]_racesVars
  BY StepImprovesUnlessOvertaken
<1> QED
  BY <1>1, <1>2, <1>3, PTL DEF RacesSpec, ImprovesUnlessOvertaken

\* What is known of division and multiplication.
LEMMA Division ==
  ASSUME NEW a \in Nat, NEW b \in Nat \ {0}
  PROVE  /\ a \div b \in Nat /\ a % b \in 0..(b - 1)
         /\ a = (a \div b) * b + (a % b)
  OBVIOUS

LEMMA Multiples ==
  ASSUME NEW k \in Nat, NEW b \in Nat \ {0}
  PROVE  k * b \in Nat /\ (k * b) \div b = k /\ (k * b) % b = 0
  OBVIOUS

LEMMA Monotone ==
  ASSUME NEW k \in Int, NEW n \in Int, NEW b \in Nat, k <= n
  PROVE  k * b <= n * b
  OBVIOUS

\* The order of a product's factors.
LEMMA Product ==
  ASSUME NEW a \in Int, NEW b \in Int, NEW c \in Int
  PROVE  (a * b) * c = a * (c * b) /\ (a * b) * c = a * (b * c)
  OBVIOUS

\* A timestamp from 1970 on lies in its window, whose start is aligned to the
\* epoch; so every trade of an instant is in one window, on a boundary in the
\* later one (gold.py:8-10). Before 1970 int() truncates the other way.
THEOREM WindowHoldsItsTimestamp ==
  ASSUME NEW t \in Nat
  PROVE  /\ window_bounds_for(t)[1] <= t
         /\ t < window_bounds_for(t)[2]
         /\ (window_bounds_for(t)[1] \div Second) % WindowSeconds = 0
<1> DEFINE s == t \div Second
           k == s \div WindowSeconds
           m == s % WindowSeconds
           start == s - m
<1>1. Second \in Nat \ {0} /\ WindowSeconds \in Nat \ {0}
  BY MarketAssumption, GoldAssumption
<1>2. s \in Nat /\ t % Second \in 0..(Second - 1) /\ t = s * Second + (t % Second)
  BY <1>1, Division
<1>3. k \in Nat /\ m \in 0..(WindowSeconds - 1) /\ s = k * WindowSeconds + m
  BY <1>1, <1>2, Division
<1>4. start = k * WindowSeconds
  BY <1>1, <1>3, Multiples
<1>5. start \in Nat /\ start % WindowSeconds = 0
  BY <1>1, <1>3, <1>4, Multiples
<1>6. window_bounds_for(t) = <<start * Second, start * Second + WindowSeconds * Second>>
  BY DEF window_bounds_for, window_start_for, WholeSeconds
<1> HIDE DEF s, k, m, start
<1>7. start <= s /\ s + 1 <= start + WindowSeconds
  BY <1>1, <1>2, <1>3 DEF start
<1>8. start * Second <= t
  BY <1>1, <1>2, <1>5, <1>7, Monotone
<1>9. t < start * Second + WindowSeconds * Second
  <2>1. (s + 1) * Second <= (start + WindowSeconds) * Second
    BY <1>1, <1>2, <1>5, <1>7, Monotone
  <2>2. (s + 1) * Second = s * Second + Second
    BY <1>1, <1>2
  <2>3. (start + WindowSeconds) * Second = start * Second + WindowSeconds * Second
    BY <1>1, <1>5
  <2> DEFINE low == start * Second
             length == WindowSeconds * Second
             whole == s * Second
  <2>4. low \in Nat /\ length \in Nat /\ whole \in Nat
    BY <1>1, <1>2, <1>5, Multiples
  <2>5. whole + Second <= low + length
    BY <2>1, <2>2, <2>3
  <2>6. t < whole + Second
    <3>1. t = whole + (t % Second) /\ t % Second < Second
      BY <1>1, <1>2
    <3> HIDE DEF whole
    <3> QED
      BY <1>1, <1>2, <2>4, <3>1
  <2> HIDE DEF low, length, whole
  <2>7. t < low + length
    BY <1>1, <2>4, <2>5, <2>6
  <2> QED
    BY <2>7 DEF low, length
<1>10. (start * Second) \div Second = start
  BY <1>1, <1>5, Multiples
<1> QED
  BY <1>5, <1>6, <1>8, <1>9, <1>10

\* A remainder is the only number below the divisor that a multiple misses by.
LEMMA Remainder ==
  ASSUME NEW a \in Nat, NEW b \in Nat \ {0}, NEW k \in Nat, k * b <= a, a < k * b + b
  PROVE  a - (a % b) = k * b
<1> DEFINE q == a \div b
           r == a % b
<1>1. q \in Nat /\ r \in 0..(b - 1) /\ a = q * b + r
  BY Division
<1> HIDE DEF q, r
<1>2. q * b \in Nat /\ k * b \in Nat
  BY <1>1
<1>3. CASE q + 1 <= k
  <2>1. (q + 1) * b <= k * b /\ (q + 1) * b = q * b + b
    BY <1>1, <1>3, Monotone
  <2> DEFINE x == q * b
             y == k * b
  <2>2. x \in Nat /\ y \in Nat /\ x + b <= y /\ y <= a /\ a = x + r
    BY <1>1, <1>2, <2>1
  <2> HIDE DEF x, y
  <2> QED BY <1>1, <2>2
<1>4. CASE k + 1 <= q
  <2>1. (k + 1) * b <= q * b /\ (k + 1) * b = k * b + b
    BY <1>1, <1>4, Monotone
  <2> DEFINE x == q * b
             y == k * b
  <2>2. x \in Nat /\ y \in Nat /\ y + b <= x /\ a < y + b /\ a = x + r
    BY <1>1, <1>2, <2>1
  <2> HIDE DEF x, y
  <2> QED BY <1>1, <2>2
<1>5. CASE q = k
  <2> DEFINE x == q * b
  <2>1. x \in Nat /\ a = x + r
    BY <1>1, <1>2
  <2> HIDE DEF x
  <2>2. a - r = x
    BY <1>1, <2>1
  <2> QED BY <1>5, <2>2 DEF x, r
<1> QED BY <1>1, <1>3, <1>4, <1>5

\* GoldProcessing with times in ticks of which Second make a second.
Ticks == INSTANCE GoldProcessing WITH WindowSeconds <- WindowSeconds * Second

\* The windows of GoldProcessing are those that the code computes, also for
\* trades between two seconds, whose timestamp int() truncates first.
THEOREM WindowsAreTheCodes ==
  ASSUME NEW e \in Events
  PROVE  window_bounds_for(e.traded)
           = <<Ticks!WindowOf(e).start, Ticks!WindowEnd(Ticks!WindowOf(e))>>
<1> DEFINE t == e.traded
           s == t \div Second
           k == s \div WindowSeconds
           start == s - (s % WindowSeconds)
           length == WindowSeconds * Second
<1>1. t \in Nat /\ Second \in Nat \ {0} /\ WindowSeconds \in Nat \ {0}
  BY GoldAssumption, MarketAssumption
<1>2. s \in Nat /\ k \in Nat /\ start = k * WindowSeconds
  <2>1. s \in Nat
    BY <1>1, Division
  <2> HIDE DEF s
  <2>2. /\ k \in Nat /\ s % WindowSeconds \in 0..(WindowSeconds - 1)
        /\ s = k * WindowSeconds + (s % WindowSeconds)
    BY <1>1, <2>1, Division
  <2>3. k * WindowSeconds \in Nat
    BY <1>1, <2>2
  <2> QED BY <2>1, <2>2, <2>3
<1>3. window_bounds_for(t) = <<start * Second, start * Second + length>>
  BY <1>1 DEF window_bounds_for, window_start_for, WholeSeconds
<1>4. start * Second <= t /\ t < start * Second + length
  BY <1>1, <1>3, WindowHoldsItsTimestamp
<1> HIDE DEF s, k, start
<1>5. start * Second = k * length
  BY <1>1, <1>2, Product
<1>6. length \in Nat \ {0}
  BY <1>1
<1>7. t - (t % length) = start * Second
  <2> HIDE DEF t, length
  <2> QED BY <1>1, <1>2, <1>4, <1>5, <1>6, Remainder
<1> QED BY <1>3, <1>7 DEF Ticks!WindowOf, Ticks!WindowEnd

----------------------------------------------------------------------------
(* The order of the trades.                                                *)

\* Trades, ordered as they are read, begin and end with trades no other one
\* precedes or follows.
LEMMA FirstAndLast ==
  ASSUME NEW trades \in SUBSET Events, trades # {}
  PROVE  /\ First(trades) \in trades /\ \A f \in trades : ~TradedBefore(f, First(trades))
         /\ Last(trades) \in trades /\ \A f \in trades : ~TradedBefore(Last(trades), f)
         /\ \A f \in trades \ {Last(trades)} : TradedBefore(f, Last(trades))
<1> DEFINE R == {p \in trades \X trades : TradedBefore(p[1], p[2])}
           Q == {p \in trades \X trades : TradedBefore(p[2], p[1])}
<1>1. \A e \in trades : e \in [id: Nat, symbol: Nat, traded: Nat]
  BY GoldAssumption
<1>2. \A e, f \in trades : e # f => TradedBefore(e, f) \/ TradedBefore(f, e)
  <2> SUFFICES ASSUME NEW e \in trades, NEW f \in trades,
                      ~TradedBefore(e, f), ~TradedBefore(f, e)
               PROVE  e = f
    OBVIOUS
  <2>1. e.id \in Nat /\ f.id \in Nat /\ e.traded \in Nat /\ f.traded \in Nat
    BY <1>1
  <2>2. e.id = f.id
    BY <2>1 DEF TradedBefore
  <2> QED BY <2>2, MarketAssumption
<1>3. \A e, f, g \in trades : TradedBefore(e, f) /\ TradedBefore(f, g) => TradedBefore(e, g)
  <2> TAKE e, f, g \in trades
  <2>1. \A h \in {e, f, g} : h.id \in Nat /\ h.traded \in Nat
    BY <1>1
  <2> QED BY <2>1 DEF TradedBefore
<1>4. \A e, f \in trades : TradedBefore(e, f) => ~TradedBefore(f, e)
  <2> TAKE e, f \in trades
  <2>1. e.id \in Nat /\ f.id \in Nat /\ e.traded \in Nat /\ f.traded \in Nat
    BY <1>1
  <2> QED BY <2>1 DEF TradedBefore
<1>5. \A e, f \in trades :
        (<<e, f>> \in R <=> TradedBefore(e, f)) /\ (<<e, f>> \in Q <=> TradedBefore(f, e))
  OBVIOUS
<1>6. IsFiniteSet(trades)
  BY GoldAssumption, FS_Subset
<1> HIDE DEF R, Q
<1>7. \E e \in trades : \A f \in trades \ {e} : TradedBefore(e, f)
  <2>1. \E e \in trades : \A f \in trades \ {e} : <<e, f>> \in R
    <3>1. \A e, f \in trades : e # f => <<e, f>> \in R \/ <<f, e>> \in R
      BY <1>2, <1>5
    <3>2. \A e, f, g \in trades : <<e, f>> \in R /\ <<f, g>> \in R => <<e, g>> \in R
      BY <1>3, <1>5
    <3> QED BY <1>6, <3>1, <3>2, FirstExists
  <2> QED BY <1>5, <2>1
<1>8. \E e \in trades : \A f \in trades \ {e} : TradedBefore(f, e)
  <2>1. \E e \in trades : \A f \in trades \ {e} : <<e, f>> \in Q
    <3>1. \A e, f \in trades : e # f => <<e, f>> \in Q \/ <<f, e>> \in Q
      BY <1>2, <1>5
    <3>2. \A e, f, g \in trades : <<e, f>> \in Q /\ <<f, g>> \in Q => <<e, g>> \in Q
      BY <1>3, <1>5
    <3> QED BY <1>6, <3>1, <3>2, FirstExists
  <2> QED BY <1>5, <2>1
<1>9. First(trades) \in trades /\ \A f \in trades \ {First(trades)} : TradedBefore(First(trades), f)
  BY <1>7 DEF First
<1>10. Last(trades) \in trades /\ \A f \in trades \ {Last(trades)} : TradedBefore(f, Last(trades))
  BY <1>8 DEF Last
<1> QED BY <1>4, <1>9, <1>10

\* The last of the trades is the last of any part it belongs to.
LEMMA LastOfPart ==
  ASSUME NEW trades \in SUBSET Events, NEW part \in SUBSET trades, Last(trades) \in part
  PROVE  Last(part) = Last(trades)
<1> DEFINE l == Last(part)
<1>1. l \in part /\ \A f \in part : ~TradedBefore(l, f)
  BY FirstAndLast
<1>2. \A f \in trades \ {Last(trades)} : TradedBefore(f, Last(trades))
  BY FirstAndLast
<1> QED BY <1>1, <1>2

----------------------------------------------------------------------------
(* The arithmetic of the context.                                          *)

LEMMA DecimalTypes == Decimals \subseteq Nat /\ {0, 1} \subseteq Decimals
<1>1. \A c \in Nat, u \in Nat : c * u \in Nat
  OBVIOUS
<1>2. Context \in Nat \ {0, 1} /\ Units \subseteq Nat \ {0} /\ 1 \in Units
  BY MarketAssumption
<1>3. 0 \in 0..(Context - 1) /\ 1 \in 0..(Context - 1) /\ 0 * 1 = 0 /\ 1 * 1 = 1
  BY <1>2
<1>4. 0..(Context - 1) \subseteq Nat
  BY <1>2
<1> QED BY <1>1, <1>2, <1>3, <1>4 DEF Decimals

\* How far m is from n / d, in parts of d.
Distance(n, d, m) == IF m * d <= n THEN n - m * d ELSE m * d - n

\* Whether m is preferred to o: nearer, or as near and even.
Preferred(n, d, m, o) ==
  \/ Distance(n, d, m) < Distance(n, d, o)
  \/ /\ Distance(n, d, m) = Distance(n, d, o)
     /\ (m \div (IF m <= o THEN o - m ELSE m - o)) % 2 = 0

\* Of two numbers equally near to a quotient one is an even multiple of what
\* is between them.
LEMMA OneIsEven ==
  ASSUME NEW m \in Nat, NEW g \in Nat \ {0}
  PROVE  (m \div g) % 2 = 0 \/ ((m + g) \div g) % 2 = 0
<1> DEFINE q == m \div g
           r == m % g
<1>1. q \in Nat /\ r \in 0..(g - 1) /\ m = q * g + r
  BY Division
<1> HIDE DEF q, r
<1>2. (m + g) \div g = q + 1
  BY <1>1 DEF q
<1>3. q % 2 = 0 \/ (q + 1) % 2 = 0
  BY <1>1
<1> QED BY <1>2, <1>3 DEF q

\* There is a nearest number, and rounding takes one.
LEMMA RoundedIsNearest ==
  ASSUME NEW n \in Nat, NEW d \in Nat \ {0}
  PROVE  /\ Rounded(n, d) \in Decimals
         /\ \A o \in Decimals : Distance(n, d, Rounded(n, d)) <= Distance(n, d, o)
<1> DEFINE D(m) == Distance(n, d, m)
           T == {D(m) : m \in Decimals}
<1>1. \A m \in Nat : m * d \in Nat /\ D(m) \in Nat
  BY DEF Distance
<1>2. PICK least \in Decimals : \A o \in Decimals : D(least) <= D(o)
  <2> HIDE DEF D
  <2>1. T \in SUBSET Nat /\ T # {}
    BY <1>1, DecimalTypes
  <2>2. PICK k \in T : \A j \in T : k <= j
    BY <2>1, LeastNatural
  <2> QED BY <2>2
<1>3. \E m \in Decimals : \A o \in Decimals \ {m} : Preferred(n, d, m, o)
  <2>1. CASE \A o \in Decimals \ {least} : D(o) # D(least)
    <3>1. \A o \in Decimals \ {least} : D(least) < D(o)
      <4> TAKE o \in Decimals \ {least}
      <4>1. D(o) \in Nat /\ D(least) \in Nat /\ D(least) <= D(o) /\ D(o) # D(least)
        BY <1>1, <1>2, <2>1, DecimalTypes
      <4> QED BY <4>1
    <3> QED BY <3>1 DEF Preferred, D
  <2>2. ASSUME NEW other \in Decimals \ {least}, D(other) = D(least)
        PROVE  \E m \in Decimals : \A o \in Decimals \ {m} : Preferred(n, d, m, o)
    <3>1. PICK a \in {least, other}, b \in {least, other} : a < b
      BY DecimalTypes
    <3>2. /\ a \in Nat /\ b \in Nat /\ a \in Decimals /\ b \in Decimals
          /\ D(a) = D(b) /\ D(a) = D(least)
      BY <2>2, <3>1, DecimalTypes
    <3> HIDE DEF D
    <3>3. a * d < b * d
      <4>1. (a + 1) * d <= b * d /\ (a + 1) * d = a * d + d
        BY <3>1, <3>2, Monotone
      <4>2. a * d \in Nat /\ b * d \in Nat
        BY <3>2
      <4> DEFINE x == a * d
                 y == b * d
      <4>3. x \in Nat /\ y \in Nat /\ x + d <= y
        BY <4>1, <4>2
      <4> HIDE DEF x, y
      <4>4. x < y
        BY <4>3
      <4> QED BY <4>4 DEF x, y
    <3>4. a * d < n /\ n < b * d /\ n - a * d = D(a) /\ b * d - n = D(a)
      <4> DEFINE x == a * d
                 y == b * d
      <4>1. x \in Nat /\ y \in Nat /\ x < y
        BY <3>2, <3>3
      <4>2. /\ D(a) = (IF x <= n THEN n - x ELSE x - n)
            /\ D(b) = (IF y <= n THEN n - y ELSE y - n)
        BY DEF D, Distance
      <4> HIDE DEF x, y
      <4> DEFINE u == D(a)
      <4>3. u = (IF x <= n THEN n - x ELSE x - n) /\ u = (IF y <= n THEN n - y ELSE y - n)
        BY <3>2, <4>2
      <4> HIDE DEF u
      <4>4. x < n /\ n < y /\ n - x = u /\ y - n = u
        BY <4>1, <4>3
      <4> QED BY <4>4 DEF x, y, u
    <3>5. ASSUME NEW o \in Decimals, D(o) = D(a) PROVE o \in {a, b}
      <4>1. o \in Nat /\ o * d \in Nat /\ a * d \in Nat /\ b * d \in Nat
        BY <3>2, DecimalTypes
      <4>2. o * d = a * d \/ o * d = b * d
        <5> DEFINE x == a * d
                   y == b * d
                   z == o * d
        <5>1. D(o) = (IF z <= n THEN n - z ELSE z - n)
          BY DEF D, Distance
        <5>2. x \in Nat /\ y \in Nat /\ z \in Nat /\ n - x = D(a) /\ y - n = D(a)
          BY <3>4, <4>1
        <5> HIDE DEF x, y, z
        <5>3. z = x \/ z = y
          BY <3>5, <5>1, <5>2
        <5> QED BY <5>3 DEF x, y, z
      <4>3. (o * d) \div d = o /\ (a * d) \div d = a /\ (b * d) \div d = b
        BY <3>2, <4>1, Multiples
      <4> QED BY <4>2, <4>3
    <3>6. \A o \in Decimals \ {a, b} : D(a) < D(o) /\ D(b) < D(o)
      <4> TAKE o \in Decimals \ {a, b}
      <4>1. D(o) \in Nat /\ D(a) \in Nat /\ D(a) <= D(o) /\ D(o) # D(a)
        BY <1>1, <1>2, <3>2, <3>5, DecimalTypes
      <4> QED BY <3>2, <4>1
    <3>7. b - a \in Nat \ {0} /\ a + (b - a) = b
      BY <3>1, <3>2
    <3>8. (a \div (b - a)) % 2 = 0 \/ (b \div (b - a)) % 2 = 0
      BY <3>2, <3>7, OneIsEven
    <3>9. CASE (a \div (b - a)) % 2 = 0
      <4>1. Preferred(n, d, a, b)
        BY <3>1, <3>2, <3>9 DEF Preferred, D
      <4>2. \A o \in Decimals \ {a} : Preferred(n, d, a, o)
        BY <3>6, <4>1 DEF Preferred, D
      <4> QED BY <3>2, <4>2
    <3>10. CASE (b \div (b - a)) % 2 = 0
      <4>1. Preferred(n, d, b, a)
        BY <3>1, <3>2, <3>10 DEF Preferred, D
      <4>2. \A o \in Decimals \ {b} : Preferred(n, d, b, o)
        BY <3>6, <4>1 DEF Preferred, D
      <4> QED BY <3>2, <4>2
    <3> QED BY <3>8, <3>9, <3>10
  <2> QED BY <2>1, <2>2
<1>4. Rounded(n, d) = CHOOSE m \in Decimals : \A o \in Decimals \ {m} : Preferred(n, d, m, o)
  BY DEF Rounded, Preferred, Distance
<1> DEFINE q == Rounded(n, d)
<1>5. q \in Decimals /\ \A o \in Decimals \ {q} : Preferred(n, d, q, o)
  BY <1>3, <1>4
<1> HIDE DEF q
<1>6. \A o \in Decimals : D(q) <= D(o)
  <2> TAKE o \in Decimals
  <2>1. D(q) \in Nat /\ D(o) \in Nat
    BY <1>1, <1>5, DecimalTypes
  <2>2. o = q \/ D(q) < D(o) \/ D(q) = D(o)
    BY <1>5 DEF Preferred
  <2> HIDE DEF D
  <2> QED BY <2>1, <2>2
<1> QED BY <1>5, <1>6 DEF q

\* Rounding passes over no number that can be a result.
LEMMA RoundedKeepsBounds ==
  ASSUME NEW n \in Nat, NEW d \in Nat \ {0}, NEW m \in Decimals
  PROVE  /\ m * d <= n => m <= Rounded(n, d)
         /\ n <= m * d => Rounded(n, d) <= m
<1> DEFINE q == Rounded(n, d)
           x == m * d
           y == q * d
<1>1. q \in Decimals /\ q \in Nat /\ m \in Nat /\ Distance(n, d, q) <= Distance(n, d, m)
  BY RoundedIsNearest, DecimalTypes
<1>2. x \in Nat /\ y \in Nat
  BY <1>1
<1>3. /\ Distance(n, d, m) = (IF x <= n THEN n - x ELSE x - n)
      /\ Distance(n, d, q) = (IF y <= n THEN n - y ELSE y - n)
  BY DEF Distance
<1> HIDE DEF q
<1>4. q < m => y + d <= x
  <2> SUFFICES ASSUME q + 1 <= m PROVE y + d <= x
    BY <1>1
  <2>1. (q + 1) * d <= m * d /\ (q + 1) * d = q * d + d
    BY <1>1, Monotone
  <2> QED BY <2>1
<1>5. m < q => x + d <= y
  <2> SUFFICES ASSUME m + 1 <= q PROVE x + d <= y
    BY <1>1
  <2>1. (m + 1) * d <= q * d /\ (m + 1) * d = m * d + d
    BY <1>1, Monotone
  <2> QED BY <2>1
<1>6. (x <= n => m <= q) /\ (n <= x => q <= m)
  <2> HIDE DEF x, y
  <2> QED BY <1>1, <1>2, <1>3, <1>4, <1>5
<1> QED BY <1>6 DEF q, x

\* What needs no rounding is not rounded, and rounding keeps the order.
LEMMA RoundedSum ==
  /\ \A n \in Decimals : Rounded(n, 1) = n
  /\ \A n, m \in Nat : n <= m => Rounded(n, 1) <= Rounded(m, 1)
  /\ \A n \in Nat, m \in Decimals : m <= n => m <= Rounded(n, 1)
<1>1. \A n \in Nat : n * 1 = n
  OBVIOUS
<1>2. \A n \in Nat, m \in Decimals :
        (m <= n => m <= Rounded(n, 1)) /\ (n <= m => Rounded(n, 1) <= m)
  <2> TAKE n \in Nat, m \in Decimals
  <2>1. 1 \in Nat \ {0} /\ m * 1 = m
    BY <1>1, DecimalTypes
  <2> QED BY <2>1, RoundedKeepsBounds
<1>3. \A n \in Nat : Rounded(n, 1) \in Decimals /\ Rounded(n, 1) \in Nat
  <2>1. 1 \in Nat \ {0}
    OBVIOUS
  <2> QED BY <2>1, RoundedIsNearest, DecimalTypes
<1>4. ASSUME NEW n \in Decimals PROVE Rounded(n, 1) = n
  BY <1>2, <1>3, DecimalTypes
<1>5. ASSUME NEW n \in Nat, NEW m \in Nat, n <= m PROVE Rounded(n, 1) <= Rounded(m, 1)
  <2> DEFINE a == Rounded(n, 1)
             b == Rounded(m, 1)
  <2>1. /\ Distance(n, 1, a) <= Distance(n, 1, b)
        /\ Distance(m, 1, b) <= Distance(m, 1, a)
    <3>1. 1 \in Nat \ {0} /\ a \in Decimals /\ b \in Decimals
      BY <1>3
    <3> HIDE DEF a, b
    <3> QED BY <3>1, RoundedIsNearest DEF a, b
  <2>2. a \in Nat /\ b \in Nat
    BY <1>3
  <2> HIDE DEF a, b
  <2>3. ASSUME n = m PROVE a <= b
    <3>1. a = b
      BY <2>3 DEF a, b
    <3> QED BY <2>2, <3>1
  <2>4. ASSUME n < m PROVE a <= b
    <3>1. /\ Distance(n, 1, a) = (IF a <= n THEN n - a ELSE a - n)
          /\ Distance(n, 1, b) = (IF b <= n THEN n - b ELSE b - n)
          /\ Distance(m, 1, a) = (IF a <= m THEN m - a ELSE a - m)
          /\ Distance(m, 1, b) = (IF b <= m THEN m - b ELSE b - m)
      BY <1>1, <2>2 DEF Distance
    <3>2. a <= b
      BY <2>1, <2>2, <2>4, <3>1
    <3> QED BY <3>2
  <2>5. n = m \/ n < m
    BY <1>5
  <2>6. a <= b
    BY <2>3, <2>4, <2>5
  <2> QED BY <2>6 DEF a, b
<1> QED BY <1>2, <1>4, <1>5

----------------------------------------------------------------------------
(* Sums in the order of the trades.                                        *)

\* One turn of the loop of aggregate_window().
SumStep(sum, value, s) ==
  IF s = {} THEN 0 ELSE Rounded(sum[s \ {Last(s)}] + value[Last(s)], 1)
IsSum(sum, value, S) == sum = [s \in SUBSET S |-> SumStep(sum, value, s)]

\* The recursion has a solution.
LEMMA SumExists ==
  ASSUME NEW S \in SUBSET Events, NEW value
  PROVE  \E sum : IsSum(sum, value, S)
<1> DEFINE D(n) == {s \in SUBSET S : Cardinality(s) <= n}
           U == {n \in Nat : \E sum : sum = [s \in D(n) |-> SumStep(sum, value, s)]}
<1>1. /\ IsFiniteSet(S)
      /\ \A s \in SUBSET S : IsFiniteSet(s) /\ Cardinality(s) \in Nat
  BY GoldAssumption, FS_Subset, FS_CardinalityType
<1>2. 0 \in U
  <2> DEFINE sum == [s \in D(0) |-> 0]
  <2>1. \A s \in D(0) : s = {}
    BY <1>1, FS_EmptySet
  <2>2. sum = [s \in D(0) |-> SumStep(sum, value, s)]
    BY <2>1 DEF SumStep
  <2> QED BY <2>2
<1>3. ASSUME NEW n \in Nat, n \in U PROVE n + 1 \in U
  <2>1. PICK sum : sum = [s \in D(n) |-> SumStep(sum, value, s)]
    BY <1>3
  <2> DEFINE next == [s \in D(n + 1) |-> SumStep(sum, value, s)]
  <2>2. ASSUME NEW s \in D(n + 1) PROVE SumStep(next, value, s) = SumStep(sum, value, s)
    <3>1. CASE s = {}
      BY <3>1 DEF SumStep
    <3>2. CASE s # {}
      <4>1. Last(s) \in s
        BY <3>2, FirstAndLast
      <4>2. s \ {Last(s)} \in D(n) /\ s \ {Last(s)} \in D(n + 1)
        BY <1>1, <4>1, FS_RemoveElement
      <4>3. next[s \ {Last(s)}] = sum[s \ {Last(s)}]
        BY <2>1, <4>2
      <4> QED BY <3>2, <4>3 DEF SumStep
    <3> QED BY <3>1, <3>2
  <2>3. next = [s \in D(n + 1) |-> SumStep(next, value, s)]
    BY <2>2
  <2>4. \E total : total = [s \in D(n + 1) |-> SumStep(total, value, s)]
    <3> HIDE DEF next, D
    <3> QED BY <2>3
  <2> HIDE DEF D
  <2> QED BY <2>4
<1>4. Nat \subseteq U
  <2> HIDE DEF U
  <2> QED BY <1>2, <1>3, SetInduction
<1>5. Cardinality(S) \in U /\ D(Cardinality(S)) = SUBSET S
  BY <1>1, <1>4, FS_Subset
<1> QED BY <1>5 DEF IsSum

\* The sum over a part of a set is computed in the same way.
LEMMA SumRestricts ==
  ASSUME NEW S \in SUBSET Events, NEW R \in SUBSET S, NEW value,
         NEW sum, IsSum(sum, value, S), NEW part, IsSum(part, value, R)
  PROVE  part[R] = sum[R]
<1> DEFINE T == {s \in SUBSET R : part[s] = sum[s]}
<1>1. ASSUME NEW s \in SUBSET R, \A x \in s : s \ {x} \in T PROVE s \in T
  <2>1. part[s] = SumStep(part, value, s) /\ sum[s] = SumStep(sum, value, s)
    BY DEF IsSum
  <2>2. SumStep(part, value, s) = SumStep(sum, value, s)
    <3>1. CASE s = {}
      BY <3>1 DEF SumStep
    <3>2. CASE s # {}
      <4>1. Last(s) \in s
        BY <3>2, FirstAndLast
      <4>2. part[s \ {Last(s)}] = sum[s \ {Last(s)}]
        BY <1>1, <4>1
      <4> QED BY <3>2, <4>2 DEF SumStep
    <3> QED BY <3>1, <3>2
  <2> QED BY <2>1, <2>2
<1>2. IsFiniteSet(R)
  BY GoldAssumption, FS_Subset
<1>3. SUBSET R \subseteq T
  <2> HIDE DEF T
  <2> QED BY <1>1, <1>2, SubsetInduction
<1> QED BY <1>3

\* RunningSum is that sum.
LEMMA RunningSumIsSum ==
  ASSUME NEW sum, NEW value, IsSum(sum, value, Events), NEW trades \in SUBSET Events
  PROVE  RunningSum(value, trades) = sum[trades]
<1> DEFINE Rhs(g) == [s \in SUBSET trades |->
             IF s = {} THEN 0 ELSE Rounded(g[s \ {Last(s)}] + value[Last(s)], 1)]
<1>1. \A g : Rhs(g) = [s \in SUBSET trades |-> SumStep(g, value, s)]
  BY DEF SumStep
<1>2. \E g : g = Rhs(g)
  <2>1. PICK g : IsSum(g, value, trades)
    BY SumExists
  <2> HIDE DEF Rhs
  <2> QED BY <1>1, <2>1 DEF IsSum
<1> DEFINE part == CHOOSE g : g = Rhs(g)
<1>3. RunningSum(value, trades) = part[trades]
  BY DEF RunningSum
<1>4. part = Rhs(part)
  <2> HIDE DEF Rhs
  <2> QED BY <1>2
<1>5. IsSum(part, value, trades)
  <2> HIDE DEF Rhs, part
  <2> QED BY <1>1, <1>4 DEF IsSum
<1> QED
  <2> HIDE DEF part
  <2> QED BY <1>3, <1>5, SumRestricts

\* A sum is that of all trades but the last, and the last, rounded.
LEMMA RunningSumProperties ==
  ASSUME NEW value \in [Events -> Nat]
  PROVE  /\ RunningSum(value, {}) = 0
         /\ \A s \in SUBSET Events : RunningSum(value, s) \in Decimals
         /\ \A s \in (SUBSET Events) \ {{}} :
              /\ Last(s) \in s /\ RunningSum(value, s \ {Last(s)}) \in Nat
              /\ RunningSum(value, s)
                   = Rounded(RunningSum(value, s \ {Last(s)}) + value[Last(s)], 1)
<1>1. PICK sum : IsSum(sum, value, Events)
  BY SumExists
<1>2. \A s \in SUBSET Events : RunningSum(value, s) = sum[s] /\ sum[s] = SumStep(sum, value, s)
  BY <1>1, RunningSumIsSum DEF IsSum
<1>3. \A s \in (SUBSET Events) \ {{}} : Last(s) \in s
  BY FirstAndLast
<1>4. \A n \in Nat : Rounded(n, 1) \in Decimals
  <2>1. 1 \in Nat \ {0}
    OBVIOUS
  <2> QED BY <2>1, RoundedIsNearest
<1> DEFINE T == {s \in SUBSET Events : sum[s] \in Decimals}
<1>5. ASSUME NEW s \in SUBSET Events, \A x \in s : s \ {x} \in T PROVE s \in T
  <2>1. CASE s = {}
    BY <1>2, <2>1, DecimalTypes DEF SumStep
  <2>2. CASE s # {}
    <3>1. sum[s \ {Last(s)}] \in Nat /\ value[Last(s)] \in Nat
      BY <1>3, <1>5, <2>2, DecimalTypes
    <3>2. sum[s \ {Last(s)}] + value[Last(s)] \in Nat
      BY <3>1
    <3> QED BY <1>2, <1>4, <2>2, <3>2 DEF SumStep
  <2> QED BY <2>1, <2>2
<1>6. SUBSET Events \subseteq T
  <2> HIDE DEF T
  <2> QED BY <1>5, SubsetInduction, GoldAssumption
<1>7. ASSUME NEW s \in (SUBSET Events) \ {{}}
      PROVE  /\ Last(s) \in s /\ RunningSum(value, s \ {Last(s)}) \in Nat
             /\ RunningSum(value, s)
                  = Rounded(RunningSum(value, s \ {Last(s)}) + value[Last(s)], 1)
  <2>1. s \ {Last(s)} \in SUBSET Events /\ s # {}
    OBVIOUS
  <2>2. sum[s \ {Last(s)}] \in Nat
    BY <1>6, <2>1, DecimalTypes
  <2> QED BY <1>2, <1>3, <2>1, <2>2 DEF SumStep
<1>8. RunningSum(value, {}) = 0
  BY <1>2 DEF SumStep
<1> QED BY <1>2, <1>6, <1>7, <1>8

\* The values that are summed.
LEMMA ValueTypes ==
  /\ Quantities \in [Events -> Nat] /\ Values \in [Events -> Nat]
  /\ \A e \in Events : /\ Quantities[e] = Quantity[e.id] /\ Quantity[e.id] \in Nat \ {0}
                       /\ Price[e.id] \in Nat
                       /\ Values[e] = Rounded(Price[e.id] * Quantity[e.id], 1)
<1>1. \A e \in Events : Price[e.id] \in Nat /\ Quantity[e.id] \in Nat \ {0}
  BY MarketAssumption
<1>2. \A p, q \in Nat : p * q \in Nat
  OBVIOUS
<1>3. \A n \in Nat : Rounded(n, 1) \in Nat
  <2>1. 1 \in Nat \ {0}
    OBVIOUS
  <2> QED BY <2>1, RoundedIsNearest, DecimalTypes
<1>4. \A e \in Events : Rounded(Price[e.id] * Quantity[e.id], 1) \in Nat
  BY <1>1, <1>2, <1>3
<1> QED BY <1>1, <1>4 DEF Quantities, Values

----------------------------------------------------------------------------
(* The volumes and the mean price.                                         *)

\* The trades of one side are a part of them all.
LEMMA SideOf ==
  ASSUME NEW side, NEW s \in SUBSET Events, s # {}
  PROVE  /\ OfSide(side, s) \in SUBSET Events
         /\ Side[Last(s).id] # side => OfSide(side, s) = OfSide(side, s \ {Last(s)})
         /\ Side[Last(s).id] = side =>
              /\ OfSide(side, s) # {} /\ Last(OfSide(side, s)) = Last(s)
              /\ OfSide(side, s) \ {Last(s)} = OfSide(side, s \ {Last(s)})
<1>1. Last(s) \in s
  BY FirstAndLast
<1>2. OfSide(side, s) \in SUBSET s
  BY DEF OfSide
<1>3. Side[Last(s).id] = side => Last(s) \in OfSide(side, s)
  BY <1>1 DEF OfSide
<1>4. Side[Last(s).id] = side => Last(OfSide(side, s)) = Last(s)
  BY <1>2, <1>3, LastOfPart
<1>5. OfSide(side, s) \ {Last(s)} = OfSide(side, s \ {Last(s)})
  BY DEF OfSide
<1>6. Side[Last(s).id] # side => Last(s) \notin OfSide(side, s)
  BY DEF OfSide
<1> QED BY <1>1, <1>2, <1>3, <1>4, <1>5, <1>6

\* No side has more than the volume.
LEMMA SidesBelow ==
  ASSUME NEW trades \in SUBSET Events, NEW side
  PROVE  Volume(OfSide(side, trades)) <= Volume(trades)
<1> DEFINE T == {s \in SUBSET Events : Volume(OfSide(side, s)) <= Volume(s)}
<1>1. ASSUME NEW s \in SUBSET Events, \A x \in s : s \ {x} \in T PROVE s \in T
  <2>1. CASE s = {}
    <3>1. OfSide(side, s) = {} /\ Volume({}) = 0
      BY <2>1, ValueTypes, RunningSumProperties DEF OfSide, Volume
    <3> QED BY <2>1, <3>1
  <2>2. CASE s # {}
    <3> DEFINE l == Last(s)
               r == s \ {l}
               q == Quantities[l]
    <3>1. l \in s /\ r \in T /\ q \in Nat
      <4>1. l \in s
        BY <2>2, FirstAndLast
      <4> QED BY <1>1, <4>1, ValueTypes
    <3>2. Volume(r) \in Nat /\ Volume(s) = Rounded(Volume(r) + q, 1)
      BY <2>2, ValueTypes, RunningSumProperties DEF Volume
    <3>3. OfSide(side, r) \in SUBSET Events /\ OfSide(side, s) \in SUBSET Events
      BY DEF OfSide
    <3>4. Volume(OfSide(side, r)) \in Nat /\ Volume(OfSide(side, r)) <= Volume(r)
      BY <3>1, <3>3, ValueTypes, RunningSumProperties, DecimalTypes DEF Volume
    <3> DEFINE v == Volume(r)
               w == Volume(OfSide(side, r))
    <3>5. CASE Side[l.id] # side
      <4>1. Volume(OfSide(side, s)) = w
        BY <2>2, <3>5, SideOf
      <4>2. v \in Decimals /\ v \in Nat /\ v <= v + q /\ v + q \in Nat
        BY <3>1, <3>2, ValueTypes, RunningSumProperties DEF Volume
      <4>3. v <= Rounded(v + q, 1) /\ Rounded(v + q, 1) \in Nat
        <5> HIDE DEF v, q
        <5>1. v <= Rounded(v + q, 1)
          BY <4>2, RoundedSum
        <5>2. 1 \in Nat \ {0}
          OBVIOUS
        <5> QED BY <4>2, <5>1, <5>2, RoundedIsNearest, DecimalTypes
      <4> DEFINE all == Rounded(v + q, 1)
      <4>4. w <= v /\ w \in Nat /\ v \in Nat /\ v <= all /\ all \in Nat
        BY <3>2, <3>4, <4>3
      <4> HIDE DEF v, w, all
      <4>5. w <= all
        BY <4>4
      <4> QED BY <3>2, <4>1, <4>5 DEF v, all
    <3>6. CASE Side[l.id] = side
      <4>1. /\ OfSide(side, s) # {} /\ Last(OfSide(side, s)) = l
            /\ OfSide(side, s) \ {l} = OfSide(side, r)
        BY <2>2, <3>6, SideOf
      <4>2. Volume(OfSide(side, s)) = Rounded(w + q, 1)
        <5> DEFINE part == OfSide(side, s)
        <5>1. part \in (SUBSET Events) \ {{}} /\ Last(part) = l /\ part \ {l} = OfSide(side, r)
          BY <3>3, <4>1
        <5> HIDE DEF part, l, r
        <5>2. Volume(part) = Rounded(Volume(part \ {l}) + Quantities[l], 1)
          BY <5>1, ValueTypes, RunningSumProperties DEF Volume
        <5> QED BY <5>1, <5>2 DEF part, l
      <4>3. v + q \in Nat /\ w + q \in Nat /\ w + q <= v + q
        <5>1. v \in Nat /\ w \in Nat /\ q \in Nat /\ w <= v
          BY <3>1, <3>2, <3>4
        <5> HIDE DEF v, w, q
        <5> QED BY <5>1
      <4>4. Rounded(w + q, 1) <= Rounded(v + q, 1)
        <5> HIDE DEF v, w, q
        <5> QED BY <4>3, RoundedSum
      <4> QED BY <3>2, <4>2, <4>4
    <3> QED BY <3>5, <3>6
  <2> QED BY <2>1, <2>2
<1>2. SUBSET Events \subseteq T
  <2> HIDE DEF T
  <2> QED BY <1>1, SubsetInduction, GoldAssumption
<1> QED BY <1>2

\* Something was traded.
LEMMA VolumeIsPositive ==
  ASSUME NEW trades \in SUBSET Events, trades # {}
  PROVE  Volume(trades) \in Nat \ {0}
<1> DEFINE v == Volume(trades \ {Last(trades)})
           q == Quantities[Last(trades)]
<1>1. v \in Nat /\ Last(trades) \in trades /\ Volume(trades) = Rounded(v + q, 1)
  BY ValueTypes, RunningSumProperties DEF Volume
<1>2. q \in Nat \ {0}
  BY <1>1, ValueTypes
<1> HIDE DEF v, q
<1>3. v + q \in Nat /\ 1 <= v + q /\ 1 \in Decimals
  BY <1>1, <1>2, DecimalTypes
<1>4. 1 <= Rounded(v + q, 1)
  BY <1>3, RoundedSum
<1>5. Volume(trades) \in Nat
  BY ValueTypes, RunningSumProperties, DecimalTypes DEF Volume
<1> QED BY <1>1, <1>4, <1>5

\* Trades of which nothing is rounded add up exactly, in the order they have.
LEMMA ExactSums ==
  ASSUME NEW trades \in NothingRounded, NEW s \in SUBSET trades, s # {}
  PROVE  /\ s \in SUBSET Events /\ Last(s) \in s
         /\ Volume(s \ {Last(s)}) \in Nat /\ Notional(s \ {Last(s)}) \in Nat
         /\ Volume(s) = Volume(s \ {Last(s)}) + Quantity[Last(s).id]
         /\ Notional(s) = Notional(s \ {Last(s)}) + Price[Last(s).id] * Quantity[Last(s).id]
<1> DEFINE l == Last(s)
           r == s \ {l}
<1>1. trades \in SUBSET Events /\ s \in (SUBSET Events) \ {{}} /\ s \in (SUBSET trades) \ {{}}
  BY DEF NothingRounded
<1>2. l \in s /\ Volume(r) \in Nat /\ Notional(r) \in Nat
  BY <1>1, ValueTypes, RunningSumProperties DEF Volume, Notional
<1>3. \A value \in {Quantities, Values} : RunningSum(value, r) + value[l] \in Decimals
  BY <1>1 DEF NothingRounded
<1>4. \A value \in {Quantities, Values} : RunningSum(value, s) = RunningSum(value, r) + value[l]
  <2> TAKE value \in {Quantities, Values}
  <2>1. RunningSum(value, s) = Rounded(RunningSum(value, r) + value[l], 1)
    BY <1>1, ValueTypes, RunningSumProperties
  <2> HIDE DEF l, r
  <2> QED BY <1>3, <2>1, RoundedSum
<1>5. Quantities[l] = Quantity[l.id] /\ Values[l] = Price[l.id] * Quantity[l.id]
  <2>1. l \in Events /\ l \in trades
    BY <1>1, <1>2
  <2>2. Price[l.id] * Quantity[l.id] \in Decimals
    BY <2>1 DEF NothingRounded
  <2> HIDE DEF l
  <2> QED BY <2>1, <2>2, ValueTypes, RoundedSum
<1> QED BY <1>1, <1>2, <1>4, <1>5 DEF Volume, Notional

\* What is bought and what is sold add up to the volume.
LEMMA SidesAddUp ==
  ASSUME NEW trades \in NothingRounded
  PROVE  Volume(trades) = Volume(OfSide("buy", trades)) + Volume(OfSide("sell", trades))
<1> DEFINE T == {s \in SUBSET trades :
                  Volume(s) = Volume(OfSide("buy", s)) + Volume(OfSide("sell", s))}
<1>1. IsFiniteSet(trades) /\ trades \in SUBSET Events
  BY GoldAssumption, FS_Subset DEF NothingRounded
<1>2. ASSUME NEW s \in SUBSET trades, \A x \in s : s \ {x} \in T PROVE s \in T
  <2>1. CASE s = {}
    <3>1. OfSide("buy", s) = {} /\ OfSide("sell", s) = {} /\ Volume({}) = 0
      BY <2>1, ValueTypes, RunningSumProperties DEF OfSide, Volume
    <3> QED BY <2>1, <3>1
  <2>2. CASE s # {}
    <3> DEFINE l == Last(s)
               r == s \ {l}
               q == Quantity[l.id]
               V(side) == Volume(OfSide(side, r))
    <3>1. l \in s /\ l \in Events /\ Volume(r) \in Nat /\ Volume(s) = Volume(r) + q
      BY <1>1, <2>2, ExactSums
    <3>2. q \in Nat /\ Volume(r) = V("buy") + V("sell") /\ Side[l.id] \in {"buy", "sell"}
      BY <1>2, <3>1, ValueTypes, MarketAssumption
    <3>3. \A side : V(side) \in Nat
      <4> TAKE side
      <4>1. OfSide(side, r) \in SUBSET Events
        BY <1>1 DEF OfSide
      <4> QED BY <4>1, ValueTypes, RunningSumProperties, DecimalTypes DEF Volume
    <3>4. ASSUME NEW side \in {"buy", "sell"}, Side[l.id] # side
          PROVE  Volume(OfSide(side, s)) = V(side)
      BY <1>1, <2>2, <3>4, SideOf
    <3>5. ASSUME NEW side \in {"buy", "sell"}, Side[l.id] = side
          PROVE  Volume(OfSide(side, s)) = V(side) + q
      <4> DEFINE part == OfSide(side, s)
      <4>1. part # {} /\ Last(part) = l /\ part \ {l} = OfSide(side, r)
        BY <1>1, <2>2, <3>5, SideOf
      <4>2. part \in SUBSET trades
        BY DEF OfSide
      <4> HIDE DEF part, l, r
      <4>3. Volume(part) = Volume(part \ {l}) + Quantity[l.id]
        BY <4>1, <4>2, ExactSums
      <4> QED BY <4>1, <4>3 DEF part
    <3> HIDE DEF l, r, q, V
    <3>6. CASE Side[l.id] = "buy"
      <4>1. Volume(OfSide("buy", s)) = V("buy") + q /\ Volume(OfSide("sell", s)) = V("sell")
        BY <3>4, <3>5, <3>6
      <4> QED BY <3>1, <3>2, <3>3, <4>1
    <3>7. CASE Side[l.id] = "sell"
      <4>1. Volume(OfSide("sell", s)) = V("sell") + q /\ Volume(OfSide("buy", s)) = V("buy")
        BY <3>4, <3>5, <3>7
      <4> QED BY <3>1, <3>2, <3>3, <4>1
    <3> QED BY <3>2, <3>6, <3>7
  <2> QED BY <2>1, <2>2
<1>3. SUBSET trades \subseteq T
  <2> HIDE DEF T
  <2> QED BY <1>1, <1>2, SubsetInduction
<1> QED BY <1>3

\* The mean price is between any bounds of the prices.
LEMMA NotionalBounds ==
  ASSUME NEW k \in Nat, NEW trades \in NothingRounded
  PROVE  /\ (\A e \in trades : k <= Price[e.id]) => k * Volume(trades) <= Notional(trades)
         /\ (\A e \in trades : Price[e.id] <= k) => Notional(trades) <= k * Volume(trades)
<1> DEFINE Above(s) == (\A e \in s : k <= Price[e.id]) => k * Volume(s) <= Notional(s)
           Below(s) == (\A e \in s : Price[e.id] <= k) => Notional(s) <= k * Volume(s)
           T == {s \in SUBSET trades : Above(s) /\ Below(s)}
<1>1. IsFiniteSet(trades) /\ trades \in SUBSET Events
  BY GoldAssumption, FS_Subset DEF NothingRounded
<1>2. ASSUME NEW s \in SUBSET trades, \A x \in s : s \ {x} \in T PROVE s \in T
  <2>1. CASE s = {}
    <3>1. k * 0 = 0 /\ Volume({}) = 0 /\ Notional({}) = 0
      BY ValueTypes, RunningSumProperties DEF Volume, Notional
    <3> QED BY <2>1, <3>1
  <2>2. CASE s # {}
    <3> DEFINE x == Last(s)
               r == s \ {x}
               p == Price[x.id]
               q == Quantity[x.id]
               vol == Volume(r)
               val == Notional(r)
    <3>1. /\ x \in s /\ x \in Events /\ vol \in Nat /\ val \in Nat
          /\ Volume(s) = vol + q /\ Notional(s) = val + p * q
      BY <1>1, <2>2, ExactSums
    <3>2. Above(r) /\ Below(r)
      BY <1>2, <3>1
    <3>3. p \in Nat /\ q \in Nat
      BY <3>1, ValueTypes
    <3>4. (\A e \in s : k <= Price[e.id]) => k <= p /\ k * vol <= val
      BY <3>1, <3>2
    <3>5. (\A e \in s : Price[e.id] <= k) => p <= k /\ val <= k * vol
      BY <3>1, <3>2
    <3> HIDE DEF vol, val, p, q, r, x
    <3>6. k * (vol + q) = k * vol + k * q
      BY <3>1, <3>3
    <3>7. k * q \in Nat /\ k * vol \in Nat /\ p * q \in Nat
      BY <3>1, <3>3
    <3>8. (k <= p => k * q <= p * q) /\ (p <= k => p * q <= k * q)
      BY <3>3, Monotone
    <3> DEFINE a == k * q
               b == k * vol
               c == p * q
    <3>9. /\ k <= p /\ b <= val => b + a <= val + c
          /\ p <= k /\ val <= b => val + c <= b + a
      <4>1. a \in Nat /\ b \in Nat /\ c \in Nat
        BY <3>7
      <4>2. (k <= p => a <= c) /\ (p <= k => c <= a)
        BY <3>8
      <4> HIDE DEF a, b, c
      <4> QED BY <3>1, <4>1, <4>2
    <3> QED BY <3>1, <3>4, <3>5, <3>6, <3>9
  <2> QED BY <2>1, <2>2
<1>3. SUBSET trades \subseteq T
  <2> HIDE DEF T
  <2> QED BY <1>1, <1>2, SubsetInduction
<1> QED BY <1>3

----------------------------------------------------------------------------
(* quantize().                                                             *)

\* Rounding to the nearest multiple, halves upwards.
LEMMA HalfUp ==
  ASSUME NEW n \in Nat, NEW d \in Nat \ {0}
  PROVE  /\ RoundHalfUp(n, d) \in Nat
         /\ RoundHalfUp(n, d) * (2 * d) <= 2 * n + d
         /\ 2 * n + d < RoundHalfUp(n, d) * (2 * d) + 2 * d
<1> DEFINE a == 2 * n + d
           b == 2 * d
<1>1. a \in Nat /\ b \in Nat \ {0}
  OBVIOUS
<1>2. RoundHalfUp(n, d) = a \div b
  BY DEF RoundHalfUp
<1> HIDE DEF a, b
<1>3. a \div b \in Nat /\ a % b \in 0..(b - 1) /\ a = (a \div b) * b + (a % b)
  BY <1>1, Division
<1>4. (a \div b) * b \in Nat
  BY <1>1, <1>3
<1>5. (a \div b) * b <= a /\ a < (a \div b) * b + b
  BY <1>1, <1>3, <1>4
<1> QED BY <1>2, <1>3, <1>5 DEF a, b

\* A multiple is not above the rounded quotient if it is not above the
\* quotient plus one half.
LEMMA HalfUpIsLargest ==
  ASSUME NEW n \in Nat, NEW d \in Nat \ {0}, NEW k \in Nat, k * (2 * d) <= 2 * n + d
  PROVE  k <= RoundHalfUp(n, d)
<1> DEFINE q == RoundHalfUp(n, d)
           b == 2 * d
<1>1. q \in Nat /\ b \in Nat \ {0} /\ 2 * n + d < q * b + b
  BY HalfUp
<1>2. k * b < q * b + b
  <2>1. k * b \in Nat /\ q * b \in Nat /\ 2 * n + d \in Nat
    BY <1>1
  <2> DEFINE kb == k * b
             qb == q * b
             a == 2 * n + d
  <2>2. kb <= a /\ a < qb + b
    BY <1>1
  <2> HIDE DEF kb, qb, a
  <2>3. kb < qb + b
    BY <1>1, <2>1, <2>2 DEF kb, qb, a
  <2> QED BY <2>3 DEF kb, qb
<1> HIDE DEF q, b
<1>3. CASE q + 1 <= k
  <2>1. (q + 1) * b <= k * b
    BY <1>1, <1>3, Monotone
  <2>2. (q + 1) * b = q * b + b
    BY <1>1
  <2>3. q * b \in Nat /\ k * b \in Nat
    BY <1>1
  <2> QED BY <1>1, <1>2, <2>1, <2>2, <2>3
<1>4. CASE k <= q
  BY <1>4 DEF q
<1> QED BY <1>1, <1>3, <1>4

\* Rounded values are ordered like the quotients n / d and m / (v * d).
LEMMA HalfUpBelow ==
  ASSUME NEW n \in Nat, NEW m \in Nat, NEW d \in Nat \ {0}, NEW v \in Nat \ {0}, n * v <= m
  PROVE  RoundHalfUp(n, d) <= RoundHalfUp(m, v * d)
<1> DEFINE q == RoundHalfUp(n, d)
<1>1. q \in Nat /\ q * (2 * d) <= 2 * n + d
  BY HalfUp
<1> HIDE DEF q
<1>2. (q * (2 * d)) * v <= (2 * n + d) * v
  BY <1>1, Monotone
<1>3. (q * (2 * d)) * v = q * (2 * (v * d))
  <2>1. (q * (2 * d)) * v = q * (v * (2 * d))
    BY <1>1, Product
  <2>2. v * (2 * d) = 2 * (v * d)
    OBVIOUS
  <2> QED BY <2>1, <2>2
<1>4. (2 * n + d) * v = 2 * (n * v) + v * d
  OBVIOUS
<1>5. v * d \in Nat \ {0} /\ n * v \in Nat
  OBVIOUS
<1>6. q * (2 * (v * d)) <= 2 * m + v * d
  <2> DEFINE x == q * (2 * (v * d))
             y == n * v
             z == v * d
  <2>1. x \in Nat
    BY <1>1, <1>5
  <2>2. x <= 2 * y + z /\ y <= m
    BY <1>2, <1>3, <1>4
  <2>3. y \in Nat /\ z \in Nat
    BY <1>5
  <2> HIDE DEF x, y, z
  <2>4. x <= 2 * m + z
    BY <2>1, <2>2, <2>3
  <2> QED BY <2>4 DEF x, z
<1> QED BY <1>1, <1>5, <1>6, HalfUpIsLargest DEF q

\* The same from above.
LEMMA HalfUpAbove ==
  ASSUME NEW n \in Nat, NEW m \in Nat, NEW d \in Nat \ {0}, NEW v \in Nat \ {0}, m <= n * v
  PROVE  RoundHalfUp(m, v * d) <= RoundHalfUp(n, d)
<1> DEFINE q == RoundHalfUp(m, v * d)
<1>1. v * d \in Nat \ {0} /\ n * v \in Nat
  OBVIOUS
<1>2. q \in Nat /\ q * (2 * (v * d)) <= 2 * m + v * d
  BY <1>1, HalfUp
<1> HIDE DEF q
<1> DEFINE a == q * (2 * d)
           c == 2 * n + d
<1>3. a \in Nat /\ c \in Nat
  BY <1>2
<1>4. q * (2 * (v * d)) = a * v
  <2>1. (q * (2 * d)) * v = q * (v * (2 * d))
    BY <1>2, Product
  <2>2. v * (2 * d) = 2 * (v * d)
    OBVIOUS
  <2> QED BY <2>1, <2>2
<1>5. 2 * (n * v) + v * d = c * v
  OBVIOUS
<1>6. a * v <= c * v
  <2> DEFINE x == a * v
             y == n * v
             z == v * d
  <2>1. x <= 2 * m + z /\ m <= y /\ x \in Int /\ y \in Nat /\ z \in Nat
    BY <1>1, <1>2, <1>3, <1>4
  <2>2. c * v = 2 * y + z
    BY <1>5
  <2> HIDE DEF x, y, z
  <2>3. x <= 2 * y + z
    BY <2>1
  <2> QED BY <2>2, <2>3 DEF x
<1>7. a <= c
  <2> HIDE DEF a, c
  <2>1. CASE c + 1 <= a
    <3>1. (c + 1) * v <= a * v
      BY <1>3, <2>1, Monotone
    <3>2. (c + 1) * v = c * v + v /\ c * v \in Nat /\ a * v \in Nat
      BY <1>3
    <3> QED BY <1>3, <1>6, <3>1, <3>2
  <2> QED BY <1>3, <2>1
<1>8. q <= RoundHalfUp(n, d)
  BY <1>2, <1>7, HalfUpIsLargest
<1> QED BY <1>8 DEF q

\* The greatest and the least of a finite set of numbers.
LEMMA MaxProperties ==
  ASSUME NEW S \in SUBSET Int, IsFiniteSet(S), S # {}
  PROVE  F!Max(S) \in S /\ \A x \in S : x <= F!Max(S)
<1> DEFINE R == {p \in Int \X Int : p[1] >= p[2]}
<1>1. \A x, y \in Int : <<x, y>> \in R <=> x >= y
  OBVIOUS
<1> HIDE DEF R
<1>2. \E x \in S : \A y \in S \ {x} : <<x, y>> \in R
  <2>1. \A x, y \in S : x # y => <<x, y>> \in R \/ <<y, x>> \in R
    BY <1>1
  <2>2. \A x, y, z \in S : <<x, y>> \in R /\ <<y, z>> \in R => <<x, z>> \in R
    BY <1>1
  <2> QED BY <2>1, <2>2, FirstExists
<1>3. \E x \in S : \A y \in S : x >= y
  <2>1. PICK x \in S : \A y \in S \ {x} : <<x, y>> \in R
    BY <1>2
  <2>2. ASSUME NEW y \in S PROVE x >= y
    <3>1. x \in Int /\ y \in Int
      OBVIOUS
    <3>2. CASE y # x
      BY <1>1, <2>1, <3>1, <3>2
    <3> QED BY <3>1, <3>2
  <2> QED BY <2>2
<1> QED BY <1>3 DEF F!Max

LEMMA MinProperties ==
  ASSUME NEW S \in SUBSET Int, IsFiniteSet(S), S # {}
  PROVE  F!Min(S) \in S /\ \A x \in S : F!Min(S) <= x
<1> DEFINE R == {p \in Int \X Int : p[1] <= p[2]}
<1>1. \A x, y \in Int : <<x, y>> \in R <=> x <= y
  OBVIOUS
<1> HIDE DEF R
<1>2. \E x \in S : \A y \in S \ {x} : <<x, y>> \in R
  <2>1. \A x, y \in S : x # y => <<x, y>> \in R \/ <<y, x>> \in R
    BY <1>1
  <2>2. \A x, y, z \in S : <<x, y>> \in R /\ <<y, z>> \in R => <<x, z>> \in R
    BY <1>1
  <2> QED BY <2>1, <2>2, FirstExists
<1>3. \E x \in S : \A y \in S : x <= y
  <2>1. PICK x \in S : \A y \in S \ {x} : <<x, y>> \in R
    BY <1>2
  <2>2. ASSUME NEW y \in S PROVE x <= y
    <3>1. x \in Int /\ y \in Int
      OBVIOUS
    <3>2. CASE y # x
      BY <1>1, <2>1, <3>1, <3>2
    <3> QED BY <3>1, <3>2
  <2> QED BY <2>2
<1> QED BY <1>3 DEF F!Min

----------------------------------------------------------------------------
(* The candle.                                                             *)

\* The VWAP of trades of which nothing is rounded is between two prices,
\* rounded to its unit, if all prices are.
LEMMA VwapBounds ==
  ASSUME NEW trades \in NothingRounded, trades # {}, NEW low \in trades, NEW high \in trades,
         \A e \in trades : Price[low.id] <= Price[e.id] /\ Price[e.id] <= Price[high.id]
  PROVE  /\ RoundHalfUp(Price[low.id], VwapUnit) <= vwap(trades)
         /\ vwap(trades) <= RoundHalfUp(Price[high.id], VwapUnit)
<1> DEFINE vol == Volume(trades)
           val == Notional(trades)
           a == Price[low.id]
           b == Price[high.id]
           mean == Rounded(val * Context, vol)
<1>1. trades \in SUBSET Events /\ a * Context \in Decimals /\ b * Context \in Decimals
  BY DEF NothingRounded
<1>2. /\ vol \in Nat \ {0} /\ val \in Nat /\ a \in Nat /\ b \in Nat
      /\ Context \in Nat \ {0} /\ VwapUnit \in Nat \ {0}
  BY <1>1, VolumeIsPositive, ValueTypes, RunningSumProperties, DecimalTypes, MarketAssumption
     DEF Notional
<1>3. a * vol <= val /\ val <= b * vol
  BY <1>2, NotionalBounds
<1>4. vwap(trades) = RoundHalfUp(mean, VwapUnit * Context)
  BY DEF vwap
<1> HIDE DEF vol, val, a, b
<1>5. (a * Context) * vol <= val * Context /\ val * Context <= (b * Context) * vol
  <2>1. a * vol \in Nat /\ b * vol \in Nat
    BY <1>2
  <2>2. (a * vol) * Context <= val * Context /\ val * Context <= (b * vol) * Context
    BY <1>2, <1>3, <2>1, Monotone
  <2>3. (a * vol) * Context = (a * Context) * vol /\ (b * vol) * Context = (b * Context) * vol
    BY <1>2
  <2> QED BY <2>2, <2>3
<1>6. val * Context \in Nat
  BY <1>2
<1>7. a * Context <= mean /\ mean <= b * Context /\ mean \in Nat
  BY <1>1, <1>2, <1>5, <1>6, RoundedKeepsBounds, RoundedIsNearest, DecimalTypes
<1> HIDE DEF mean
<1>8. VwapUnit * Context = Context * VwapUnit
  BY <1>2
<1>9. RoundHalfUp(a, VwapUnit) <= RoundHalfUp(mean, Context * VwapUnit)
  BY <1>2, <1>7, HalfUpBelow
<1>10. RoundHalfUp(mean, Context * VwapUnit) <= RoundHalfUp(b, VwapUnit)
  BY <1>2, <1>7, HalfUpAbove
<1> QED BY <1>4, <1>8, <1>9, <1>10 DEF a, b

\* What the row of a window says of the trades it is made of.
LEMMA CandleOf ==
  ASSUME NEW trades \in SUBSET Events, trades # {}
  PROVE  LET c == aggregate_window(trades)
         IN /\ c.trades = trades
            /\ c.trade_count > 0
            /\ \E e \in c.trades : Price[e.id] = c.open /\ \A f \in c.trades : ~TradedBefore(f, e)
            /\ \E e \in c.trades : Price[e.id] = c.close /\ \A f \in c.trades : ~TradedBefore(e, f)
            /\ \A e \in c.trades : c.low <= Price[e.id] /\ Price[e.id] <= c.high
            /\ c.volume > 0 /\ c.buy_volume <= c.volume /\ c.sell_volume <= c.volume
            /\ c.trades \in NothingRounded =>
                 /\ c.volume = c.buy_volume + c.sell_volume
                 /\ RoundHalfUp(c.low, VwapUnit) <= c.vwap
                 /\ c.vwap <= RoundHalfUp(c.high, VwapUnit)
<1> DEFINE c == aggregate_window(trades)
           low == F!Min(Prices(trades))
           high == F!Max(Prices(trades))
<1>1. /\ c.trades = trades
      /\ c.open = Price[First(trades).id] /\ c.close = Price[Last(trades).id]
      /\ c.low = low /\ c.high = high
      /\ c.trade_count = Cardinality(trades)
      /\ c.volume = Volume(trades)
      /\ c.buy_volume = Volume(OfSide("buy", trades))
      /\ c.sell_volume = Volume(OfSide("sell", trades))
      /\ c.vwap = vwap(trades)
  BY DEF aggregate_window
<1> HIDE DEF c
<1>2. c.trade_count > 0
  BY <1>1, GoldAssumption, FS_Subset, FS_EmptySet, FS_CardinalityType
<1>3. \E e \in trades : Price[e.id] = c.open /\ \A f \in trades : ~TradedBefore(f, e)
  BY <1>1, FirstAndLast
<1>4. \E e \in trades : Price[e.id] = c.close /\ \A f \in trades : ~TradedBefore(e, f)
  BY <1>1, FirstAndLast
<1>5. PICK cheapest \in trades, dearest \in trades :
        /\ low = Price[cheapest.id] /\ high = Price[dearest.id]
        /\ \A e \in trades : low <= Price[e.id] /\ Price[e.id] <= high
  <2>1. Prices(trades) \subseteq Nat /\ Prices(trades) # {}
    BY MarketAssumption DEF Prices
  <2>2. IsFiniteSet(Prices(trades))
    <3>1. IsFiniteSet(trades)
      BY GoldAssumption, FS_Subset
    <3> DEFINE price == [e \in trades |-> Price[e.id]]
    <3>2. price \in Surjection(trades, Prices(trades))
      BY DEF Prices, Surjection
    <3> QED BY <3>1, <3>2, FS_Surjection
  <2>3. low \in Prices(trades) /\ \A x \in Prices(trades) : low <= x
    BY <2>1, <2>2, MinProperties
  <2>4. high \in Prices(trades) /\ \A x \in Prices(trades) : x <= high
    BY <2>1, <2>2, MaxProperties
  <2> QED BY <2>3, <2>4 DEF Prices
<1>6. c.volume > 0 /\ c.buy_volume <= c.volume /\ c.sell_volume <= c.volume
  BY <1>1, VolumeIsPositive, SidesBelow
<1>7. ASSUME trades \in NothingRounded
      PROVE  /\ c.volume = c.buy_volume + c.sell_volume
             /\ RoundHalfUp(c.low, VwapUnit) <= c.vwap
             /\ c.vwap <= RoundHalfUp(c.high, VwapUnit)
  <2>1. c.volume = c.buy_volume + c.sell_volume
    BY <1>1, <1>7, SidesAddUp
  <2>2. /\ RoundHalfUp(Price[cheapest.id], VwapUnit) <= vwap(trades)
        /\ vwap(trades) <= RoundHalfUp(Price[dearest.id], VwapUnit)
    BY <1>5, <1>7, VwapBounds
  <2> QED BY <1>1, <1>5, <2>1, <2>2
<1> QED BY <1>1, <1>2, <1>3, <1>4, <1>5, <1>6, <1>7 DEF c

\* The numbers of every Gold row are consistent, for any trades, any digits
\* of the context and any number of workers, however they race.
THEOREM CandlesConsistent == RacesSpec => []CandleIsConsistent
<1>1. RacesSpec => Spec
  <2>1. RacesInit => Init
    BY DEF RacesInit
  <2>2. [RacesNext]_racesVars => [Next]_vars
    BY DEF RacesNext, racesVars
  <2> QED BY <2>1, <2>2, PTL DEF RacesSpec, Spec
<1>2. GoldInv => CandleIsConsistent
  <2>1. ASSUME GoldInv, NEW win \in Windows, gold[win] # NoRow
        PROVE  /\ gold[win].trades \in SUBSET Events /\ gold[win].trades # {}
               /\ aggregate_window(gold[win].trades) \in Candles
    BY <2>1 DEF GoldInv, GoldFromSilver, InWindow, Trusted, Candles
  <2> QED BY <2>1, CandleOf DEF CandleIsConsistent
<1> QED BY <1>1, <1>2, GoldInvariant, PTL
=============================================================================
