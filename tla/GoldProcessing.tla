--------------------------- MODULE GoldProcessing ---------------------------
(***************************************************************************)
(* Silver to Gold: GoldProcessingService (processing/gold/service.py) with *)
(* the Silver reads and the Gold upsert (INSERT ... ON CONFLICT            *)
(* (window_id) DO UPDATE, no comparison with the row that is there).       *)
(*                                                                         *)
(* An aggregate is a function of the set of events it is computed from, so *)
(* a Gold row is represented by that set. Each step is what happens        *)
(* between two awaits: reading the page, reading a window's events, taking *)
(* the clock and aggregating, and the upsert.                              *)
(***************************************************************************)
EXTENDS Naturals, FiniteSets

CONSTANTS
  Workers,        \* processing workers
  Events,         \* trusted events: id, symbol (both in text order), traded
  NoRow,          \* absence of a row
  WindowSeconds,  \* GoldSettings.window_seconds
  Lateness,       \* GoldSettings.allowed_lateness_seconds
  Limit,          \* limit of one process_batch() call
  ScanLimit,      \* default limit of read_window() (1,000,000)
  Unquantizable,  \* sets of trades whose VWAP has too many digits to quantize
  MaxClock,       \* bound: the last instant stands for all later ones
  MaxFailures     \* bound: failed calls and crashes in all

ASSUME GoldAssumption ==
  /\ Events \subseteq [id: Nat, symbol: Nat, traded: Nat]
  /\ IsFiniteSet(Events)
  /\ WindowSeconds \in Nat \ {0}
  /\ Lateness \in Nat
  /\ Limit \in Nat \ {0}
  /\ ScanLimit \in Nat \ {0}
  /\ Unquantizable \subseteq SUBSET Events
  /\ MaxClock \in Nat
  /\ MaxFailures \in Nat
  /\ NoRow \notin 0..MaxClock
  /\ NoRow \notin [trades: SUBSET Events, computed: 0..MaxClock, final: BOOLEAN]

\* window_start_for: windows are aligned to the epoch. (symbol, start) is
\* the identity of a window.
WindowOf(e) ==
  [symbol |-> e.symbol, start |-> e.traded - (e.traded % WindowSeconds)]
Windows == {WindowOf(e) : e \in Events}

WindowEnd(win) == win.start + WindowSeconds

\* is_final_for: the lateness allowed after the window's end has elapsed.
IsFinal(win, now) == now >= WindowEnd(win) + Lateness

MarketWindow == [trades: SUBSET Events, computed: 0..MaxClock, final: BOOLEAN]

VARIABLES
  silver,      \* silver[e]: validated_at of the trusted row, or NoRow
  gold,        \* gold[win]: the aggregate stored, or NoRow
  clock,       \* the instant datetime.now(UTC) returns
  stage,       \* stage[w]: where worker w is in process_batch()
  candidates,  \* candidates[w]: windows still to be recomputed
  window,      \* window[w]: the windows (one at most) being recomputed
  events,      \* events[w]: what read_window() returned for it
  row,         \* row[w]: the aggregate to upsert, or NoRow
  failures     \* failed calls and crashes so far (bounded)

workerVars == <<stage, candidates, window, events, row>>
vars == <<silver, gold, clock, workerVars, failures>>

TypeOK ==
  /\ silver \in [Events -> 0..MaxClock \cup {NoRow}]
  /\ gold \in [Windows -> MarketWindow \cup {NoRow}]
  /\ clock \in 0..MaxClock
  /\ stage \in [Workers -> {"idle", "looping", "aggregating", "upserting"}]
  /\ candidates \in [Workers -> SUBSET Windows]
  /\ window \in [Workers -> SUBSET Windows]
  /\ events \in [Workers -> SUBSET Events]
  /\ row \in [Workers -> MarketWindow \cup {NoRow}]
  /\ failures \in 0..MaxFailures

----------------------------------------------------------------------------
(* Reads of Silver and the order of a pass.                                *)

Trusted == {e \in Events : silver[e] # NoRow}

\* ORDER BY validated_at, event_id.
ValidatedBefore(e, f) ==
  \/ silver[e] < silver[f]
  \/ silver[e] = silver[f] /\ e.id < f.id

\* read(offset=0, limit): the first rows in that order.
FirstPage ==
  {e \in Trusted : Cardinality({f \in Trusted : ValidatedBefore(f, e)}) < Limit}

InWindow(win) == {e \in Trusted : WindowOf(e) = win}

\* ORDER BY trade_timestamp, event_id.
TradedBefore(e, f) ==
  \/ e.traded < f.traded
  \/ e.traded = f.traded /\ e.id < f.id

\* Mutant of ScanOf: the window's end is inclusive.
ScanInclusive(win) ==
  {e \in Trusted : e.symbol = win.symbol /\ win.start <= e.traded /\ e.traded <= WindowEnd(win)}

\* read_window(): the window's events, no more than the query's limit.
ScanOf(win) ==
  {e \in InWindow(win) :
     Cardinality({f \in InWindow(win) : TradedBefore(f, e)}) < ScanLimit}

\* sorted(candidates): by window start, then symbol.
SortedBefore(win, other) ==
  \/ win.start < other.start
  \/ win.start = other.start /\ win.symbol < other.symbol

\* Mutant of IsNext: the newest window comes first.
IsNewest(win, wins) ==
  /\ win \in wins
  /\ \A other \in wins \ {win} : SortedBefore(other, win)

IsNext(win, wins) ==
  /\ win \in wins
  /\ \A other \in wins \ {win} : SortedBefore(win, other)

----------------------------------------------------------------------------
Init ==
  /\ silver = [e \in Events |-> NoRow]
  /\ gold = [win \in Windows |-> NoRow]
  /\ clock = 0
  /\ stage = [w \in Workers |-> "idle"]
  /\ candidates = [w \in Workers |-> {}]
  /\ window = [w \in Workers |-> {}]
  /\ events = [w \in Workers |-> {}]
  /\ row = [w \in Workers |-> NoRow]
  /\ failures = 0

\* Trust routing appends a row stamped a while ago, and replaces none.
Trust(e, validated) ==
  /\ silver[e] = NoRow
  /\ validated <= clock
  /\ silver' = [silver EXCEPT ![e] = validated]
  /\ UNCHANGED <<gold, clock, workerVars, failures>>

Tick ==
  /\ clock < MaxClock
  /\ clock' = clock + 1
  /\ UNCHANGED <<silver, gold, workerVars, failures>>

\* Mutant of Discover: windows that are final are passed over.
DiscoverOpen(w) ==
  /\ stage[w] = "idle"
  /\ FirstPage # {}
  /\ candidates' = [candidates EXCEPT ![w] =
       {win \in {WindowOf(e) : e \in FirstPage} : gold[win] = NoRow \/ ~gold[win].final}]
  /\ stage' = [stage EXCEPT ![w] = "looping"]
  /\ UNCHANGED <<silver, gold, clock, window, events, row, failures>>

\* process_batch() discovers the windows of its page; an empty page ends it.
Discover(w) ==
  /\ stage[w] = "idle"
  /\ FirstPage # {}
  /\ candidates' = [candidates EXCEPT ![w] = {WindowOf(e) : e \in FirstPage}]
  /\ stage' = [stage EXCEPT ![w] = "looping"]
  /\ UNCHANGED <<silver, gold, clock, window, events, row, failures>>

\* recompute_window() is called for one window, trades or no trades in it.
Recompute(w, win) ==
  /\ stage[w] = "idle"
  /\ candidates' = [candidates EXCEPT ![w] = {win}]
  /\ stage' = [stage EXCEPT ![w] = "looping"]
  /\ UNCHANGED <<silver, gold, clock, window, events, row, failures>>

\* The loop takes its next window and reads the window's events.
ReadWindow(w) ==
  /\ stage[w] = "looping"
  /\ \E win \in candidates[w] :
       /\ IsNext(win, candidates[w])
       /\ candidates' = [candidates EXCEPT ![w] = @ \ {win}]
       /\ window' = [window EXCEPT ![w] = {win}]
       /\ events' = [events EXCEPT ![w] = ScanOf(win)]
  /\ stage' = [stage EXCEPT ![w] = "aggregating"]
  /\ UNCHANGED <<silver, gold, clock, row, failures>>

\* A window without trusted events is not persisted.
SkipEmpty(w) ==
  /\ stage[w] = "aggregating"
  /\ events[w] = {}
  /\ window' = [window EXCEPT ![w] = {}]
  /\ stage' = [stage EXCEPT ![w] = "looping"]
  /\ UNCHANGED <<silver, gold, clock, candidates, events, row, failures>>

\* Mutant of AggregateOf: a window that is recomputed counts as provisional
\* again.
AggregateReopened(w, win) ==
  [trades |-> events[w], computed |-> clock,
   final |-> gold[win] = NoRow /\ IsFinal(win, clock)]

\* The clock is taken after the read; the row is computed from both.
AggregateOf(w, win) ==
  [trades |-> events[w], computed |-> clock, final |-> IsFinal(win, clock)]

Aggregate(w) ==
  /\ stage[w] = "aggregating"
  /\ events[w] # {}
  /\ events[w] \notin Unquantizable
  /\ \E win \in window[w] : row' = [row EXCEPT ![w] = AggregateOf(w, win)]
  /\ stage' = [stage EXCEPT ![w] = "upserting"]
  /\ UNCHANGED <<silver, gold, clock, candidates, window, events, failures>>

\* ON CONFLICT (window_id) DO UPDATE: whatever row is there is replaced.
Upserted(w) ==
  \E win \in window[w] : gold' = [gold EXCEPT ![win] = row[w]]

Upsert(w) ==
  /\ stage[w] = "upserting"
  /\ Upserted(w)
  /\ window' = [window EXCEPT ![w] = {}]
  /\ events' = [events EXCEPT ![w] = {}]
  /\ row' = [row EXCEPT ![w] = NoRow]
  /\ stage' = [stage EXCEPT ![w] = "looping"]
  /\ UNCHANGED <<silver, clock, candidates, failures>>

\* Leaving process_batch(), whether it returns or raises.
Leave(w) ==
  /\ stage' = [stage EXCEPT ![w] = "idle"]
  /\ candidates' = [candidates EXCEPT ![w] = {}]
  /\ window' = [window EXCEPT ![w] = {}]
  /\ events' = [events EXCEPT ![w] = {}]
  /\ row' = [row EXCEPT ![w] = NoRow]

\* quantize() raises InvalidOperation when the VWAP needs more digits than
\* the Decimal context has (28); nobody catches it, so the pass ends here.
AggregateFails(w) ==
  /\ stage[w] = "aggregating"
  /\ events[w] # {}
  /\ events[w] \in Unquantizable
  /\ Leave(w)
  /\ UNCHANGED <<silver, gold, clock, failures>>

\* Every candidate is recomputed.
Return(w) ==
  /\ stage[w] = "looping"
  /\ candidates[w] = {}
  /\ Leave(w)
  /\ UNCHANGED <<silver, gold, clock, failures>>

\* StorageError from the upsert, which may have committed all the same.
UpsertFails(w) ==
  /\ stage[w] = "upserting"
  /\ failures < MaxFailures
  /\ failures' = failures + 1
  /\ UNCHANGED gold \/ Upserted(w)
  /\ Leave(w)
  /\ UNCHANGED <<silver, clock>>

\* A read fails, or the process dies, between two steps.
Crash(w) ==
  /\ stage[w] # "idle"
  /\ failures < MaxFailures
  /\ failures' = failures + 1
  /\ Leave(w)
  /\ UNCHANGED <<silver, gold, clock>>

\* What worker w does by itself.
Step(w) ==
  \/ Discover(w) \/ ReadWindow(w) \/ SkipEmpty(w)
  \/ Aggregate(w) \/ AggregateFails(w) \/ Upsert(w) \/ Return(w)

Next ==
  \/ \E e \in Events, validated \in 0..MaxClock : Trust(e, validated)
  \/ Tick
  \/ \E w \in Workers :
       \/ Step(w) \/ UpsertFails(w) \/ Crash(w)
       \/ \E win \in Windows : Recompute(w, win)

Spec == Init /\ [][Next]_vars

\* Passes are run again and again, also between windows recomputed by other
\* callers, and time goes on. Nothing makes events be trusted, calls fail
\* or recompute_window() be called.
FairSpec ==
  /\ Spec
  /\ WF_vars(Tick)
  /\ \A w \in Workers : WF_vars(Step(w)) /\ SF_vars(Discover(w))

----------------------------------------------------------------------------
(* Properties.                                                             *)

\* Gold is derived from Silver only (service.py:13-16): every aggregate is
\* made of trusted events of its own window, at least one of them, and is
\* final exactly when its allowed lateness had elapsed at computed_at.
GoldFromSilver ==
  \A win \in Windows : gold[win] # NoRow =>
    /\ gold[win].trades # {}
    /\ gold[win].trades \subseteq InWindow(win)
    /\ gold[win].final = IsFinal(win, gold[win].computed)
    /\ gold[win].computed <= clock

\* A worker's unfinished recomputation is about trusted events of its window.
WorkFromSilver ==
  \A w \in Workers : \A win \in window[w] :
    /\ window[w] = {win}
    /\ events[w] \subseteq InWindow(win)
    /\ row[w] # NoRow =>
         /\ row[w].trades = events[w]
         /\ row[w].trades # {}
         /\ row[w].final = IsFinal(win, row[w].computed)
         /\ row[w].computed <= clock

\* The inductive invariant, for any number of workers.
GoldInv ==
  /\ TypeOK
  /\ GoldFromSilver
  /\ WorkFromSilver
  /\ \A w \in Workers :
       /\ stage[w] \in {"aggregating", "upserting"} <=> window[w] # {}
       /\ stage[w] = "upserting" <=> row[w] # NoRow

\* What a single worker has read is no older than the row it will replace:
\* the rest of the inductive invariant when there is one worker.
ReadIsFresh ==
  \A w \in Workers : \A win \in window[w] : gold[win] # NoRow =>
    /\ gold[win].trades \subseteq events[w]
    /\ row[w] # NoRow => gold[win].computed <= row[w].computed

\* A recomputed window reflects the latest trusted data (gold.py:50-51), so
\* a replacement never loses trades, goes back in time or reopens a window.
RowOnlyImproves ==
  [][\A win \in Windows : gold[win] # NoRow =>
       /\ gold'[win] # NoRow
       /\ gold[win].trades \subseteq gold'[win].trades
       /\ gold[win].computed <= gold'[win].computed
       /\ gold[win].final => gold'[win].final]_vars

\* A pass recomputes its windows in order and stops at the first one whose
\* aggregate raises: that window is held back, and so is every later one.
HeldBack(win) ==
  \E other \in Windows :
    /\ InWindow(other) \in Unquantizable
    /\ other = win \/ SortedBefore(other, win)

\* Whatever failed, raced or arrived late, Gold ends with every window of
\* Silver that is not held back aggregated from its complete event set, and
\* final (service.py:24-33), as passes are repeated (pipeline.py:20-24).
GoldConverges ==
  <>[](\A win \in Windows : (InWindow(win) # {} /\ ~HeldBack(win)) =>
         /\ gold[win] # NoRow
         /\ gold[win].trades = InWindow(win)
         /\ gold[win].final)
=============================================================================
