---------------------------- MODULE TrustRouting ----------------------------
(***************************************************************************)
(* Bronze to Silver or Quarantine: TrustRoutingService (processing/        *)
(* validation/service.py) with the ValidationEngine, the Silver repository *)
(* (INSERT ... ON CONFLICT (event_id) DO NOTHING) and the Quarantine       *)
(* repository (plain INSERT, primary key (event_id, quarantined_at)), run  *)
(* by several processing workers over the same tables.                     *)
(*                                                                         *)
(* Each step below is what happens between two awaits: reading a page,     *)
(* validating the next event and reading the clock, and the transaction    *)
(* that stores the verdict. Every pass starts from the first Bronze row.   *)
(***************************************************************************)
EXTENDS Naturals, FiniteSets

CONSTANTS
  Workers,      \* processing workers
  Ids,          \* event_id values, numbered in their text order
  Rules,        \* the configured validation rules
  Bodies,       \* what a Bronze row carries besides its event_id
  NoRow,        \* absence of a row
  NoEvent,      \* a worker that holds no event
  Limit,        \* limit of one process_batch() call
  MaxClock,     \* bound: the last instant stands for all later ones
  MaxFailures   \* bound: failed calls and crashes in all

\* What a rule makes of an event: no failure, some failure, or an exception.
Findings == [Rules -> {"pass", "fail", "raise"}]

ASSUME RoutingAssumption ==
  /\ Ids \subseteq Nat
  /\ IsFiniteSet(Ids)
  /\ \A body \in Bodies : body.received \in Nat /\ body.findings \in Findings
  /\ NoRow \notin Bodies
  /\ NoRow \notin [body: Bodies, validated: 0..MaxClock]
  /\ NoEvent \notin [id: Ids, body: Bodies]
  /\ Limit \in Nat \ {0}
  /\ MaxClock \in Nat
  /\ MaxFailures \in Nat

VARIABLES
  bronze,      \* bronze[id]: the preserved body, or NoRow
  silver,      \* silver[id]: body and validated_at of the trusted row, or NoRow
  quarantine,  \* the set of quarantine records
  clock,       \* the instant datetime.now(UTC) returns
  stage,       \* stage[w]: where worker w is in process_batch()
  page,        \* page[w]: events of the page read that are still to be routed
  current,     \* current[w]: the event being stored
  stamp,       \* stamp[w]: validated_at or quarantined_at of current[w]
  failures     \* failed calls and crashes so far (bounded)

tableVars == <<bronze, silver, quarantine>>
workerVars == <<stage, page, current, stamp>>
vars == <<tableVars, clock, workerVars, failures>>

Event == [id: Ids, body: Bodies]
TrustedRow == [body: Bodies, validated: 0..MaxClock]
QuarantineRecord == [id: Ids, at: 0..MaxClock, failures: SUBSET Rules]

TypeOK ==
  /\ bronze \in [Ids -> Bodies \cup {NoRow}]
  /\ silver \in [Ids -> TrustedRow \cup {NoRow}]
  /\ quarantine \in SUBSET QuarantineRecord
  /\ clock \in 0..MaxClock
  /\ stage \in [Workers -> {"idle", "routing", "storing"}]
  /\ page \in [Workers -> SUBSET Event]
  /\ current \in [Workers -> Event \cup {NoEvent}]
  /\ stamp \in [Workers -> 0..MaxClock]
  /\ failures \in 0..MaxFailures

----------------------------------------------------------------------------
(* Validation and replay order: pure functions of the rows.                *)

\* Mutant of RuleFailures: a rule that raises is passed over.
FailuresReported(body) == {r \in Rules : body.findings[r] = "fail"}

\* ValidationEngine.validate: every rule is run, and a rule that raises
\* counts as a failure of that rule. The event is valid when none remain.
RuleFailures(body) == {r \in Rules : body.findings[r] # "pass"}
Valid(body) == RuleFailures(body) = {}

Stored == {id \in Ids : bronze[id] # NoRow}

\* ORDER BY received_at, event_id.
Precedes(e, f) ==
  \/ e.body.received < f.body.received
  \/ e.body.received = f.body.received /\ e.id < f.id

BronzeEvents == {[id |-> id, body |-> bronze[id]] : id \in Stored}

\* Mutant of FirstPage: one row short.
FirstPageShort ==
  {e \in BronzeEvents : Cardinality({f \in BronzeEvents : Precedes(f, e)}) + 1 < Limit}

\* replay(offset=0, limit): the first rows in that order.
FirstPage ==
  {e \in BronzeEvents : Cardinality({f \in BronzeEvents : Precedes(f, e)}) < Limit}

\* The event the loop over a page comes to next.
IsNext(e, events) == e \in events /\ \A f \in events \ {e} : Precedes(e, f)

----------------------------------------------------------------------------
Init ==
  /\ bronze = [id \in Ids |-> NoRow]
  /\ silver = [id \in Ids |-> NoRow]
  /\ quarantine = {}
  /\ clock = 0
  /\ stage = [w \in Workers |-> "idle"]
  /\ page = [w \in Workers |-> {}]
  /\ current = [w \in Workers |-> NoEvent]
  /\ stamp = [w \in Workers |-> 0]
  /\ failures = 0

\* Bronze ingestion appends a row. It never replaces one.
Land(id, body) ==
  /\ bronze[id] = NoRow
  /\ bronze' = [bronze EXCEPT ![id] = body]
  /\ UNCHANGED <<silver, quarantine, clock, workerVars, failures>>

Tick ==
  /\ clock < MaxClock
  /\ clock' = clock + 1
  /\ UNCHANGED <<tableVars, workerVars, failures>>

\* process_batch() reads its page; an empty one ends the call at once.
ReadPage(w) ==
  /\ stage[w] = "idle"
  /\ FirstPage # {}
  /\ page' = [page EXCEPT ![w] = FirstPage]
  /\ stage' = [stage EXCEPT ![w] = "routing"]
  /\ UNCHANGED <<tableVars, clock, current, stamp, failures>>

\* process_event(): the caller hands over one preserved event.
ProcessEvent(w, e) ==
  /\ stage[w] = "idle"
  /\ e \in BronzeEvents
  /\ page' = [page EXCEPT ![w] = {e}]
  /\ stage' = [stage EXCEPT ![w] = "routing"]
  /\ UNCHANGED <<tableVars, clock, current, stamp, failures>>

\* The loop validates its next event and stamps it, before the write.
Validate(w) ==
  /\ stage[w] = "routing"
  /\ \E e \in page[w] :
       /\ IsNext(e, page[w])
       /\ current' = [current EXCEPT ![w] = e]
       /\ page' = [page EXCEPT ![w] = @ \ {e}]
  /\ stamp' = [stamp EXCEPT ![w] = clock]
  /\ stage' = [stage EXCEPT ![w] = "storing"]
  /\ UNCHANGED <<tableVars, clock, failures>>

\* Mutant of TrustedRowOf: the event is stored without its trust metadata.
BareRowOf(w) == current[w].body

TrustedRowOf(w) == [body |-> current[w].body, validated |-> stamp[w]]

\* Mutant of SilverAppended: ON CONFLICT (event_id) DO UPDATE.
SilverReplaced(w) == [silver EXCEPT ![current[w].id] = TrustedRowOf(w)]

\* Silver append: the first validation of an event_id wins.
SilverAppended(w) ==
  IF silver[current[w].id] = NoRow
  THEN [silver EXCEPT ![current[w].id] = TrustedRowOf(w)] ELSE silver

\* Quarantine append_record: one more record, unless the key is taken. All
\* instants from MaxClock on are one here and do not collide.
RecordOf(w) ==
  [id |-> current[w].id, at |-> stamp[w], failures |-> RuleFailures(current[w].body)]
KeyTaken(w) ==
  /\ stamp[w] < MaxClock
  /\ \E r \in quarantine : r.id = current[w].id /\ r.at = stamp[w]

\* Mutants of Routed: a rejected event falls through to Silver, is dropped, or
\* is recorded only the first time.
RoutedThrough(w) ==
  /\ silver' = SilverAppended(w)
  /\ quarantine' = IF Valid(current[w].body) THEN quarantine
                   ELSE quarantine \cup {RecordOf(w)}
RoutedIfValid(w) ==
  /\ silver' = IF Valid(current[w].body) THEN SilverAppended(w) ELSE silver
  /\ UNCHANGED quarantine
RoutedOnce(w) ==
  IF Valid(current[w].body)
  THEN silver' = SilverAppended(w) /\ UNCHANGED quarantine
  ELSE /\ quarantine' = IF \E r \in quarantine : r.id = current[w].id
                        THEN quarantine ELSE quarantine \cup {RecordOf(w)}
       /\ UNCHANGED silver

\* _route_to_silver / _route_to_quarantine: the effect of the transaction.
Routed(w) ==
  IF Valid(current[w].body)
  THEN /\ silver' = SilverAppended(w)
       /\ UNCHANGED quarantine
  ELSE /\ quarantine' = quarantine \cup {RecordOf(w)}
       /\ UNCHANGED silver

Store(w) ==
  /\ stage[w] = "storing"
  /\ Valid(current[w].body) \/ ~KeyTaken(w)
  /\ Routed(w)
  /\ current' = [current EXCEPT ![w] = NoEvent]
  /\ stage' = [stage EXCEPT ![w] = "routing"]
  /\ UNCHANGED <<bronze, clock, page, stamp, failures>>

\* Leaving process_batch(), whether it returns or raises.
Leave(w) ==
  /\ stage' = [stage EXCEPT ![w] = "idle"]
  /\ page' = [page EXCEPT ![w] = {}]
  /\ current' = [current EXCEPT ![w] = NoEvent]

\* The page is done.
Return(w) ==
  /\ stage[w] = "routing"
  /\ page[w] = {}
  /\ Leave(w)
  /\ UNCHANGED <<tableVars, clock, stamp, failures>>

\* Another worker rejected the same event in the same instant: the INSERT
\* violates the primary key, StorageError stops the batch.
StoreCollides(w) ==
  /\ stage[w] = "storing"
  /\ ~Valid(current[w].body)
  /\ KeyTaken(w)
  /\ Leave(w)
  /\ UNCHANGED <<tableVars, clock, stamp, failures>>

\* StorageError from the write, which may have committed all the same.
StoreFails(w) ==
  /\ stage[w] = "storing"
  /\ failures < MaxFailures
  /\ failures' = failures + 1
  /\ \/ UNCHANGED <<silver, quarantine>>
     \/ (Valid(current[w].body) \/ ~KeyTaken(w)) /\ Routed(w)
  /\ Leave(w)
  /\ UNCHANGED <<bronze, clock, stamp>>

\* The process dies between two steps.
Crash(w) ==
  /\ stage[w] # "idle"
  /\ failures < MaxFailures
  /\ failures' = failures + 1
  /\ Leave(w)
  /\ UNCHANGED <<tableVars, clock, stamp>>

\* What worker w does by itself.
Step(w) ==
  ReadPage(w) \/ Validate(w) \/ Store(w) \/ StoreCollides(w) \/ Return(w)

Next ==
  \/ \E id \in Ids, body \in Bodies : Land(id, body)
  \/ Tick
  \/ \E w \in Workers :
       \/ Step(w) \/ StoreFails(w) \/ Crash(w)
       \/ \E e \in BronzeEvents : ProcessEvent(w, e)

Spec == Init /\ [][Next]_vars

\* Passes are run again and again, also between single events handed over by
\* other callers, and time goes on. Nothing makes rows land, calls fail or
\* process_event() be called.
FairSpec ==
  /\ Spec
  /\ WF_vars(Tick)
  /\ \A w \in Workers : WF_vars(Step(w)) /\ SF_vars(ReadPage(w))

----------------------------------------------------------------------------
(* Properties.                                                             *)

IsRouted(id) ==
  silver[id] # NoRow \/ \E r \in quarantine : r.id = id

\* The trust boundary (service.py:157-162): whichever workers validated an
\* event, however often and wherever they failed, it is never both trusted
\* and rejected.
TrustIsExclusive ==
  \A id \in Ids : silver[id] # NoRow => ~ \E r \in quarantine : r.id = id

\* Silver holds only events that every rule passed, exactly as Bronze
\* preserves them, and Quarantine only events some rule failed or could not
\* judge, with all those rules (engine.py:40-69, base.py:73-86).
VerdictsMatchBronze ==
  /\ \A id \in Ids : silver[id] # NoRow =>
       /\ silver[id].body = bronze[id]
       /\ \A r \in Rules : bronze[id].findings[r] = "pass"
  /\ \A q \in quarantine :
       /\ bronze[q.id] # NoRow
       /\ q.failures = {r \in Rules : bronze[q.id].findings[r] # "pass"}
       /\ q.failures # {}

\* What a worker holds is what Bronze holds: rows never change under it.
HoldsBronzeRows ==
  \A w \in Workers :
    /\ \A e \in page[w] : bronze[e.id] = e.body
    /\ stage[w] = "storing" =>
         current[w] # NoEvent /\ bronze[current[w].id] = current[w].body

\* The inductive invariant: with it every verdict, however late it is
\* stored, is the verdict on the row Bronze holds now.
RoutingInv ==
  /\ TypeOK
  /\ HoldsBronzeRows
  /\ VerdictsMatchBronze

\* A batch drops nothing (service.py:127-135): an event leaves a worker that
\* goes on with its batch only when it is in Silver or in Quarantine.
NothingDropped ==
  [][\A w \in Workers, id \in Ids :
       /\ stage[w] = "storing" /\ stage'[w] = "routing"
       /\ current[w].id = id
       => IsRouted(id)']_vars

\* First validation wins (silver.py:47-53, 86-120): a trusted row keeps its
\* content and its validated_at, on which Gold's page order rests.
SilverIsStable ==
  [][\A id \in Ids : silver[id] # NoRow => silver'[id] = silver[id]]_vars

\* Every attempt that rejects an event stays visible as a record of its own
\* (migrations/sql/003: key (event_id, quarantined_at)), and no record goes.
EachRejectionVisible ==
  [][/\ quarantine \subseteq quarantine'
     /\ \A w \in Workers :
          stage[w] = "storing" /\ stage'[w] = "routing" /\ stamp[w] < MaxClock
            /\ ~Valid(current[w].body)
          => \E r \in quarantine' \ quarantine :
               r.id = current[w].id /\ r.at = stamp[w]]_vars

\* Every preserved event is eventually routed (pipeline.py:30-32: a run also
\* takes up what an earlier run left unprocessed in Bronze).
EventuallyRouted ==
  \A id \in Ids : (bronze[id] # NoRow) ~> IsRouted(id)
=============================================================================
