------------------------------ MODULE Migrations ------------------------------
(***************************************************************************)
(* MigrationRunner.apply_migrations() (warehouse/migrations/runner.py)     *)
(* over the files of warehouse/migrations/sql, as run at the start of      *)
(* every processing worker and by python -m warehouse.migrations, possibly *)
(* by several processes at once on one database.                           *)
(*                                                                         *)
(* A file is one transaction of CREATE ... IF NOT EXISTS statements; its   *)
(* own BEGIN and COMMIT coincide with those of the runner. PostgreSQL is   *)
(* external: IF NOT EXISTS looks at what is committed, and the insertion   *)
(* into the catalog that follows waits for another transaction that has    *)
(* made the same object and fails once that one commits.                   *)
(***************************************************************************)
EXTENDS Naturals, Sequences, FiniteSets

CONSTANTS
  Runners,      \* processes that call apply_migrations()
  Files,        \* Files[n]: the objects the n-th file creates, in file order
  Recording,    \* the files that end with INSERT INTO migration_history
  Schemas,      \* the objects docker/postgres/init/init.sql creates
  MaxFailures   \* bound: statements that fail, and crashes, in all

Names == DOMAIN Files
ObjectsOf(n) == {Files[n][i] : i \in DOMAIN Files[n]}
Objects == UNION {ObjectsOf(n) : n \in Names}

\* No two files create the same object.
ASSUME MigrationsAssumption ==
  /\ Names = 1..Len(Files)
  /\ \A n \in Names : Len(Files[n]) \in Nat /\ DOMAIN Files[n] = 1..Len(Files[n])
  /\ \A m, n \in Names : m # n => ObjectsOf(m) \cap ObjectsOf(n) = {}
  /\ Recording \subseteq Names
  /\ Schemas \subseteq Objects
  /\ MaxFailures \in Nat

VARIABLES
  catalog,   \* the objects committed
  history,   \* the rows of warehouse.migration_history
  stage,     \* stage[r]: where runner r is in apply_migrations()
  pending,   \* pending[r]: names still to be applied
  line,      \* line[r]: the statement of the running file
  made,      \* made[r]: objects created in the open transaction
  failures   \* failed statements and crashes so far (bounded)

runnerVars == <<stage, pending, line, made>>
vars == <<catalog, history, runnerVars, failures>>

TypeOK ==
  /\ catalog \in SUBSET Objects
  /\ history \in SUBSET Names
  /\ stage \in [Runners -> {"idle", "choosing", "checking", "inserting"}]
  /\ pending \in [Runners -> SUBSET Names]
  /\ line \in [Runners -> Nat \ {0}]
  /\ made \in [Runners -> SUBSET Objects]
  /\ failures \in 0..MaxFailures

Init ==
  /\ catalog \in {{}, Schemas}
  /\ history = {}
  /\ stage = [r \in Runners |-> "idle"]
  /\ pending = [r \in Runners |-> {}]
  /\ line = [r \in Runners |-> 1]
  /\ made = [r \in Runners |-> {}]
  /\ failures = 0

\* Mutant of IsCurrent: the names are not sorted, and come in reverse order.
IsReverse(r, n) == n \in pending[r] /\ \A m \in pending[r] : m <= n

\* names are sorted: the file applied is the first one pending.
IsCurrent(r, n) == n \in pending[r] /\ \A m \in pending[r] : n <= m

----------------------------------------------------------------------------
\* _fetch_applied(): without the history table nothing counts as applied.
Fetch(r) ==
  /\ stage[r] = "idle"
  /\ pending' = [pending EXCEPT ![r] = Names \ history]
  /\ stage' = [stage EXCEPT ![r] = "choosing"]
  /\ UNCHANGED <<catalog, history, line, made, failures>>

\* _apply_one() opens the transaction of the next file.
Begin(r) ==
  /\ stage[r] = "choosing"
  /\ pending[r] # {}
  /\ line' = [line EXCEPT ![r] = 1]
  /\ stage' = [stage EXCEPT ![r] = "checking"]
  /\ UNCHANGED <<catalog, history, pending, made, failures>>

\* Every pending file is applied: apply_migrations() returns.
Return(r) ==
  /\ stage[r] = "choosing"
  /\ pending[r] = {}
  /\ stage' = [stage EXCEPT ![r] = "idle"]
  /\ UNCHANGED <<catalog, history, pending, line, made, failures>>

\* Mutant of Check: CREATE without IF NOT EXISTS.
CheckNothing(r) ==
  /\ stage[r] = "checking"
  /\ \E n \in Names : IsCurrent(r, n) /\ line[r] <= Len(Files[n])
  /\ stage' = [stage EXCEPT ![r] = "inserting"]
  /\ UNCHANGED <<catalog, history, pending, line, made, failures>>

\* IF NOT EXISTS: the object is there, or it has to be created.
Check(r) ==
  /\ stage[r] = "checking"
  /\ \E n \in Names :
       /\ IsCurrent(r, n)
       /\ line[r] <= Len(Files[n])
       /\ IF Files[n][line[r]] \in catalog \cup made[r]
          THEN /\ line' = [line EXCEPT ![r] = @ + 1]
               /\ UNCHANGED stage
          ELSE /\ stage' = [stage EXCEPT ![r] = "inserting"]
               /\ UNCHANGED line
  /\ UNCHANGED <<catalog, history, pending, made, failures>>

\* Mutant of Made: every statement is a transaction of its own.
MadeVisible(r, obj) ==
  /\ catalog' = catalog \cup {obj}
  /\ UNCHANGED made

\* The object exists for this transaction alone, until it commits.
Made(r, obj) ==
  /\ made' = [made EXCEPT ![r] = @ \cup {obj}]
  /\ UNCHANGED catalog

\* The catalog takes the new object, no other transaction having it.
Insert(r) ==
  /\ stage[r] = "inserting"
  /\ \E n \in Names :
       /\ IsCurrent(r, n)
       /\ Files[n][line[r]] \notin catalog
       /\ \A s \in Runners : Files[n][line[r]] \notin made[s]
       /\ Made(r, Files[n][line[r]])
  /\ line' = [line EXCEPT ![r] = @ + 1]
  /\ stage' = [stage EXCEPT ![r] = "checking"]
  /\ UNCHANGED <<history, pending, failures>>

\* Mutant of RolledBack: the error is not raised, the next file is tried.
RolledBackAndOn(r) ==
  /\ made' = [made EXCEPT ![r] = {}]
  /\ \E n \in Names : IsCurrent(r, n) /\ pending' = [pending EXCEPT ![r] = @ \ {n}]
  /\ stage' = [stage EXCEPT ![r] = "choosing"]

\* The transaction is rolled back, and MigrationError leaves the runner.
RolledBack(r) ==
  /\ made' = [made EXCEPT ![r] = {}]
  /\ pending' = [pending EXCEPT ![r] = {}]
  /\ stage' = [stage EXCEPT ![r] = "idle"]

\* Another runner committed the object since it was looked for.
Collide(r) ==
  /\ stage[r] = "inserting"
  /\ \E n \in Names : IsCurrent(r, n) /\ Files[n][line[r]] \in catalog
  /\ RolledBack(r)
  /\ UNCHANGED <<catalog, history, line, failures>>

\* A statement fails for any other reason.
Fail(r) ==
  /\ stage[r] \in {"checking", "inserting"}
  /\ failures < MaxFailures
  /\ failures' = failures + 1
  /\ RolledBack(r)
  /\ UNCHANGED <<catalog, history, line>>

\* Mutants of Recorded: all files are recorded with the first one, or the one
\* after the file applied is.
RecordedAll(n) == history \cup (n..Len(Files))
RecordedNext(n) == history \cup {n + 1}

\* INSERT INTO migration_history ... ON CONFLICT DO NOTHING, in the files
\* that have it.
Recorded(n) == history \cup ({n} \cap Recording)

\* The end of the file.
Commit(r) ==
  /\ stage[r] = "checking"
  /\ \E n \in Names :
       /\ IsCurrent(r, n)
       /\ line[r] = Len(Files[n]) + 1
       /\ history' = Recorded(n)
       /\ pending' = [pending EXCEPT ![r] = @ \ {n}]
  /\ catalog' = catalog \cup made[r]
  /\ made' = [made EXCEPT ![r] = {}]
  /\ stage' = [stage EXCEPT ![r] = "choosing"]
  /\ UNCHANGED <<line, failures>>

\* The process dies, and PostgreSQL rolls its transaction back.
Crash(r) ==
  /\ stage[r] # "idle"
  /\ failures < MaxFailures
  /\ failures' = failures + 1
  /\ RolledBack(r)
  /\ UNCHANGED <<catalog, history, line>>

Step(r) ==
  \/ Fetch(r) \/ Begin(r) \/ Check(r) \/ Insert(r) \/ Collide(r)
  \/ Commit(r) \/ Return(r)

Next == \E r \in Runners : Step(r) \/ Fail(r) \/ Crash(r)

Spec == Init /\ [][Next]_vars

\* Processes are started again and again, and PostgreSQL answers. Failures
\* and crashes are not fair.
FairSpec == Spec /\ \A r \in Runners : WF_vars(Step(r))

----------------------------------------------------------------------------
(* Properties.                                                             *)

\* Either every statement of a migration applies or none do (runner.py:8-9),
\* whoever runs it at the same time and wherever it fails.
AllOrNothing ==
  \A n \in Names :
    ObjectsOf(n) \subseteq catalog \/ ObjectsOf(n) \cap catalog \subseteq Schemas

\* Migrations take effect in filename order (runner.py:3-5), also when two
\* runners are at different files: no object of a file without the earlier
\* files complete.
InOrder ==
  \A n \in Names : (ObjectsOf(n) \cap catalog) \ Schemas # {} =>
    \A m \in 1..(n - 1) : ObjectsOf(m) \subseteq catalog

\* A row of the history stands for a migration that is there, and with it all
\* that come before: what _fetch_applied() skips needs no second look.
HistoryIsTrue ==
  \A n \in history : \A m \in 1..n : ObjectsOf(m) \subseteq catalog

\* What a runner has left behind is complete, and in an open transaction all
\* that comes before the current statement is there or made by itself.
RunnersOnTrack ==
  \A r \in Runners :
    /\ stage[r] # "idle" =>
         \A n \in Names \ pending[r] : ObjectsOf(n) \subseteq catalog
    /\ stage[r] \in {"idle", "choosing"} => made[r] = {}
    /\ stage[r] \in {"checking", "inserting"} =>
         \A n \in Names : IsCurrent(r, n) =>
           /\ made[r] \subseteq ObjectsOf(n)
           /\ line[r] <= Len(Files[n]) + 1
           /\ stage[r] = "inserting" => line[r] <= Len(Files[n])
           /\ \A i \in 1..(line[r] - 1) : Files[n][i] \in catalog \cup made[r]

\* The inductive invariant: a file that is committed is complete because its
\* runner looked at every object, and the files before it are because the
\* runner applied them or the history vouches for them.
MigrationsInv ==
  /\ TypeOK
  /\ AllOrNothing
  /\ InOrder
  /\ HistoryIsTrue
  /\ RunnersOnTrack

\* A run that returns without an error leaves the whole schema behind, on
\* which the repositories of run_processing() rest (processing/main.py:63-66).
ReturnMeansComplete ==
  [][\A r \in Runners :
       stage[r] = "choosing" /\ pending[r] = {} /\ stage'[r] = "idle"
         => catalog = Objects]_vars

\* A fresh database gets its schema, whatever failed on the way and although
\* runners that race for an object fail: the waits never form a cycle.
EventuallyComplete == <>[](catalog = Objects)
=============================================================================
