--------------------------- MODULE MigrationsProofs ---------------------------
(* Proofs about Migrations, for any number of runners, any files that do   *)
(* not create the same objects, and any failures.                          *)
(*                                                                         *)
(* The argument: only Commit changes the catalog or the history. The file  *)
(* it commits is complete, because its runner has seen or made every       *)
(* object of it, and so are the files before it, because the runner has    *)
(* them behind it (RunnersOnTrack).                                        *)
EXTENDS Migrations, TLAPS

\* Files are numbered, and a file's statements too.
LEMMA FilesTyped ==
  /\ Names \subseteq Nat
  /\ \A n \in Names : \A i \in 1..Len(Files[n]) : Files[n][i] \in ObjectsOf(n)
  /\ \A n \in Names : ObjectsOf(n) \subseteq Objects
  /\ \A n \in Names : Len(Files[n]) \in Nat
<1>1. Names \subseteq Nat /\ \A n \in Names : Len(Files[n]) \in Nat
  BY MigrationsAssumption
<1>2. \A n \in Names : \A i \in 1..Len(Files[n]) : Files[n][i] \in ObjectsOf(n)
  BY MigrationsAssumption DEF ObjectsOf
<1>3. \A n \in Names : ObjectsOf(n) \subseteq Objects
  BY DEF Objects
<1> QED
  BY <1>1, <1>2, <1>3

\* A runner is at one file.
LEMMA CurrentIsUnique ==
  ASSUME NEW r \in Runners, NEW m \in Names, NEW n \in Names,
         IsCurrent(r, m), IsCurrent(r, n)
  PROVE  m = n
<1>1. m \in Nat /\ n \in Nat
  BY FilesTyped
<1>2. m <= n /\ n <= m
  BY DEF IsCurrent
<1> QED
  BY <1>1, <1>2

\* What a runner that is at file n has behind it is there.
LEMMA BehindIsThere ==
  ASSUME MigrationsInv, NEW r \in Runners, stage[r] # "idle",
         NEW n \in Names, IsCurrent(r, n), NEW m \in Names, m < n
  PROVE  ObjectsOf(m) \subseteq catalog
<1>1. m \notin pending[r]
  <2>1. m \in Nat /\ n \in Nat
    BY FilesTyped
  <2>2. m \in pending[r] => n <= m
    BY DEF IsCurrent
  <2> QED
    BY <2>1, <2>2
<1> QED
  BY <1>1 DEF MigrationsInv, RunnersOnTrack

\* The database starts empty or with its schemas, and no runner runs.
LEMMA InitMigrations == Init => MigrationsInv
<1> SUFFICES ASSUME Init PROVE MigrationsInv
  OBVIOUS
<1>1. TypeOK
  BY MigrationsAssumption DEF Init, TypeOK
<1>2. AllOrNothing /\ InOrder /\ HistoryIsTrue /\ RunnersOnTrack
  BY DEF Init, AllOrNothing, InOrder, HistoryIsTrue, RunnersOnTrack
<1> QED
  BY <1>1, <1>2 DEF MigrationsInv

\* Steps that commit nothing keep what is said of the catalog.
LEMMA CatalogKept ==
  ASSUME MigrationsInv, UNCHANGED <<catalog, history>>
  PROVE  AllOrNothing' /\ InOrder' /\ HistoryIsTrue'
  BY DEF MigrationsInv, AllOrNothing, InOrder, HistoryIsTrue

\* A runner gives up: its transaction is undone.
LEMMA RollbackKeeps ==
  ASSUME MigrationsInv, NEW r \in Runners, RolledBack(r),
         UNCHANGED <<catalog, history, line>>, failures' \in 0..MaxFailures
  PROVE  MigrationsInv'
<1> USE DEF RolledBack
<1>1. TypeOK'
  BY DEF MigrationsInv, TypeOK
<1>2. RunnersOnTrack'
  BY DEF MigrationsInv, TypeOK, RunnersOnTrack, IsCurrent
<1> QED
  BY <1>1, <1>2, CatalogKept DEF MigrationsInv

\* The last statement of a file is done: the file is complete with what the
\* transaction adds, and the others are untouched.
LEMMA CommitKeeps ==
  ASSUME MigrationsInv, NEW r \in Runners, Commit(r)
  PROVE  MigrationsInv'
<1> USE DEF MigrationsInv
<1>1. PICK n \in Names :
        /\ IsCurrent(r, n)
        /\ line[r] = Len(Files[n]) + 1
        /\ history' = Recorded(n)
        /\ pending' = [pending EXCEPT ![r] = @ \ {n}]
  BY DEF Commit
<1>2. /\ stage[r] = "checking"
      /\ catalog' = catalog \cup made[r]
      /\ made' = [made EXCEPT ![r] = {}]
      /\ stage' = [stage EXCEPT ![r] = "choosing"]
      /\ UNCHANGED <<line, failures>>
  BY DEF Commit
<1>3. made[r] \subseteq ObjectsOf(n)
  BY <1>1, <1>2 DEF RunnersOnTrack
<1>4. ObjectsOf(n) \subseteq catalog'
  <2>1. \A i \in 1..(line[r] - 1) : Files[n][i] \in catalog'
    BY <1>1, <1>2 DEF RunnersOnTrack
  <2>2. line[r] - 1 = Len(Files[n])
    BY <1>1, FilesTyped
  <2> QED
    BY <2>1, <2>2, MigrationsAssumption DEF ObjectsOf
<1>5. \A m \in Names : m < n => ObjectsOf(m) \subseteq catalog
  BY <1>1, <1>2, BehindIsThere
<1>6. \A m \in Names : m # n => ObjectsOf(m) \cap catalog' = ObjectsOf(m) \cap catalog
  BY <1>2, <1>3, MigrationsAssumption
<1>7. TypeOK'
  <2>1. catalog' \in SUBSET Objects
    BY <1>2 DEF TypeOK
  <2>2. history' \in SUBSET Names
    BY <1>1, MigrationsAssumption DEF TypeOK, Recorded
  <2> QED
    BY <1>1, <1>2, <2>1, <2>2 DEF TypeOK
<1>8. AllOrNothing'
  <2> SUFFICES ASSUME NEW m \in Names
               PROVE  \/ ObjectsOf(m) \subseteq catalog'
                      \/ ObjectsOf(m) \cap catalog' \subseteq Schemas
    BY DEF AllOrNothing
  <2>1. CASE m = n
    BY <1>4, <2>1
  <2>2. CASE m # n
    BY <1>2, <1>6, <2>2 DEF AllOrNothing
  <2> QED
    BY <2>1, <2>2
<1>9. InOrder'
  <2> SUFFICES ASSUME NEW k \in Names, (ObjectsOf(k) \cap catalog') \ Schemas # {},
                      NEW m \in 1..(k - 1)
               PROVE  ObjectsOf(m) \subseteq catalog'
    BY DEF InOrder
  <2>1. m \in Names /\ m < k
    BY FilesTyped, MigrationsAssumption
  <2>2. CASE k = n
    BY <1>2, <1>5, <2>1, <2>2
  <2>3. CASE k # n
    BY <1>2, <1>6, <2>3 DEF InOrder
  <2> QED
    BY <2>2, <2>3
<1>10. HistoryIsTrue'
  <2> SUFFICES ASSUME NEW k \in history', NEW m \in 1..k
               PROVE  ObjectsOf(m) \subseteq catalog'
    BY DEF HistoryIsTrue
  <2>1. CASE k \in history
    BY <1>2, <2>1 DEF HistoryIsTrue
  <2>2. CASE k = n
    <3>1. CASE m = n
      BY <1>4, <3>1
    <3>2. CASE m # n
      <4>1. m \in Names /\ m < n
        BY <2>2, <3>2, FilesTyped, MigrationsAssumption
      <4> QED
        BY <1>2, <1>5, <4>1
    <3> QED
      BY <3>1, <3>2
  <2> QED
    BY <1>1, <2>1, <2>2 DEF Recorded
<1>11. RunnersOnTrack'
  <2>1. ASSUME NEW s \in Runners, s # r
        PROVE  /\ stage'[s] = stage[s] /\ pending'[s] = pending[s] /\ made'[s] = made[s]
               /\ \A m \in Names : IsCurrent(s, m)' <=> IsCurrent(s, m)
    BY <1>1, <1>2, <2>1 DEF TypeOK, IsCurrent
  <2>2. stage'[r] = "choosing" /\ made'[r] = {} /\ pending'[r] = pending[r] \ {n}
    BY <1>1, <1>2 DEF TypeOK
  <2>3. \A m \in Names \ pending'[r] : ObjectsOf(m) \subseteq catalog'
    BY <1>2, <1>4, <2>2 DEF RunnersOnTrack
  <2> QED
    BY <1>2, <2>1, <2>2, <2>3 DEF RunnersOnTrack
<1> QED
  BY <1>7, <1>8, <1>9, <1>10, <1>11

\* A statement adds to its own transaction only, and a runner goes on to the
\* next one when the object is there or made.
LEMMA StatementKeeps ==
  ASSUME MigrationsInv, NEW r \in Runners, Check(r) \/ Insert(r)
  PROVE  MigrationsInv'
<1> USE DEF MigrationsInv
<1>1. UNCHANGED <<catalog, history, pending, failures>>
  BY DEF Check, Insert, Made
<1>2. PICK n \in Names :
        /\ IsCurrent(r, n)
        /\ line[r] <= Len(Files[n])
        /\ \/ /\ Files[n][line[r]] \in catalog \cup made[r]
              /\ stage[r] = "checking"
              /\ line' = [line EXCEPT ![r] = @ + 1]
              /\ UNCHANGED <<stage, made>>
           \/ /\ stage[r] = "checking"
              /\ stage' = [stage EXCEPT ![r] = "inserting"]
              /\ UNCHANGED <<line, made>>
           \/ /\ stage[r] = "inserting"
              /\ made' = [made EXCEPT ![r] = @ \cup {Files[n][line[r]]}]
              /\ line' = [line EXCEPT ![r] = @ + 1]
              /\ stage' = [stage EXCEPT ![r] = "checking"]
  <2>1. CASE Check(r)
    BY <2>1 DEF Check
  <2>2. CASE Insert(r)
    <3>1. PICK n \in Names : IsCurrent(r, n) /\ Made(r, Files[n][line[r]])
      BY <2>2 DEF Insert
    <3>2. line[r] <= Len(Files[n])
      BY <2>2, <3>1, FilesTyped DEF Insert, RunnersOnTrack, TypeOK
    <3> QED
      BY <2>2, <3>1, <3>2 DEF Insert, Made
  <2> QED
    BY <2>1, <2>2
<1>3. line[r] \in 1..Len(Files[n]) /\ Files[n][line[r]] \in ObjectsOf(n)
  BY <1>2, FilesTyped DEF TypeOK
<1>4. TypeOK'
  <2>1. Files[n][line[r]] \in Objects
    BY <1>3, FilesTyped
  <2>2. stage' \in [Runners -> {"idle", "choosing", "checking", "inserting"}]
    BY <1>2 DEF TypeOK
  <2>3. line' \in [Runners -> Nat \ {0}]
    BY <1>2 DEF TypeOK
  <2>4. made' \in [Runners -> SUBSET Objects]
    BY <1>2, <2>1 DEF TypeOK
  <2> QED
    BY <1>1, <2>2, <2>3, <2>4 DEF TypeOK
<1>5. RunnersOnTrack'
  <2>1. ASSUME NEW s \in Runners, s # r
        PROVE  stage'[s] = stage[s] /\ line'[s] = line[s] /\ made'[s] = made[s]
    BY <1>2, <2>1 DEF TypeOK
  <2>2. \A s \in Runners, m \in Names : IsCurrent(s, m)' <=> IsCurrent(s, m)
    BY <1>1 DEF IsCurrent
  <2>3. ASSUME NEW m \in Names, IsCurrent(r, m)
        PROVE  m = n
    BY <1>2, <2>3, CurrentIsUnique
  <2>4. /\ stage'[r] \in {"checking", "inserting"}
        /\ made'[r] \subseteq ObjectsOf(n)
        /\ line'[r] <= Len(Files[n]) + 1
        /\ stage'[r] = "inserting" => line'[r] <= Len(Files[n])
    <3>1. made[r] \subseteq ObjectsOf(n)
      BY <1>2 DEF RunnersOnTrack
    <3> QED
      BY <1>2, <1>3, <3>1, FilesTyped DEF TypeOK
  <2>5. ASSUME NEW i \in 1..(line'[r] - 1)
        PROVE  Files[n][i] \in catalog \cup made'[r]
    <3>1. CASE i \in 1..(line[r] - 1)
      BY <1>2, <3>1 DEF TypeOK, RunnersOnTrack
    <3>2. CASE i \notin 1..(line[r] - 1)
      <4>1. line'[r] = line[r] + 1 /\ i = line[r]
        BY <1>2, <3>2 DEF TypeOK
      <4> QED
        BY <1>2, <4>1 DEF TypeOK
    <3> QED
      BY <3>1, <3>2
  <2>6. stage[r] # "idle" /\ stage'[r] # "idle"
    BY <1>2, <2>4
  <2> QED
    BY <1>1, <2>1, <2>2, <2>3, <2>4, <2>5, <2>6 DEF RunnersOnTrack
<1> QED
  BY <1>1, <1>4, <1>5, CatalogKept

\* Between files a runner reads the history, opens a transaction or returns.
LEMMA BetweenFilesKeeps ==
  ASSUME MigrationsInv, NEW r \in Runners, Fetch(r) \/ Begin(r) \/ Return(r)
  PROVE  MigrationsInv'
<1> USE DEF MigrationsInv
<1>1. UNCHANGED <<catalog, history, made, failures>>
  BY DEF Fetch, Begin, Return
<1>2. TypeOK'
  BY DEF Fetch, Begin, Return, TypeOK
<1>3. RunnersOnTrack'
  <2>1. ASSUME NEW s \in Runners, s # r
        PROVE  /\ stage'[s] = stage[s] /\ line'[s] = line[s] /\ pending'[s] = pending[s]
               /\ \A m \in Names : IsCurrent(s, m)' <=> IsCurrent(s, m)
    <3>1. stage'[s] = stage[s] /\ line'[s] = line[s] /\ pending'[s] = pending[s]
      BY <2>1 DEF Fetch, Begin, Return, TypeOK
    <3> QED
      BY <3>1 DEF IsCurrent
  <2>2. made[r] = {}
    BY DEF Fetch, Begin, Return, RunnersOnTrack
  <2>3. \A n \in history : ObjectsOf(n) \subseteq catalog
    <3>1. \A n \in history : n \in 1..n
      BY MigrationsAssumption DEF TypeOK
    <3> QED
      BY <3>1 DEF HistoryIsTrue
  <2>4. \A n \in Names \ pending'[r] : stage'[r] # "idle" => ObjectsOf(n) \subseteq catalog
    BY <2>3 DEF Fetch, Begin, Return, TypeOK, RunnersOnTrack
  <2>5. stage'[r] \in {"checking", "inserting"} => stage'[r] = "checking" /\ line'[r] = 1
    BY DEF Fetch, Begin, Return, TypeOK
  <2>6. \A n \in Names : 1 <= Len(Files[n]) + 1
    BY FilesTyped
  <2> QED
    BY <1>1, <2>1, <2>2, <2>4, <2>5, <2>6 DEF RunnersOnTrack
<1> QED
  BY <1>1, <1>2, <1>3, CatalogKept

\* Every step keeps the invariant.
LEMMA StepMigrations == MigrationsInv /\ [Next]_vars => MigrationsInv'
<1> SUFFICES ASSUME MigrationsInv, [Next]_vars PROVE MigrationsInv'
  OBVIOUS
<1>1. ASSUME NEW r \in Runners, Step(r)
      PROVE  MigrationsInv'
  <2>1. CASE Fetch(r) \/ Begin(r) \/ Return(r)
    BY <2>1, BetweenFilesKeeps
  <2>2. CASE Check(r) \/ Insert(r)
    BY <2>2, StatementKeeps
  <2>3. CASE Collide(r)
    BY <2>3, RollbackKeeps DEF Collide, MigrationsInv, TypeOK
  <2>4. CASE Commit(r)
    BY <2>4, CommitKeeps
  <2> QED
    BY <1>1, <2>1, <2>2, <2>3, <2>4 DEF Step
<1>2. ASSUME NEW r \in Runners, Fail(r) \/ Crash(r)
      PROVE  MigrationsInv'
  <2>1. failures' \in 0..MaxFailures
    BY <1>2, MigrationsAssumption DEF Fail, Crash, MigrationsInv, TypeOK
  <2> QED
    BY <1>2, <2>1, RollbackKeeps DEF Fail, Crash
<1>3. CASE UNCHANGED vars
  <2>1. TypeOK' /\ RunnersOnTrack'
    BY <1>3 DEF MigrationsInv, TypeOK, RunnersOnTrack, IsCurrent, vars, runnerVars
  <2> QED
    BY <1>3, <2>1, CatalogKept DEF MigrationsInv, vars
<1> QED
  BY <1>1, <1>2, <1>3 DEF Next

\* Runners that race for a database keep it consistent and themselves on
\* track, whatever fails.
THEOREM MigrationsInvariant == Spec => []MigrationsInv
  BY InitMigrations, StepMigrations, PTL DEF Spec

\* A migration takes effect as a whole or not at all (runner.py:8-9).
THEOREM Atomic == Spec => []AllOrNothing
  BY MigrationsInvariant, PTL DEF MigrationsInv

\* No migration takes effect before those it builds on (runner.py:3-5).
THEOREM Ordered == Spec => []InOrder
  BY MigrationsInvariant, PTL DEF MigrationsInv

\* The history is no more than what happened, so that skipping is safe.
THEOREM HistoryTrue == Spec => []HistoryIsTrue
  BY MigrationsInvariant, PTL DEF MigrationsInv

\* A run that returns leaves the whole schema behind.
THEOREM ReturnComplete == Spec => ReturnMeansComplete
<1>1. ASSUME MigrationsInv, NEW r \in Runners, stage[r] = "choosing", pending[r] = {}
      PROVE  catalog = Objects
  BY <1>1 DEF MigrationsInv, TypeOK, RunnersOnTrack, Objects
<1>2. MigrationsInv /\ [Next]_vars =>
        [\A r \in Runners :
           stage[r] = "choosing" /\ pending[r] = {} /\ stage'[r] = "idle"
             => catalog = Objects]_vars
  BY <1>1
<1> QED
  BY <1>2, MigrationsInvariant, PTL DEF Spec, ReturnMeansComplete
=============================================================================
