----------------------- MODULE CoinbaseSessionProofs -----------------------
(***************************************************************************)
(* Proofs about CoinbaseSession, for any retry budget, any number of       *)
(* sockets and any tasks that call disconnect().                           *)
(***************************************************************************)
EXTENDS CoinbaseSession, TLAPS

LEMMA InitInv == Init => SessionInv
<1> SUFFICES ASSUME Init PROVE SessionInv
  OBVIOUS
<1>1. TypeOK
  BY DEF Init, TypeOK
<1>2. StopsStay /\ IteratesItsSocket /\ NothingLeaks
  BY DEF Init, StopsStay, IteratesItsSocket, NothingLeaks, Undisturbed
<1>3. HoldsLatest /\ WithinBudget
  BY SessionAssumption DEF Init, HoldsLatest, WithinBudget
<1> QED BY <1>1, <1>2, <1>3 DEF SessionInv

\* Leaving a context neither opens a socket nor touches another one.
LEMMA ExitedProperties ==
  ASSUME TypeOK, NEW k \in Sockets \cup {0}
  PROVE  /\ Exited(k) \in [Sockets -> {"fresh", "open", "dropped", "closed"}]
         /\ \A j \in Sockets : Exited(k)[j] = "open" => socket[j] = "open" /\ j # k
         /\ \A j \in Sockets : j # k => Exited(k)[j] = socket[j]
BY DEF TypeOK, Exited, Sockets

\* Every step of the program preserves the types.
LEMMA TypeStep ==
  ASSUME SessionInv, [Next]_vars
  PROVE  TypeOK'
<1>0. TypeOK
  BY DEF SessionInv
<1>s. created \in Nat /\ Sockets \subseteq Nat /\ 0 \in Nat
  BY <1>0, SessionAssumption DEF TypeOK, Sockets
<1>1. CASE Connect
  <2>1. NextContext \in Sockets
    BY <1>1, SessionAssumption DEF Connect, NextContext, SessionInv, HoldsLatest,
       Sockets
  <2> QED BY <1>0, <1>1, <2>1 DEF Connect, TypeOK
<1>2. CASE Enter
  <2>1. silent' \in Nat /\ ws' \in Sockets \cup {0}
    BY <1>0, <1>2 DEF Enter, TypeOK
  <2>2. socket' \in [Sockets -> {"fresh", "open", "dropped", "closed"}]
    BY <1>0, <1>2 DEF Enter, TypeOK
  <2>3. pc' \in {"sending", "resending"}
    BY <1>2 DEF Enter
  <2> QED BY <1>0, <1>2, <2>1, <2>2, <2>3 DEF Enter, TypeOK
<1>3. CASE OpenFails
  BY <1>0, <1>3 DEF OpenFails, Finish, FinishIn, Detach, TypeOK, connectorVars
<1>4. CASE Sent
  BY <1>0, <1>4 DEF Sent, FinishIn, Detach, NextIterated, FailuresKept,
     TypeOK
<1>5. ASSUME NEW kind \in Kinds, Receive(kind) PROVE TypeOK'
  BY <1>0, <1>5 DEF Receive, Finish, FinishIn, Detach, connectorVars, TypeOK
<1>6. CASE Published
  BY <1>0, <1>6 DEF Published, connectorVars, TypeOK
<1>7. CASE PublishFails
  BY <1>0, <1>7 DEF PublishFails, Finish, FinishIn, Detach, TypeOK
<1>8. CASE Interrupted
  <2>1. failures' \in Nat
    BY <1>0, <1>8 DEF Interrupted, TypeOK
  <2>2. \/ UNCHANGED <<connectorVars, held, outcome>> /\ pc' = "backoff"
        \/ \E how \in {"stopped", "exhausted"} : Finish(how)
    BY <1>8 DEF Interrupted
  <2>3. CASE UNCHANGED <<connectorVars, held, outcome>> /\ pc' = "backoff"
    BY <1>0, <1>8, <2>1, <2>3 DEF Interrupted, connectorVars, TypeOK
  <2>4. ASSUME NEW how \in {"stopped", "exhausted"}, Finish(how) PROVE TypeOK'
    BY <1>0, <1>8, <2>1, <2>4 DEF Interrupted, Finish, FinishIn, Detach, TypeOK
  <2> QED BY <2>2, <2>3, <2>4
<1>9. CASE Wake
  BY <1>0, <1>9 DEF Wake, Finish, FinishIn, Detach, TypeOK
<1>10. CASE Reopen
  <2>1. NextContext \in Sockets
    BY <1>0, <1>s, <1>10, SessionAssumption
    DEF Reopen, NextContext, SessionInv, HoldsLatest, Sockets
  <2>2. Exited(held) \in [Sockets -> {"fresh", "open", "dropped", "closed"}]
    BY <1>0, ExitedProperties DEF TypeOK
  <2> QED BY <1>0, <1>10, <2>1, <2>2 DEF Reopen, TypeOK
<1>11. CASE Finalised
  <2>1. Exited(held) \in [Sockets -> {"fresh", "open", "dropped", "closed"}]
    BY <1>0, ExitedProperties DEF TypeOK
  <2> QED BY <1>0, <1>11, <2>1 DEF Finalised, TypeOK
<1>12. ASSUME NEW s \in Stoppers, StopRequested(s) PROVE TypeOK'
  BY <1>0, <1>12 DEF StopRequested, Detach, TypeOK
<1>13. ASSUME NEW s \in Stoppers, StopDone(s) PROVE TypeOK'
  <2>1. Exited(taken[s]) \in [Sockets -> {"fresh", "open", "dropped", "closed"}]
    BY <1>0, ExitedProperties DEF TypeOK
  <2> QED BY <1>0, <1>13, <2>1 DEF StopDone, TypeOK
<1>14. ASSUME NEW k \in Sockets, Drop(k) PROVE TypeOK'
  BY <1>0, <1>14 DEF Drop, connectorVars, TypeOK
<1>15. CASE UNCHANGED vars
  BY <1>0, <1>15 DEF vars, connectorVars, TypeOK
<1> QED
  BY <1>1, <1>2, <1>3, <1>4, <1>5, <1>6, <1>7, <1>8, <1>9, <1>10, <1>11, <1>12, <1>13, <1>14,
     <1>15 DEF Next, Step
\* A stop stays requested: only connect(), once, clears it.
LEMMA StopsStayStep ==
  ASSUME SessionInv, [Next]_vars
  PROVE  StopsStay'
<1>0. TypeOK /\ StopsStay
  BY DEF SessionInv
<1>1. CASE Connect
  BY <1>0, <1>1
  DEF Connect, NextContext, TypeOK, StopsStay, Undisturbed
<1>2. CASE Enter
  BY <1>0, <1>2
  DEF Enter, TypeOK, StopsStay, Undisturbed
<1>3. CASE OpenFails
  BY <1>0, <1>3
  DEF OpenFails, Finish, FinishIn, Detach, connectorVars, TypeOK, StopsStay, Undisturbed
<1>4. CASE Sent
  BY <1>0, <1>4
  DEF Sent, FinishIn, Detach, NextIterated, FailuresKept, TypeOK,
      StopsStay, Undisturbed
<1>5. ASSUME NEW kind \in Kinds, Receive(kind) PROVE StopsStay'
  BY <1>0, <1>5
  DEF Receive, Finish, FinishIn, Detach, connectorVars, TypeOK, StopsStay, Undisturbed
<1>6. CASE Published
  BY <1>0, <1>6
  DEF Published, connectorVars, TypeOK, StopsStay, Undisturbed
<1>7. CASE PublishFails
  BY <1>0, <1>7
  DEF PublishFails, Finish, FinishIn, Detach, TypeOK, StopsStay, Undisturbed
<1>8. CASE Interrupted
  BY <1>0, <1>8
  DEF Interrupted, Exhausted, Finish, FinishIn, Detach, connectorVars, TypeOK,
      StopsStay, Undisturbed
<1>9. CASE Wake
  BY <1>0, <1>9
  DEF Wake, Finish, FinishIn, Detach, TypeOK, StopsStay, Undisturbed
<1>10. CASE Reopen
  BY <1>0, <1>10
  DEF Reopen, NextContext, TypeOK, StopsStay, Undisturbed
<1>11. CASE Finalised
  BY <1>0, <1>11
  DEF Finalised, TypeOK, StopsStay, Undisturbed
<1>12. ASSUME NEW s \in Stoppers, StopRequested(s) PROVE StopsStay'
  BY <1>0, <1>12
  DEF StopRequested, Detach, TypeOK, StopsStay, Undisturbed
<1>13. ASSUME NEW s \in Stoppers, StopDone(s) PROVE StopsStay'
  BY <1>0, <1>13
  DEF StopDone, TypeOK, StopsStay, Undisturbed
<1>14. ASSUME NEW k \in Sockets, Drop(k) PROVE StopsStay'
  BY <1>0, <1>14
  DEF Drop, connectorVars, TypeOK, StopsStay, Undisturbed
<1>15. CASE UNCHANGED vars
  BY <1>0, <1>15
  DEF vars, connectorVars, TypeOK, StopsStay, Undisturbed
<1> QED
  BY <1>1, <1>2, <1>3, <1>4, <1>5, <1>6, <1>7, <1>8, <1>9, <1>10, <1>11, <1>12, <1>13, <1>14,
     <1>15 DEF Next, Step

\* The socket iterated changes with the attributes, or there is a stop.
LEMMA IteratesStep ==
  ASSUME SessionInv, [Next]_vars
  PROVE  IteratesItsSocket'
<1>0. StopsStay /\ IteratesItsSocket /\ HoldsLatest
  BY DEF SessionInv
<1>1. CASE Connect
  BY <1>0, <1>1
  DEF Connect, NextContext, StopsStay, IteratesItsSocket, HoldsLatest
<1>2. CASE Enter
  BY <1>0, <1>2
  DEF Enter, StopsStay, IteratesItsSocket, HoldsLatest
<1>3. CASE OpenFails
  BY <1>0, <1>3
  DEF OpenFails, Finish, FinishIn, Detach, connectorVars, StopsStay,
      IteratesItsSocket, HoldsLatest
<1>4. CASE Sent
  BY <1>0, <1>4
  DEF Sent, FinishIn, Detach, NextIterated, FailuresKept, StopsStay,
      IteratesItsSocket, HoldsLatest
<1>5. ASSUME NEW kind \in Kinds, Receive(kind) PROVE IteratesItsSocket'
  BY <1>0, <1>5
  DEF Receive, Finish, FinishIn, Detach, connectorVars, StopsStay, IteratesItsSocket,
      HoldsLatest
<1>6. CASE Published
  BY <1>0, <1>6
  DEF Published, connectorVars, StopsStay, IteratesItsSocket, HoldsLatest
<1>7. CASE PublishFails
  BY <1>0, <1>7
  DEF PublishFails, Finish, FinishIn, Detach, StopsStay, IteratesItsSocket, HoldsLatest
<1>8. CASE Interrupted
  BY <1>0, <1>8
  DEF Interrupted, Exhausted, Finish, FinishIn, Detach, connectorVars, StopsStay,
      IteratesItsSocket, HoldsLatest
<1>9. CASE Wake
  BY <1>0, <1>9
  DEF Wake, Finish, FinishIn, Detach, StopsStay, IteratesItsSocket, HoldsLatest
<1>10. CASE Reopen
  BY <1>0, <1>10
  DEF Reopen, NextContext, StopsStay, IteratesItsSocket, HoldsLatest
<1>11. CASE Finalised
  BY <1>0, <1>11
  DEF Finalised, StopsStay, IteratesItsSocket, HoldsLatest
<1>12. ASSUME NEW s \in Stoppers, StopRequested(s) PROVE IteratesItsSocket'
  BY <1>0, <1>12
  DEF StopRequested, Detach, StopsStay, IteratesItsSocket, HoldsLatest
<1>13. ASSUME NEW s \in Stoppers, StopDone(s) PROVE IteratesItsSocket'
  BY <1>0, <1>13
  DEF StopDone, StopsStay, IteratesItsSocket, HoldsLatest
<1>14. ASSUME NEW k \in Sockets, Drop(k) PROVE IteratesItsSocket'
  BY <1>0, <1>14
  DEF Drop, connectorVars, StopsStay, IteratesItsSocket, HoldsLatest
<1>15. CASE UNCHANGED vars
  BY <1>0, <1>15
  DEF vars, connectorVars, StopsStay, IteratesItsSocket, HoldsLatest
<1> QED
  BY <1>1, <1>2, <1>3, <1>4, <1>5, <1>6, <1>7, <1>8, <1>9, <1>10, <1>11, <1>12, <1>13, <1>14,
     <1>15 DEF Next, Step

\* Contexts are created one after the other, and the last one is held.
LEMMA HoldsLatestStep ==
  ASSUME SessionInv, [Next]_vars
  PROVE  HoldsLatest'
<1>0. TypeOK /\ StopsStay /\ IteratesItsSocket /\ HoldsLatest
  BY DEF SessionInv
<1>1. CASE Connect
  BY <1>0, <1>1
  DEF Connect, NextContext, TypeOK, StopsStay, IteratesItsSocket, HoldsLatest,
      Undisturbed
<1>2. CASE Enter
  BY <1>0, <1>2
  DEF Enter, TypeOK, StopsStay, IteratesItsSocket, HoldsLatest, Undisturbed
<1>3. CASE OpenFails
  BY <1>0, <1>3
  DEF OpenFails, Finish, FinishIn, Detach, connectorVars, TypeOK, StopsStay,
      IteratesItsSocket, HoldsLatest, Undisturbed
<1>4. CASE Sent
  BY <1>0, <1>4
  DEF Sent, FinishIn, Detach, NextIterated, FailuresKept, TypeOK,
      StopsStay, IteratesItsSocket, HoldsLatest, Undisturbed
<1>5. ASSUME NEW kind \in Kinds, Receive(kind) PROVE HoldsLatest'
  BY <1>0, <1>5
  DEF Receive, Finish, FinishIn, Detach, connectorVars, TypeOK, StopsStay,
      IteratesItsSocket, HoldsLatest, Undisturbed
<1>6. CASE Published
  BY <1>0, <1>6
  DEF Published, connectorVars, TypeOK, StopsStay, IteratesItsSocket, HoldsLatest,
      Undisturbed
<1>7. CASE PublishFails
  BY <1>0, <1>7
  DEF PublishFails, Finish, FinishIn, Detach, TypeOK, StopsStay, IteratesItsSocket,
      HoldsLatest, Undisturbed
<1>8. CASE Interrupted
  BY <1>0, <1>8
  DEF Interrupted, Exhausted, Finish, FinishIn, Detach, connectorVars, TypeOK,
      StopsStay, IteratesItsSocket, HoldsLatest, Undisturbed
<1>9. CASE Wake
  BY <1>0, <1>9
  DEF Wake, Finish, FinishIn, Detach, TypeOK, StopsStay, IteratesItsSocket,
      HoldsLatest, Undisturbed
<1>10. CASE Reopen
  <2>1. created \in Nat
    BY <1>0, SessionAssumption DEF TypeOK, Sockets
  <2> QED BY <1>0, <1>10, <2>1
          DEF Reopen, NextContext, StopsStay, IteratesItsSocket, HoldsLatest
<1>11. CASE Finalised
  BY <1>0, <1>11
  DEF Finalised, TypeOK, StopsStay, IteratesItsSocket, HoldsLatest, Undisturbed
<1>12. ASSUME NEW s \in Stoppers, StopRequested(s) PROVE HoldsLatest'
  BY <1>0, <1>12
  DEF StopRequested, Detach, TypeOK, StopsStay, IteratesItsSocket, HoldsLatest,
      Undisturbed
<1>13. ASSUME NEW s \in Stoppers, StopDone(s) PROVE HoldsLatest'
  BY <1>0, <1>13
  DEF StopDone, TypeOK, StopsStay, IteratesItsSocket, HoldsLatest, Undisturbed
<1>14. ASSUME NEW k \in Sockets, Drop(k) PROVE HoldsLatest'
  BY <1>0, <1>14
  DEF Drop, connectorVars, TypeOK, StopsStay, IteratesItsSocket, HoldsLatest,
      Undisturbed
<1>15. CASE UNCHANGED vars
  BY <1>0, <1>15
  DEF vars, connectorVars, TypeOK, StopsStay, IteratesItsSocket, HoldsLatest,
      Undisturbed
<1> QED
  BY <1>1, <1>2, <1>3, <1>4, <1>5, <1>6, <1>7, <1>8, <1>9, <1>10, <1>11, <1>12, <1>13, <1>14,
     <1>15 DEF Next, Step

\* Every socket but the first is opened after a failure was counted.
LEMMA BudgetStep ==
  ASSUME SessionInv, [Next]_vars
  PROVE  WithinBudget'
<1>0. WithinBudget /\ silent \in Nat /\ failures \in Nat /\ MaxReconnects \in Nat
  BY SessionAssumption DEF SessionInv, TypeOK
<1>1. CASE Connect
  BY <1>0, <1>1
  DEF Connect, NextContext, WithinBudget
<1>2. CASE Enter
  BY <1>0, <1>2
  DEF Enter, WithinBudget
<1>3. CASE OpenFails
  BY <1>0, <1>3
  DEF OpenFails, Finish, FinishIn, Detach, connectorVars, WithinBudget
<1>4. CASE Sent
  BY <1>0, <1>4
  DEF Sent, FinishIn, Detach, NextIterated, FailuresKept, WithinBudget
<1>5. ASSUME NEW kind \in Kinds, Receive(kind) PROVE WithinBudget'
  BY <1>0, <1>5
  DEF Receive, Finish, FinishIn, Detach, connectorVars, WithinBudget
<1>6. CASE Published
  BY <1>0, <1>6
  DEF Published, connectorVars, WithinBudget
<1>7. CASE PublishFails
  BY <1>0, <1>7
  DEF PublishFails, Finish, FinishIn, Detach, WithinBudget
<1>8. CASE Interrupted
  BY <1>0, <1>8
  DEF Interrupted, Exhausted, Finish, FinishIn, Detach, connectorVars, WithinBudget
<1>9. CASE Wake
  BY <1>0, <1>9
  DEF Wake, Finish, FinishIn, Detach, WithinBudget
<1>10. CASE Reopen
  BY <1>0, <1>10
  DEF Reopen, NextContext, WithinBudget
<1>11. CASE Finalised
  BY <1>0, <1>11
  DEF Finalised, WithinBudget
<1>12. ASSUME NEW s \in Stoppers, StopRequested(s) PROVE WithinBudget'
  BY <1>0, <1>12
  DEF StopRequested, Detach, WithinBudget
<1>13. ASSUME NEW s \in Stoppers, StopDone(s) PROVE WithinBudget'
  BY <1>0, <1>13
  DEF StopDone, WithinBudget
<1>14. ASSUME NEW k \in Sockets, Drop(k) PROVE WithinBudget'
  BY <1>0, <1>14
  DEF Drop, connectorVars, WithinBudget
<1>15. CASE UNCHANGED vars
  BY <1>0, <1>15
  DEF vars, connectorVars, WithinBudget
<1> QED
  BY <1>1, <1>2, <1>3, <1>4, <1>5, <1>6, <1>7, <1>8, <1>9, <1>10, <1>11, <1>12, <1>13, <1>14,
     <1>15 DEF Next, Step

\* What is opened is held or an attribute until it is left.
LEMMA LeaksStep ==
  ASSUME SessionInv, [Next]_vars
  PROVE  NothingLeaks'
<1>0. TypeOK /\ StopsStay /\ IteratesItsSocket /\ HoldsLatest /\ NothingLeaks
  BY DEF SessionInv
<1>s. 0 \notin Sockets
  BY SessionAssumption DEF Sockets
<1>1. CASE Connect
  BY <1>0, <1>s, <1>1
  DEF Connect, NextContext, TypeOK, StopsStay, IteratesItsSocket, HoldsLatest,
      NothingLeaks, Undisturbed
<1>2. CASE Enter
  BY <1>0, <1>2
  DEF Enter, TypeOK, StopsStay, IteratesItsSocket, HoldsLatest, NothingLeaks,
      Undisturbed
<1>3. CASE OpenFails
  BY <1>0, <1>3
  DEF OpenFails, Finish, FinishIn, Detach, connectorVars, TypeOK, StopsStay,
      IteratesItsSocket, HoldsLatest, NothingLeaks, Undisturbed
<1>4. CASE Sent
  BY <1>0, <1>s, <1>4
  DEF Sent, FinishIn, Detach, NextIterated, FailuresKept, TypeOK, StopsStay,
      IteratesItsSocket, HoldsLatest, NothingLeaks, Undisturbed
<1>5. ASSUME NEW kind \in Kinds, Receive(kind) PROVE NothingLeaks'
  BY <1>0, <1>5
  DEF Receive, Finish, FinishIn, Detach, connectorVars, TypeOK, StopsStay,
      IteratesItsSocket, HoldsLatest, NothingLeaks, Undisturbed
<1>6. CASE Published
  BY <1>0, <1>6
  DEF Published, connectorVars, TypeOK, StopsStay, IteratesItsSocket, HoldsLatest,
      NothingLeaks, Undisturbed
<1>7. CASE PublishFails
  BY <1>0, <1>7
  DEF PublishFails, Finish, FinishIn, Detach, TypeOK, StopsStay, IteratesItsSocket,
      HoldsLatest, NothingLeaks, Undisturbed
<1>8. CASE Interrupted
  BY <1>0, <1>8
  DEF Interrupted, Exhausted, Finish, FinishIn, Detach, connectorVars, TypeOK,
      StopsStay, IteratesItsSocket, HoldsLatest, NothingLeaks, Undisturbed
<1>9. CASE Wake
  BY <1>0, <1>9
  DEF Wake, Finish, FinishIn, Detach, TypeOK, StopsStay, IteratesItsSocket,
      HoldsLatest, NothingLeaks, Undisturbed
<1>10. CASE Reopen
  <2>1. \A j \in Sockets : Exited(held)[j] = "open" => socket[j] = "open" /\ j # held
    BY <1>0, ExitedProperties DEF TypeOK
  <2> QED BY <1>0, <1>s, <1>10, <2>1
          DEF Reopen, NextContext, NothingLeaks, Undisturbed
<1>11. CASE Finalised
  <2>1. \A j \in Sockets : Exited(held)[j] = "open" => socket[j] = "open" /\ j # held
    BY <1>0, ExitedProperties DEF TypeOK
  <2> QED BY <1>0, <1>s, <1>11, <2>1
          DEF Finalised, NothingLeaks, Undisturbed
<1>12. ASSUME NEW s \in Stoppers, StopRequested(s) PROVE NothingLeaks'
  BY <1>0, <1>12
  DEF StopRequested, Detach, TypeOK, StopsStay, IteratesItsSocket, HoldsLatest,
      NothingLeaks, Undisturbed
<1>13. ASSUME NEW s \in Stoppers, StopDone(s) PROVE NothingLeaks'
  BY <1>0, <1>13
  DEF StopDone, TypeOK, StopsStay, IteratesItsSocket, HoldsLatest, NothingLeaks,
      Undisturbed
<1>14. ASSUME NEW k \in Sockets, Drop(k) PROVE NothingLeaks'
  BY <1>0, <1>14
  DEF Drop, connectorVars, TypeOK, StopsStay, IteratesItsSocket, HoldsLatest,
      NothingLeaks, Undisturbed
<1>15. CASE UNCHANGED vars
  BY <1>0, <1>15
  DEF vars, connectorVars, TypeOK, StopsStay, IteratesItsSocket, HoldsLatest,
      NothingLeaks, Undisturbed
<1> QED
  BY <1>1, <1>2, <1>3, <1>4, <1>5, <1>6, <1>7, <1>8, <1>9, <1>10, <1>11, <1>12, <1>13, <1>14,
     <1>15 DEF Next, Step

----------------------------------------------------------------------------
(* The theorems.                                                           *)

LEMMA InvStep == SessionInv /\ [Next]_vars => SessionInv'
<1> SUFFICES ASSUME SessionInv, [Next]_vars PROVE SessionInv'
  OBVIOUS
<1> QED
  BY TypeStep, StopsStayStep, IteratesStep, HoldsLatestStep, BudgetStep, LeaksStep
  DEF SessionInv

\* The inductive invariant holds in every session, whatever the network, the
\* broker and the tasks that call disconnect() do at its awaits.
THEOREM SessionInvariant == Spec => []SessionInv
<1>1. Init => SessionInv
  BY InitInv
<1>2. SessionInv /\ [Next]_vars => SessionInv'
  BY InvStep
<1> QED BY <1>1, <1>2, PTL DEF Spec

\* The loop of stream() never goes over a socket that is not the connector's
\* own, unless a stop took it away (coinbase.py:179-184).
THEOREM IteratesOwnSocket == Spec => []IteratesItsSocket
<1>1. SessionInv => IteratesItsSocket
  BY DEF SessionInv
<1> QED BY <1>1, SessionInvariant, PTL

\* A peer that accepts and drops connections exhausts the retry budget after
\* max_reconnect_attempts + 1 of them, for every value of the setting.
THEOREM BudgetKept == Spec => []ReconnectsBounded
<1>1. SessionInv => ReconnectsBounded
  BY DEF SessionInv, WithinBudget, ReconnectsBounded
<1> QED BY <1>1, SessionInvariant, PTL

\* A session nobody disturbs ends with its connector disconnected and its
\* sockets closed, however it ends (pipeline.py:26-27).
THEOREM EndReleasesAll == Spec => []EndReleases
<1>1. SessionInv => EndReleases
  <2> SUFFICES ASSUME SessionInv, pc = "ended", Undisturbed
               PROVE  state = "disconnected" /\ \A k \in Sockets : socket[k] # "open"
    BY DEF EndReleases, Undisturbed
  <2>1. context = 0 /\ held = 0 /\ state = "disconnected"
    BY DEF SessionInv, NothingLeaks
  <2>2. ASSUME NEW k \in Sockets PROVE socket[k] # "open"
    BY <2>1, SessionAssumption DEF SessionInv, NothingLeaks, Sockets
  <2> QED BY <2>1, <2>2
<1> QED BY <1>1, SessionInvariant, PTL

\* At no time are two websockets open: what is open belongs to the latest
\* connect() context. So what a stop in the middle of _open() leaves behind
\* (EndReleases) is one socket at most, the last one.
OneSocketOpen == \A k \in Sockets : socket[k] = "open" => k = created

\* reconnect() leaves the context before it creates the next one, whoever
\* stops the session in between.
ClosesTheLatest ==
  /\ pc \in {"reclosing", "entering", "sending", "reentering", "resending"} => held = created
  /\ pc = "backoff" /\ ~stop => context = created

\* Also with tasks that call disconnect() at any await.
THEOREM NeverTwoSockets == Spec => []OneSocketOpen
<1>1. Init => OneSocketOpen /\ ClosesTheLatest
  BY DEF Init, OneSocketOpen, ClosesTheLatest
<1>2. ASSUME SessionInv, OneSocketOpen, ClosesTheLatest, [Next]_vars
      PROVE  OneSocketOpen' /\ ClosesTheLatest'
  <2>0. /\ TypeOK /\ HoldsLatest /\ IteratesItsSocket
        /\ created \in Nat /\ Sockets \subseteq Nat \ {0}
    BY <1>2, SessionAssumption DEF SessionInv, TypeOK, Sockets
  <2> USE DEF OneSocketOpen, ClosesTheLatest
  <2>1. CASE Connect
    BY <1>2, <2>0, <2>1 DEF Connect, HoldsLatest, TypeOK, NextContext
  <2>2. CASE Enter
    BY <1>2, <2>0, <2>2 DEF Enter, TypeOK
  <2>3. CASE OpenFails
    BY <1>2, <2>0, <2>3 DEF OpenFails, Finish, FinishIn, Detach, TypeOK, connectorVars
  <2>4. CASE Sent
    BY <1>2, <2>0, <2>4 DEF Sent, FinishIn, Detach
  <2>5. ASSUME NEW kind \in Kinds, Receive(kind)
        PROVE  OneSocketOpen' /\ ClosesTheLatest'
    BY <1>2, <2>5 DEF Receive, Finish, FinishIn, Detach, connectorVars
  <2>6. CASE Published \/ PublishFails
    BY <1>2, <2>6 DEF Published, PublishFails, Finish, FinishIn, Detach, connectorVars
  <2>7. CASE Interrupted
    BY <1>2, <2>0, <2>7
    DEF Interrupted, Finish, FinishIn, Detach, connectorVars, HoldsLatest, IteratesItsSocket
  <2>8. CASE Wake
    BY <1>2, <2>8 DEF Wake, Finish, FinishIn, Detach
  <2>9. CASE Reopen
    <3>1. \A k \in Sockets : Exited(held)[k] # "open"
      BY <1>2, <2>0, <2>9, ExitedProperties DEF Reopen, TypeOK
    <3> QED BY <2>9, <3>1 DEF Reopen
  <2>10. CASE Finalised
    BY <1>2, <2>0, <2>10, ExitedProperties DEF Finalised, TypeOK
  <2>11. ASSUME NEW s \in Stoppers, StopRequested(s)
         PROVE  OneSocketOpen' /\ ClosesTheLatest'
    BY <1>2, <2>11 DEF StopRequested, Detach
  <2>12. ASSUME NEW s \in Stoppers, StopDone(s)
         PROVE  OneSocketOpen' /\ ClosesTheLatest'
    <3>1. \A k \in Sockets : Exited(taken[s])[k] = "open" => socket[k] = "open"
      BY <2>0, ExitedProperties DEF TypeOK
    <3> QED BY <1>2, <2>12, <3>1 DEF StopDone
  <2>13. ASSUME NEW k \in Sockets, Drop(k)
         PROVE  OneSocketOpen' /\ ClosesTheLatest'
    BY <1>2, <2>0, <2>13 DEF Drop, connectorVars, TypeOK
  <2>14. CASE UNCHANGED vars
    BY <1>2, <2>14 DEF vars, connectorVars
  <2> QED
    BY <1>2, <2>1, <2>2, <2>3, <2>4, <2>5, <2>6, <2>7, <2>8, <2>9, <2>10, <2>11, <2>12, <2>13,
       <2>14 DEF Next, Step
<1> QED BY <1>1, <1>2, SessionInvariant, PTL DEF Spec
=============================================================================
