--------------------------- MODULE CoinbaseSession ---------------------------
(***************************************************************************)
(* One ingestion session: IngestionPipeline.run (producer/pipeline.py)     *)
(* over CoinbaseExchangeConnector (producer/connectors/coinbase.py), with  *)
(* a second task that may call disconnect() at any await of the first.     *)
(*                                                                         *)
(* Each step is what the event loop runs between two awaits. A socket is   *)
(* named by the number of its connect() context; 0 is None. The exchange,  *)
(* the network and the broker are external.                                *)
(***************************************************************************)
EXTENDS Naturals

CONSTANTS
  MaxReconnects,  \* settings.max_reconnect_attempts
  MaxSockets,     \* bound: websocket contexts created in the session
  Stoppers        \* other tasks, which may call disconnect() once each

ASSUME SessionAssumption ==
  /\ MaxReconnects \in Nat
  /\ MaxSockets \in Nat \ {0}

Sockets == 1..MaxSockets

VARIABLES
  state,     \* self._state
  stop,      \* self._stop_requested
  context,   \* self._context
  ws,        \* self._ws
  failures,  \* consecutive_failures of stream()
  pc,        \* the await the session's task is at
  iterated,  \* the socket that async for iterates over
  held,      \* the local context of the session's running _open or _close
  stopper,   \* stopper[s]: "idle", "closing" or "done"
  taken,     \* taken[s]: the local context of that task's running _close
  socket,    \* socket[k]: "fresh", "open", "dropped" (by the peer) or "closed"
  created,   \* connect() contexts so far
  outcome,   \* how stream() ended
  silent     \* history: sockets opened since a message was last received

connectorVars == <<state, stop, context, ws>>
vars == <<connectorVars, failures, pc, iterated, held, stopper, taken, socket,
          created, outcome, silent>>

TypeOK ==
  /\ state \in {"disconnected", "connecting", "connected", "reconnecting"}
  /\ stop \in BOOLEAN
  /\ context \in Sockets \cup {0} /\ ws \in Sockets \cup {0}
  /\ iterated \in Sockets \cup {0} /\ held \in Sockets \cup {0}
  /\ failures \in Nat
  /\ pc \in {"start", "entering", "sending", "receiving", "publishing", "backoff",
             "reclosing", "reentering", "resending", "finalising", "ended", "raised"}
  /\ stopper \in [Stoppers -> {"idle", "closing", "done"}]
  /\ taken \in [Stoppers -> Sockets \cup {0}]
  /\ socket \in [Sockets -> {"fresh", "open", "dropped", "closed"}]
  /\ outcome \in {"none", "stopped", "exhausted", "fatal", "escaped",
                  "unpublished", "lost"}
  /\ created \in Sockets \cup {0}
  /\ silent \in Nat

Init ==
  /\ state = "disconnected" /\ stop = FALSE
  /\ context = 0 /\ ws = 0 /\ iterated = 0 /\ held = 0
  /\ failures = 0 /\ silent = 0 /\ created = 0
  /\ pc = "start" /\ outcome = "none"
  /\ stopper = [s \in Stoppers |-> "idle"]
  /\ taken = [s \in Stoppers |-> 0]
  /\ socket = [k \in Sockets |-> "fresh"]

----------------------------------------------------------------------------
(* What the steps are made of.                                             *)

\* __aexit__ of a context: it releases a socket that was entered, and its
\* errors are suppressed.
Exited(k) ==
  IF k # 0 /\ socket[k] = "open" THEN [socket EXCEPT ![k] = "closed"] ELSE socket

\* _close() up to its await: both attributes are cleared first.
Detach == context' = 0 /\ ws' = 0

\* self._connect(url): a context nobody used before.
NextContext == created + 1

\* Mutant of FinishIn: run() has no finally.
LeftIn(now, how) ==
  /\ outcome' = how
  /\ state' = now
  /\ pc' = "ended"
  /\ UNCHANGED <<stop, context, ws, held>>

\* stream() is left in state now; the pipeline's finally calls disconnect().
FinishIn(now, how) ==
  /\ outcome' = how
  /\ stop' = TRUE
  /\ Detach
  /\ held' = context
  /\ IF context = 0
     THEN state' = "disconnected" /\ pc' = "ended"
     ELSE state' = now /\ pc' = "finalising"
Finish(how) == FinishIn(state, how)

----------------------------------------------------------------------------
(* The session's task.                                                     *)

\* connect(): a context is created, then entered.
Connect ==
  /\ pc = "start"
  /\ state' = "connecting"
  /\ stop' = FALSE
  /\ context' = NextContext
  /\ created' = NextContext
  /\ held' = NextContext
  /\ pc' = "entering"
  /\ UNCHANGED <<ws, failures, iterated, stopper, taken, socket, outcome, silent>>

\* __aenter__ returns an open websocket; the subscription is sent next.
Enter ==
  /\ pc \in {"entering", "reentering"}
  /\ socket' = [socket EXCEPT ![held] = "open"]
  /\ silent' = silent + 1
  /\ ws' = held
  /\ pc' = IF pc = "entering" THEN "sending" ELSE "resending"
  /\ UNCHANGED <<state, stop, context, failures, iterated, held, stopper, taken, created,
                 outcome>>

\* _open() raises: the connection is refused, or lost before send() returns.
\* connect() is called outside the try, reconnect() inside it but in the
\* handler of stream(), which does not catch its errors.
OpenFails ==
  /\ pc \in {"entering", "sending", "reentering", "resending"}
  /\ IF pc \in {"sending", "resending"}
     THEN /\ socket[held] # "open"
          /\ UNCHANGED socket
     ELSE socket' = [socket EXCEPT ![held] = "dropped"]
  /\ IF pc \in {"entering", "sending"}
     THEN /\ pc' = "raised"
          /\ outcome' = "lost"
          /\ UNCHANGED <<connectorVars, held>>
     ELSE Finish("lost")
  /\ UNCHANGED <<failures, iterated, stopper, taken, created, silent>>

\* Mutants of the next two: the socket is read once, before the loop; a new
\* connection resets the counter.
FirstIterated == IF iterated = 0 THEN ws ELSE iterated
FailuresReset == 0

\* What the next iteration of stream() goes over, and the count of failures it
\* starts with.
NextIterated == ws
FailuresKept == failures

\* send() returns. connect() or reconnect() is done, and stream() starts its
\* next iteration unless a stop was requested.
Sent ==
  /\ pc \in {"sending", "resending"}
  /\ socket[held] = "open"
  /\ failures' = FailuresKept
  /\ IF stop
     THEN FinishIn("connected", "stopped") /\ UNCHANGED iterated
     ELSE /\ state' = "connected"
          /\ iterated' = NextIterated
          /\ held' = 0
          /\ pc' = "receiving"
          /\ UNCHANGED <<stop, context, ws, outcome>>
  /\ UNCHANGED <<stopper, taken, socket, created, silent>>

\* A message arrives. Every message resets the failure counter; match or
\* last_match that can be prepared goes to publish(), an error is fatal, and
\* control messages, frames that do not decode and matches the preparer
\* refuses are passed over. A halting message raises something nobody catches:
\* a match in prepare() (EventPreparation!Escapes), or a type that cannot be
\* looked up in a set.
Receive(kind) ==
  /\ pc = "receiving"
  /\ socket[iterated] = "open"
  /\ failures' = 0
  /\ silent' = 0
  /\ \/ stop /\ Finish("stopped")
     \/ ~stop /\ kind = "error" /\ Finish("fatal")
     \/ ~stop /\ kind = "halting" /\ Finish("escaped")
     \/ /\ ~stop /\ kind \in {"match", "control"}
        /\ pc' = IF kind = "match" THEN "publishing" ELSE "receiving"
        /\ UNCHANGED <<connectorVars, held, outcome>>
  /\ UNCHANGED <<iterated, stopper, taken, created, socket>>

\* publish() returns, and the generator is resumed; or PublishError.
Published ==
  /\ pc = "publishing"
  /\ pc' = "receiving"
  /\ UNCHANGED <<connectorVars, failures, iterated, held, stopper, taken, socket, created,
                 outcome, silent>>

PublishFails ==
  /\ pc = "publishing"
  /\ Finish("unpublished")
  /\ UNCHANGED <<failures, iterated, stopper, taken, socket, created, silent>>

\* Mutant of Exhausted: one attempt too many.
ExhaustedLate == failures > MaxReconnects

\* The counter, once increased, is beyond max_reconnect_attempts.
Exhausted == failures + 1 > MaxReconnects

\* The iteration ends or raises because the socket is gone.
Interrupted ==
  /\ pc = "receiving"
  /\ socket[iterated] # "open"
  /\ IF stop \/ state # "connected"
     THEN Finish("stopped") /\ UNCHANGED failures
     ELSE /\ failures' = failures + 1
          /\ IF Exhausted
             THEN Finish("exhausted")
             ELSE /\ pc' = "backoff"
                  /\ UNCHANGED <<connectorVars, held, outcome>>
  /\ UNCHANGED <<iterated, stopper, taken, socket, created, silent>>

\* The backoff is over: reconnect() closes the old context.
Wake ==
  /\ pc = "backoff"
  /\ IF stop
     THEN Finish("stopped")
     ELSE /\ state' = "reconnecting"
          /\ Detach
          /\ held' = context
          /\ pc' = "reclosing"
          /\ UNCHANGED <<stop, outcome>>
  /\ UNCHANGED <<failures, iterated, stopper, taken, socket, created, silent>>

\* reconnect() goes on with _open(), whether or not a stop was requested.
Reopen ==
  /\ pc = "reclosing"
  /\ socket' = Exited(held)
  /\ context' = NextContext
  /\ created' = NextContext
  /\ held' = NextContext
  /\ pc' = "reentering"
  /\ UNCHANGED <<state, stop, ws, failures, iterated, stopper, taken, outcome, silent>>

\* The __aexit__ of the session's own disconnect() is over.
Finalised ==
  /\ pc = "finalising"
  /\ socket' = Exited(held)
  /\ held' = 0
  /\ state' = "disconnected"
  /\ pc' = "ended"
  /\ UNCHANGED <<stop, context, ws, failures, iterated, stopper, taken, created, outcome,
                 silent>>

----------------------------------------------------------------------------
(* The other task, and the network.                                        *)

\* Mutant of StopRequested: without a context it returns before it sets the flag.
StopOverlooked(s) ==
  /\ stopper[s] = "idle"
  /\ pc \notin {"start", "ended", "raised"}
  /\ stop' = (stop \/ context # 0)
  /\ Detach
  /\ taken' = [taken EXCEPT ![s] = context]
  /\ IF context = 0
     THEN state' = "disconnected" /\ stopper' = [stopper EXCEPT ![s] = "done"]
     ELSE UNCHANGED state /\ stopper' = [stopper EXCEPT ![s] = "closing"]
  /\ UNCHANGED <<failures, pc, iterated, held, socket, created, outcome, silent>>

\* disconnect() up to the await of __aexit__, or all of it when there is no
\* context to leave.
StopRequested(s) ==
  /\ stopper[s] = "idle"
  /\ pc \notin {"start", "ended", "raised"}
  /\ stop' = TRUE
  /\ Detach
  /\ taken' = [taken EXCEPT ![s] = context]
  /\ IF context = 0
     THEN state' = "disconnected" /\ stopper' = [stopper EXCEPT ![s] = "done"]
     ELSE UNCHANGED state /\ stopper' = [stopper EXCEPT ![s] = "closing"]
  /\ UNCHANGED <<failures, pc, iterated, held, socket, created, outcome, silent>>

StopDone(s) ==
  /\ stopper[s] = "closing"
  /\ socket' = Exited(taken[s])
  /\ state' = "disconnected"
  /\ stopper' = [stopper EXCEPT ![s] = "done"]
  /\ taken' = [taken EXCEPT ![s] = 0]
  /\ UNCHANGED <<stop, context, ws, failures, pc, iterated, held, created, outcome, silent>>

\* The peer or the network closes a socket (never the last one of the bound).
Drop(k) ==
  /\ k < MaxSockets
  /\ socket[k] = "open"
  /\ socket' = [socket EXCEPT ![k] = "dropped"]
  /\ UNCHANGED <<connectorVars, failures, pc, iterated, held, stopper, taken, created,
                 outcome, silent>>

Kinds == {"match", "control", "error", "halting"}

\* What the session's task does without a message from the exchange.
Step ==
  \/ Connect \/ Enter \/ OpenFails \/ Sent \/ Published \/ PublishFails
  \/ Interrupted \/ Wake \/ Reopen \/ Finalised

Next ==
  \/ Step
  \/ \E kind \in Kinds : Receive(kind)
  \/ \E s \in Stoppers : StopRequested(s) \/ StopDone(s)
  \/ \E k \in Sockets : Drop(k)

Spec == Init /\ [][Next]_vars

\* The event loop resumes every task whose await is over: calls to the
\* network return or raise. Nobody must send a message or drop a socket.
FairSpec ==
  /\ Spec
  /\ WF_vars(Step)
  /\ \A s \in Stoppers : WF_vars(StopDone(s))

----------------------------------------------------------------------------
(* Properties.                                                             *)

\* The task that iterates owns the socket it iterates, unless a stop took it
\* away; "connector is not connected" (coinbase.py:182-184) is never raised.
IteratesItsSocket ==
  pc \in {"receiving", "publishing", "backoff"} =>
    stop \/ (state = "connected" /\ ws = iterated /\ context = iterated)

\* Between two messages the session opens no more sockets than the retry
\* budget allows (coinbase.py:29-37).
ReconnectsBounded == silent <= MaxReconnects + 1

\* However the session ended, its sockets are released and its state is right
\* (pipeline.py:26-27: resources are always released), unless another task
\* called disconnect(): that may leave a context before it is entered, and
\* the websocket entered after it belongs to nobody.
EndReleases ==
  (pc = "ended" /\ \A s \in Stoppers : stopper[s] = "idle") =>
    /\ state = "disconnected"
    /\ \A k \in Sockets : socket[k] # "open"

----------------------------------------------------------------------------
(* The inductive invariant.                                                *)

Undisturbed == \A s \in Stoppers : stopper[s] = "idle"

\* A stop, once requested, stays requested; nobody else makes one up.
StopsStay ==
  /\ pc = "start" => Undisturbed
  /\ Undisturbed /\ pc \notin {"finalising", "ended"} => ~stop
  /\ \A s \in Stoppers : stopper[s] # "idle" => stop

\* While nobody stops it the session holds the latest socket.
HoldsLatest ==
  /\ pc \in {"start", "entering", "sending"} => iterated = 0
  /\ pc = "start" => created = 0 /\ context = 0 /\ ws = 0 /\ held = 0 /\ ~stop
  /\ pc # "start" => created > 0
  /\ pc \in {"entering", "sending", "reentering", "resending"} => held = created
  /\ pc \in {"entering", "reentering"} /\ ~stop => context = held
  /\ pc \in {"sending", "resending"} /\ ~stop => context = held /\ ws = held
  /\ pc \in {"receiving", "publishing", "backoff", "reclosing"} => iterated = created
  /\ pc \in {"backoff", "reclosing"} => iterated < MaxSockets
  /\ pc \in {"receiving", "publishing"} /\ ~stop =>
       iterated < MaxSockets \/ socket[iterated] = "open"

\* Sockets opened in silence are paid for by the failures counted.
WithinBudget ==
  /\ pc \in {"start", "entering", "reclosing", "reentering", "backoff"} =>
       silent <= failures
  /\ pc \in {"sending", "resending", "receiving", "publishing"} => silent <= failures + 1
  /\ failures <= MaxReconnects + 1
  /\ pc \notin {"finalising", "ended"} => failures <= MaxReconnects
  /\ silent <= MaxReconnects + 1

\* Undisturbed, nothing is open but what the session is about to leave.
NothingLeaks ==
  Undisturbed =>
    /\ \A k \in Sockets : socket[k] = "open" => k = context \/ k = held
    /\ pc \in {"receiving", "publishing", "backoff"} => held = 0
    /\ pc \in {"reclosing", "finalising"} => context = 0
    /\ pc = "ended" => context = 0 /\ held = 0 /\ state = "disconnected"

SessionInv ==
  TypeOK /\ StopsStay /\ IteratesItsSocket /\ HoldsLatest /\ WithinBudget /\ NothingLeaks

\* What coinbase.py:29-31 says: transient failures (OSError) are retried up
\* to max_reconnect_attempts consecutive failures.
LostOnlyWhenExhausted ==
  (pc = "ended" /\ outcome = "lost") => failures >= MaxReconnects

\* A stop request ends the session, whatever it was waiting for.
StopEndsSession ==
  \A s \in Stoppers : (stopper[s] # "idle") ~> (pc \in {"ended", "raised"})
=============================================================================
