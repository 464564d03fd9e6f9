----------------------------- MODULE EventLedger -----------------------------
(***************************************************************************)
(* What the processing side promises about one market event, whatever the  *)
(* number of workers, crashes, retries and repeated runs behind it:        *)
(*                                                                         *)
(*   published   the event is in the topic, perhaps in several versions    *)
(*   preserved   one of the versions is in Bronze, and stays               *)
(*   judged      once, on the preserved version; the verdict stays         *)
(*   counted     in the candle its trade falls into, when it is trusted    *)
(*                                                                         *)
(* The one thing not promised is that a counted event stays counted: a     *)
(* recomputation that was overtaken puts an older row in its place.        *)
(* ProcessingPipeline implements this module.                              *)
(***************************************************************************)
CONSTANTS
  Ids,       \* event_id values
  Bodies,    \* what an event carries besides its event_id
  Accepted,  \* bodies that every validation rule passes
  CandleOf,  \* CandleOf[body]: the symbol and window its trade falls into
  NoRow      \* absence of a row

Event == [id: Ids, body: Bodies]

VARIABLES
  published,  \* the readable messages of the topic
  preserved,  \* preserved[id]: the body kept, or NoRow
  verdict,    \* verdict[id]: "none", "trusted" or "rejected"
  counted     \* the entries of all candles: an id and the candle counting it

ledgerVars == <<published, preserved, verdict, counted>>

Init ==
  /\ published = {}
  /\ preserved = [id \in Ids |-> NoRow]
  /\ verdict = [id \in Ids |-> "none"]
  /\ counted = {}

Publish(e) ==
  /\ published' = published \cup {e}
  /\ UNCHANGED <<preserved, verdict, counted>>

Preserve(e) ==
  /\ e \in published
  /\ preserved[e.id] = NoRow
  /\ preserved' = [preserved EXCEPT ![e.id] = e.body]
  /\ UNCHANGED <<published, verdict, counted>>

Judge(id) ==
  /\ preserved[id] # NoRow
  /\ verdict[id] = "none"
  /\ verdict' = [verdict EXCEPT ![id] =
                   IF preserved[id] \in Accepted THEN "trusted" ELSE "rejected"]
  /\ UNCHANGED <<published, preserved, counted>>

TrustedIn(candle) == {id \in Ids : verdict[id] = "trusted" /\ CandleOf[preserved[id]] = candle}

\* A candle is replaced as a whole and no other is touched. It counts trusted
\* events of its own, at least one.
Recount(candle) ==
  /\ \E some \in SUBSET TrustedIn(candle) :
       /\ some # {}
       /\ counted' = {x \in counted : x.candle # candle}
                       \cup {[id |-> id, candle |-> candle] : id \in some}
  /\ UNCHANGED <<published, preserved, verdict>>

Next ==
  \/ \E e \in Event : Publish(e) \/ Preserve(e)
  \/ \E id \in Ids : Judge(id)
  \/ \E body \in Bodies : Recount(CandleOf[body])

Spec == Init /\ [][Next]_ledgerVars
=============================================================================
