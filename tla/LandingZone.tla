----------------------------- MODULE LandingZone -----------------------------
(***************************************************************************)
(* What the Bronze landing zone promises its readers, whatever consumers,  *)
(* crashes and rebalances lie between the broker and the table:            *)
(*                                                                         *)
(*   - a row appears only for a readable message of the topic, is the      *)
(*     content of that message, and is never replaced or removed;          *)
(*   - an offset is settled (committed for the group) only when every      *)
(*     readable message below it has a row under its event_id.             *)
(*                                                                         *)
(* BronzeIngestion implements this module.                                 *)
(***************************************************************************)
EXTENDS Naturals, Sequences

CONSTANTS
  Partitions,  \* partitions of the market events topic
  Ids,         \* event_id values
  Bodies,      \* everything else an InternalEvent carries
  Unreadable,  \* a broker message no InternalEvent can be decoded from
  NoRow        \* absence of a row

Event == [id: Ids, body: Bodies]
Message == Event \cup {Unreadable}

VARIABLES
  topic,    \* topic[p]: the messages of partition p, in offset order
  rows,     \* rows[id]: the preserved body, or NoRow
  settled   \* settled[p]: how many messages of p are committed

lzVars == <<topic, rows, settled>>

\* A message of the topic that decodes to an InternalEvent.
Readable(m) == m # Unreadable

\* The first n messages of partition p that are readable all have a row.
PreservedUpTo(p, n) ==
  \A o \in 1..n : Readable(topic[p][o]) => rows[topic[p][o].id] # NoRow

Init ==
  /\ topic = [p \in Partitions |-> <<>>]
  /\ rows = [id \in Ids |-> NoRow]
  /\ settled = [p \in Partitions |-> 0]

Publish ==
  /\ \E p \in Partitions, m \in Message :
       topic' = [topic EXCEPT ![p] = Append(@, m)]
  /\ UNCHANGED <<rows, settled>>

Preserve ==
  /\ \E p \in Partitions : \E o \in 1..Len(topic[p]) :
       /\ Readable(topic[p][o])
       /\ rows[topic[p][o].id] = NoRow
       /\ rows' = [rows EXCEPT ![topic[p][o].id] = topic[p][o].body]
  /\ UNCHANGED <<topic, settled>>

Settle ==
  /\ \E p \in Partitions : \E n \in 0..Len(topic[p]) :
       /\ PreservedUpTo(p, n)
       /\ settled' = [settled EXCEPT ![p] = n]
  /\ UNCHANGED <<topic, rows>>

Next == Publish \/ Preserve \/ Settle

Spec == Init /\ [][Next]_lzVars
=============================================================================
