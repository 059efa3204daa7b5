------------------------------- MODULE Mailbox -------------------------------
(****************************************************************************)
(* What the broker promises about the clients that are away: per client     *)
(* ID, whether it is there, which topics it follows, which of them it asked *)
(* to store for it, and the numbers of the messages it is owed.  There are  *)
(* no processes, sockets or tables here; PubSub is shown to implement it.   *)
(****************************************************************************)
EXTENDS Naturals, Sequences

CONSTANTS Ids, Topics

VARIABLES
  serving, \* the broker is up
  present, \* the IDs that are connected
  follows, \* follows[id]: the topics of its subscriptions
  durable, \* durable[id]: the topics it ever asked to store
  owed,    \* owed[id]: messages stored for it, oldest first
  count    \* messages published

mailVars == <<serving, present, follows, durable, owed, count>>

Init ==
  /\ serving = TRUE
  /\ present = {}
  /\ follows = [id \in Ids |-> {}]
  /\ durable = [id \in Ids |-> {}]
  /\ owed = [id \in Ids |-> << >>]
  /\ count = 0

(* A client that comes back keeps what it follows and is owed nothing more. *)
Join(id) ==
  /\ id \notin present
  /\ present' = present \cup {id}
  /\ owed' = [owed EXCEPT ![id] = << >>]
  /\ UNCHANGED <<serving, follows, durable, count>>

Leave(id) ==
  /\ id \in present
  /\ present' = present \ {id}
  /\ UNCHANGED <<serving, follows, durable, owed, count>>

(* A second subscription to a topic changes nothing, its flag included.     *)
Follow(id, t, store) ==
  /\ id \in present /\ t \notin follows[id]
  /\ follows' = [follows EXCEPT ![id] = @ \cup {t}]
  /\ durable' = [durable EXCEPT ![id] = IF store THEN @ \cup {t} ELSE @]
  /\ UNCHANGED <<serving, present, owed, count>>

Unfollow(id, t) ==
  /\ id \in present /\ t \in follows[id]
  /\ follows' = [follows EXCEPT ![id] = @ \ {t}]
  /\ UNCHANGED <<serving, present, durable, owed, count>>

Stores(id, t) == id \notin present /\ t \in follows[id] \cap durable[id]

Publish(t) ==
  /\ count' = count + 1
  /\ owed' = [id \in Ids |-> IF Stores(id, t) THEN Append(owed[id], count') ELSE owed[id]]
  /\ UNCHANGED <<serving, present, follows, durable>>

(* Nothing is persisted: a broker that stops owes nothing to anyone.        *)
Stop ==
  /\ serving' = FALSE
  /\ present' = {}
  /\ follows' = [id \in Ids |-> {}]
  /\ durable' = [id \in Ids |-> {}]
  /\ owed' = [id \in Ids |-> << >>]
  /\ UNCHANGED count

Next ==
  /\ serving
  /\ \/ \E id \in Ids : Join(id) \/ Leave(id)
     \/ \E id \in Ids, t \in Topics :
          Unfollow(id, t) \/ \E store \in BOOLEAN : Follow(id, t, store)
     \/ \E t \in Topics : Publish(t)
     \/ Stop

Spec == Init /\ [][Next]_mailVars
=============================================================================
