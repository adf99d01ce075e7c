------------------------------ MODULE Delivery ------------------------------
(***************************************************************************)
(* What a backend promises for one sink (include/logger/backend.hpp: submit *)
(* one record, thread-safe): a record on its way reaches the sink once or   *)
(* is lost, and the sink gets the records of each client in their order.    *)
(* A lost record leaves a gap, never a repetition or an exchange.           *)
(***************************************************************************)
EXTENDS Naturals, Sequences

CONSTANT Clients    \* the threads that log

VARIABLES
  submitted,  \* how many records each client has submitted
  inflight,   \* for each client, its records on their way
  delivered   \* the records the sink has been given

Init ==
  /\ submitted = [c \in Clients |-> 0]
  /\ inflight = [c \in Clients |-> {}]
  /\ delivered = <<>>

\* A call of log begins; a record is its client and its number.
Submit(c) ==
  /\ submitted' = [submitted EXCEPT ![c] = @ + 1]
  /\ inflight' = [inflight EXCEPT ![c] = @ \cup {<<c, submitted'[c]>>}]
  /\ UNCHANGED delivered

\* Only the oldest record of a client can be next.
Deliver(c, r) ==
  /\ \A other \in inflight[c] : r[2] <= other[2]
  /\ delivered' = Append(delivered, r)
  /\ inflight' = [inflight EXCEPT ![c] = @ \ {r}]
  /\ UNCHANGED submitted

\* Refused, discarded or given up with an exception.
Lose(c, r) ==
  /\ inflight' = [inflight EXCEPT ![c] = @ \ {r}]
  /\ UNCHANGED <<submitted, delivered>>

Next ==
  \E c \in Clients :
    \/ Submit(c)
    \/ \E r \in inflight[c] : Deliver(c, r) \/ Lose(c, r)

Spec == Init /\ [][Next]_<<submitted, inflight, delivered>>
=============================================================================
