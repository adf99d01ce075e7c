---------------------------- MODULE AsyncDelivery ----------------------------
(***************************************************************************)
(* AsyncBackend delivers (module Delivery): through the queue, its         *)
(* overflow policies and the worker, a record still reaches the sinks once *)
(* and in its client's order, or is lost.                                  *)
(***************************************************************************)
EXTENDS AsyncBackend

\* The records that push has neither stored nor refused yet.
Offered == {record[c] : c \in {d \in Client : pc[d] \in {"push", "waitNotFull", "trap"}}}

OnTheWay == [c \in Client |-> {r \in Pending \cup Offered : r[1] = c}]

Sinks == INSTANCE Delivery WITH
  Clients <- Client, submitted <- calls, inflight <- OnTheWay, delivered <- written

\* The asynchronous backend implements the promise of Backend::log, the same
\* as the synchronous one: what push drops or refuses, DropOldest discards or
\* the sinks throw on leaves a gap, and nothing is repeated or overtaken.
BackendDelivers == Sinks!Spec
=============================================================================
