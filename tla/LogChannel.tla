----------------------------- MODULE LogChannel -----------------------------
(***************************************************************************)
(* What logger::Queue promises to its callers, without rings, locks or     *)
(* condition variables: one sequence of records, bounded by a capacity, an *)
(* overflow policy that says what becomes of a record that finds the       *)
(* channel full, and a closing that lets the consumer read what is left.   *)
(* The promise is taken from include/logger/queue.hpp and the switch in    *)
(* Queue::push.  Module Queue is shown to implement it.                    *)
(***************************************************************************)
EXTENDS Naturals, Sequences

CONSTANTS
  Producers,   \* the threads that push
  Capacities,  \* the numbers of records a channel may be built to hold
  Policies,    \* the overflow policies under consideration
  Record,      \* the records that can be offered
  NoRecord     \* stands for "no record"

VARIABLES
  contents,    \* the queued records, oldest first
  capacity,    \* the number of records the channel can hold
  policy,      \* the overflow policy the channel was built with
  closed,      \* has the channel been shut down
  offer,       \* the record each producer is trying to push
  verdict,     \* the answer its push call is about to return
  taken,       \* the record the consumer received last
  outcome      \* how the consumer's pop call ended

vars == <<contents, capacity, policy, closed, offer, verdict, taken, outcome>>

Init ==
  /\ contents = <<>>
  /\ capacity \in Capacities
  /\ policy \in Policies
  /\ closed = FALSE
  /\ offer = [p \in Producers |-> NoRecord]
  /\ verdict = [p \in Producers |-> "none"]
  /\ taken = NoRecord
  /\ outcome = "none"

\* A producer's call to push begins.
Offer(p, r) ==
  /\ offer[p] = NoRecord
  /\ verdict[p] = "none"
  /\ offer' = [offer EXCEPT ![p] = r]
  /\ UNCHANGED <<contents, capacity, policy, closed, verdict, taken, outcome>>

Answer(p, v) ==
  /\ offer[p] # NoRecord
  /\ offer' = [offer EXCEPT ![p] = NoRecord]
  /\ verdict' = [verdict EXCEPT ![p] = v]
  /\ UNCHANGED <<capacity, policy, closed, taken, outcome>>

\* There is room: the record goes to the end.  Only a blocking channel
\* stops accepting once it is closed.
Accept(p) ==
  /\ Len(contents) < capacity
  /\ policy = "Block" => ~closed
  /\ contents' = Append(contents, offer[p])
  /\ Answer(p, "accepted")

\* DropOldest on a full channel: the oldest record makes room.
Replace(p) ==
  /\ policy = "DropOldest"
  /\ capacity # 0 /\ Len(contents) = capacity
  /\ contents' = Append(Tail(contents), offer[p])
  /\ Answer(p, "accepted")

\* The record is not queued: the policy drops it, or a blocking channel
\* has been closed.
Refuse(p) ==
  /\ \/ policy \in {"DropNewest", "Discard"} /\ Len(contents) = capacity
     \/ policy = "Block" /\ closed
  /\ UNCHANGED contents
  /\ Answer(p, "refused")

Acknowledge(p) ==
  /\ verdict[p] # "none"
  /\ verdict' = [verdict EXCEPT ![p] = "none"]
  /\ UNCHANGED <<contents, capacity, policy, closed, offer, taken, outcome>>

\* pop returns the oldest record ...
Take ==
  /\ outcome = "none"
  /\ contents # <<>>
  /\ taken' = Head(contents)
  /\ contents' = Tail(contents)
  /\ outcome' = "record"
  /\ UNCHANGED <<capacity, policy, closed, offer, verdict>>

\* ... or reports the end of a closed, empty channel.
EndOfStream ==
  /\ outcome = "none"
  /\ closed /\ contents = <<>>
  /\ outcome' = "end"
  /\ UNCHANGED <<contents, capacity, policy, closed, offer, verdict, taken>>

TakeAgain ==
  /\ outcome # "none"
  /\ outcome' = "none"
  /\ UNCHANGED <<contents, capacity, policy, closed, offer, verdict, taken>>

Close ==
  /\ ~closed
  /\ closed' = TRUE
  /\ UNCHANGED <<contents, capacity, policy, offer, verdict, taken, outcome>>

Next ==
  \/ \E p \in Producers :
       \/ \E r \in Record : Offer(p, r)
       \/ Accept(p)
       \/ Replace(p)
       \/ Refuse(p)
       \/ Acknowledge(p)
  \/ Take
  \/ EndOfStream
  \/ TakeAgain
  \/ Close

Spec == Init /\ [][Next]_vars
=============================================================================
