------------------------------ MODULE MCQueue -------------------------------
(* Instances of Queue for TLC. *)
EXTENDS Queue, TLC

\* Producers are interchangeable; used only where no liveness is checked.
ProducerSymmetry == Permutations(Producers)
=============================================================================
