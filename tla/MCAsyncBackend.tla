--------------------------- MODULE MCAsyncBackend ---------------------------
(* Instances of AsyncBackend for TLC. *)
EXTENDS AsyncDelivery, TLC

\* Clients are interchangeable; used only where no liveness is checked.
ClientSymmetry == Permutations(Producers)
=============================================================================
