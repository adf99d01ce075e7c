----------------------------- MODULE MCRotation -----------------------------
(* The instance of RotatingFileSink for TLC. *)
EXTENDS RotatingFileSink
=============================================================================
