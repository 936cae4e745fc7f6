--------------------------- MODULE MCInboundBuffer ---------------------------
(* Instances of InboundBuffer for TLC. *)
EXTENDS InboundBuffer, TLC

Symmetry == Permutations(Messages)
=============================================================================
