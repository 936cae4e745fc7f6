--------------------------- MODULE MCCaseDispatch ---------------------------
(* Instances of CaseDispatch for TLC. *)
EXTENDS CaseDispatch, TLC

\* Agents and calls are interchangeable; cases are not (Init chooses one).
Symmetry == Permutations(Agents) \cup Permutations(Calls)
=============================================================================
