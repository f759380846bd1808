------------------------------- MODULE MCHitl -------------------------------
(* Small instances of Hitl for TLC. *)
EXTENDS Hitl, TLC

\* Interactions, callers, payloads and answers are interchangeable; symmetry
\* is used only where no liveness property is checked.
Symmetry ==
  Permutations(Interactions) \cup Permutations(Callers) \cup Permutations(Sweepers)
    \cup Permutations(Payloads) \cup Permutations(Accepted)
=============================================================================
