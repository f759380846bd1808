--------------------------- MODULE MCApprovalFlow ---------------------------
(* Model values for checking ApprovalFlow.                                 *)
EXTENDS ApprovalFlow, TLC

\* Only for runs without liveness properties; NewId orders the interactions.
Symmetry ==
  Permutations(Keys) \cup Permutations(Requests)
=============================================================================
