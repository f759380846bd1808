------------------------------- MODULE MCJobs -------------------------------
(* Small instances of Jobs for TLC; without symmetry, since liveness is     *)
(* checked in each of them.                                                 *)
EXTENDS Jobs, TLC
=============================================================================
