----------------------------- MODULE MCScanJobs -----------------------------
(* Small instances of ScanJobs for TLC. *)
EXTENDS ScanJobs, TLC

CONSTANTS s1, u1, u2

\* A scan of two securities.
Two == (u1 :> s1) @@ (u2 :> s1)
RankTwo == (u1 :> 1) @@ (u2 :> 2)
=============================================================================
