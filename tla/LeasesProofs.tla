---------------------------- MODULE LeasesProofs ----------------------------
(***************************************************************************)
(* Facts about leased rows, for any retry budget, lease and clock lag: the *)
(* proofs about both lease stores rest on them.                            *)
(***************************************************************************)
EXTENDS Leases, TLAPS

\* A row is leased exactly while it runs.
LeaseMatches(r) == r.owner # None <=> r.status = "running"

\* What an operation may make of a row.
Moved(r) ==
  /\ r \in Leasable
  /\ r.owner # None <=> r.status = "running"
  /\ r.attempts <= MaxAttempts
  /\ r.status = "queued" => r.attempts < MaxAttempts

\* Granting and renewing a lease, for a clock that is d ticks old.
LEMMA LeaseRange ==
  ASSUME NEW d \in Lags
  PROVE  Lease - d \in Gone .. Lease
  BY LeasesAssumption DEF Lags, Gone

LEMMA LeasedRow ==
  ASSUME NEW r \in Leasable, NEW w \in Workers, NEW d \in Lags,
         r.attempts < MaxAttempts
  PROVE  /\ Moved(Leased(r, w, d))
         /\ Leased(r, w, d).status = "running"
         /\ Leased(r, w, d).owner = w
         /\ Leased(r, w, d).attempts = r.attempts + 1
<1>1. r.attempts + 1 \in Nat /\ r.attempts + 1 <= MaxAttempts
  BY LeasesAssumption DEF Leasable
<1>2. Leased(r, w, d) \in Leasable
  BY <1>1, LeaseRange DEF Leased, Leasable, Active
<1>3. w # None
  BY LeasesAssumption
<1> QED BY <1>1, <1>2, <1>3 DEF Leased, Moved

LEMMA RenewedRow ==
  ASSUME NEW r \in Leasable, NEW d \in Lags
  PROVE  /\ Renewed(r, d) \in Leasable
         /\ Moved(r) => Moved(Renewed(r, d))
         /\ Renewed(r, d).status = r.status
         /\ Renewed(r, d).owner = r.owner
         /\ Renewed(r, d).attempts = r.attempts
<1>1. Renewed(r, d) \in Leasable
  BY LeaseRange DEF Renewed, Leasable
<1> QED BY <1>1 DEF Renewed, Moved

LEMMA EndedRow ==
  ASSUME NEW r \in Leasable, NEW status \in {"queued"} \cup Terminal
  PROVE  /\ Ended(r, status) \in Leasable
         /\ (Moved(r) /\ (status = "queued" => ~OutOfAttempts(r))) => Moved(Ended(r, status))
         /\ Ended(r, status).status = status
         /\ status # "running"
         /\ Ended(r, status).owner = None
         /\ Ended(r, status).attempts = r.attempts
<1>1. 0 \in Gone .. Lease
  BY LeasesAssumption DEF Gone
<1>2. Ended(r, status) \in Leasable
  BY <1>1 DEF Ended, Leasable, Active
<1>3. status # "running"
  BY DEF Terminal
<1>4. ~OutOfAttempts(r) => r.attempts < MaxAttempts
  BY LeasesAssumption DEF OutOfAttempts, Leasable
<1> QED BY <1>2, <1>3, <1>4 DEF Ended, Moved

LEMMA AgedRow ==
  ASSUME NEW r \in Leasable
  PROVE  /\ Aged(r) \in Leasable
         /\ Moved(r) => Moved(Aged(r))
         /\ Aged(r).status = r.status
         /\ Aged(r).owner = r.owner
         /\ Aged(r).attempts = r.attempts
<1>1. r.left > Gone => r.left - 1 \in Gone .. Lease
  BY LeasesAssumption DEF Leasable, Gone
<1>2. Aged(r) \in Leasable
  BY <1>1 DEF Aged, Leasable
<1> QED BY <1>2 DEF Aged, Moved

\* The row that enqueueing writes.
LEMMA EnqueuedRow ==
  /\ Moved(Enqueued)
  /\ Enqueued.status = "queued"
  /\ Enqueued.owner = None
  BY LeasesAssumption DEF Moved, Enqueued, Leasable, Active, Gone

LEMMA AbsentRow ==
  /\ Moved(Absent)
  /\ Absent.status = "absent"
  /\ Absent.owner = None
  BY LeasesAssumption DEF Moved, Absent, Leasable, Active, Gone

\* A row that runs is free for a claim only after its lease.
LEMMA FreeRow ==
  ASSUME NEW r \in Leasable, NEW d \in Lags, LeaseMatches(r), Free(r, d)
  PROVE  /\ r.status \in Active
         /\ r.attempts < MaxAttempts
         /\ r.status = "running" => r.left < 0
<1>1. r.left \in Int /\ d \in Nat
  BY LeasesAssumption DEF Leasable, Gone, Lags
<1> QED BY <1>1 DEF Free, Expired, LeaseMatches
=============================================================================
