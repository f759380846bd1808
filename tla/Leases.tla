------------------------------- MODULE Leases -------------------------------
(***************************************************************************)
(* A row that workers hold under a lease: an execution unit of a scan or a *)
(* background job.  Both stores keep the same columns and move them in the *)
(* same way; their modules extend this one.                                *)
(*                                                                         *)
(* Time is relative: a lease is the number of ticks it has left.  Each     *)
(* operation reads the clock before it takes the write lock, so it sees    *)
(* the time of d ticks ago, for some d up to MaxLag: to it a lease has     *)
(* expired when left < -d, and a lease it grants has Lease - d left.       *)
(***************************************************************************)
EXTENDS Integers

CONSTANTS
  Workers,
  None,         \* no worker, and nothing held
  MaxAttempts,  \* max_attempts of every row
  Lease,        \* lease_seconds of every claim, in ticks
  MaxLag        \* bound on how old a clock reading may be

ASSUME LeasesAssumption ==
  /\ None \notin Workers
  /\ MaxAttempts \in Nat \ {0}
  /\ Lease \in Nat \ {0}
  /\ MaxLag \in Nat

Lags == 0 .. MaxLag

Active == {"queued", "running"}
Terminal == {"completed", "failed", "cancelled"}

\* The lowest value of left: the lease has expired for every clock.
Gone == -MaxLag - 1

\* The columns of a leased row.
Leasable == [ status : {"absent"} \cup Active \cup Terminal,
              attempts : Nat,
              owner : Workers \cup {None},   \* lease_owner
              left : Gone .. Lease ]         \* lease_expires_at, 0 when null

Absent == [status |-> "absent", attempts |-> 0, owner |-> None, left |-> 0]

Enqueued == [status |-> "queued", attempts |-> 0, owner |-> None, left |-> 0]

\* Variant of Expired that ends a lease one tick early.
ExpiredEarly(r, d) == r.owner # None /\ r.left <= -d

\* The lease of the row r is over by a clock that is d ticks old.
Expired(r, d) == r.owner # None /\ r.left < -d

\* Worker w may still use the row.
Valid(r, w, d) == r.status = "running" /\ r.owner = w /\ r.left >= -d

\* Variant of OutOfAttempts that allows one attempt too many.
OutOfAttemptsLate(r) == r.attempts > MaxAttempts

\* The retry budget is used up.
OutOfAttempts(r) == r.attempts >= MaxAttempts

\* The WHERE clause of claim.
Free(r, d) ==
  /\ r.status \in Active
  /\ r.attempts < MaxAttempts
  /\ r.owner = None \/ Expired(r, d)

\* Variant of Leased that counts the lease from the commit on.
LeasedLate(r, w, d) ==
  [ status |-> "running", attempts |-> r.attempts + 1, owner |-> w,
    left |-> Lease + d ]

\* The row after claim.
Leased(r, w, d) ==
  [ status |-> "running", attempts |-> r.attempts + 1, owner |-> w,
    left |-> Lease - d ]

\* The row after heartbeat.
Renewed(r, d) ==
  [ status |-> r.status, attempts |-> r.attempts, owner |-> r.owner,
    left |-> Lease - d ]

\* Variant of Ended that leaves the lease on the row.
EndedKeepsLease(r, status) ==
  [ status |-> status, attempts |-> r.attempts, owner |-> r.owner, left |-> r.left ]

\* The row without a lease: finished, given back or cancelled.
Ended(r, status) ==
  [ status |-> status, attempts |-> r.attempts, owner |-> None, left |-> 0 ]

\* The row one tick later.
Aged(r) ==
  [ status |-> r.status, attempts |-> r.attempts, owner |-> r.owner,
    left |-> IF r.owner # None /\ r.left > Gone THEN r.left - 1 ELSE r.left ]
=============================================================================
