-------------------------------- MODULE Jobs --------------------------------
(***************************************************************************)
(* The general background-job store.  A job is leased to a worker like the *)
(* execution unit of a scan (Leases), but nothing refreshes another row,   *)
(* claim never fails a job whose last lease ran out, and the UPDATE of     *)
(* release asks for the lease owner again.                                 *)
(*                                                                         *)
(* The SELECT of release opens no database transaction, and the API and    *)
(* the worker are processes with a write lock each, so other operations    *)
(* may come between its SELECT and its UPDATE.                             *)
(***************************************************************************)
EXTENDS Leases

CONSTANTS
  JobIds,
  MaxBorn       \* bound: created_at is one of 1..MaxBorn

ASSUME JobsAssumption == None \notin JobIds /\ MaxBorn \in Nat \ {0}

VARIABLES
  job,      \* jobs: the row of each job
  born,     \* created_at of each job, read before the lock was taken
  held,     \* the job each worker was last given by claim
  release   \* what the SELECT of a release under way has read

vars == <<job, born, held, release>>

NoRelease == [job |-> None, exhausted |-> FALSE]

Release == [job : JobIds \cup {None}, exhausted : BOOLEAN]

TypeOK ==
  /\ job \in [JobIds -> Leasable]
  /\ born \in [JobIds -> 0 .. MaxBorn]
  /\ held \in [Workers -> JobIds \cup {None}]
  /\ release \in [Workers -> Release]

Init ==
  /\ job = [j \in JobIds |-> Absent]
  /\ born = [j \in JobIds |-> 0]
  /\ held = [w \in Workers |-> None]
  /\ release = [w \in Workers |-> NoRelease]

\* Time passes: the leases run out.
Tick ==
  /\ job' = [j \in JobIds |-> Aged(job[j])]
  /\ job' # job
  /\ UNCHANGED <<born, held, release>>

\* enqueue; the job id is the primary key.
Enqueue(j) ==
  /\ job[j] = Absent
  /\ job' = [job EXCEPT ![j] = Enqueued]
  /\ \E t \in 1 .. MaxBorn : born' = [born EXCEPT ![j] = t]
  /\ UNCHANGED <<held, release>>

\* Variant of Oldest that loses sight of jobs that were claimed before.
OldestFresh(d) ==
  {j \in JobIds : job[j].status = "queued" /\ Free(job[j], d)}

\* claim: the oldest free job; a running one is free once its lease is over
\* and while it has attempts left.
Oldest(d) ==
  {j \in JobIds : /\ Free(job[j], d)
                  /\ \A k \in JobIds : Free(job[k], d) => born[j] <= born[k]}

Claim(w) ==
  /\ held[w] = None
  /\ \E d \in Lags : \E j \in Oldest(d) :
       /\ job' = [job EXCEPT ![j] = Leased(@, w, d)]
       /\ held' = [held EXCEPT ![w] = j]
  /\ UNCHANGED <<born, release>>

\* heartbeat: a lease that is still valid is granted anew.
Heartbeat(w) ==
  /\ \E j \in JobIds, d \in Lags :
       /\ held[w] = j
       /\ Valid(job[j], w, d)
       /\ job' = [job EXCEPT ![j] = Renewed(@, d)]
  /\ UNCHANGED <<born, held, release>>

\* complete and fail: _finish under a valid lease.
Finish(w, status) ==
  /\ release[w] = NoRelease
  /\ \E j \in JobIds, d \in Lags :
       /\ held[w] = j
       /\ Valid(job[j], w, d)
       /\ job' = [job EXCEPT ![j] = Ended(@, status)]
  /\ UNCHANGED <<born, held, release>>

\* release, the SELECT: the lease may have expired by now.
ReleaseRead(w) ==
  /\ release[w] = NoRelease
  /\ \E j \in JobIds :
       /\ held[w] = j
       /\ job[j].status = "running"
       /\ job[j].owner = w
       /\ release' = [release EXCEPT ![w] =
                        [job |-> j, exhausted |-> OutOfAttempts(job[j])]]
  /\ UNCHANGED <<job, born, held>>

Given(j, w) ==
  Ended(job[j], IF release[w].exhausted THEN "failed" ELSE "queued")

\* Variant of ReleaseWrite whose UPDATE names the job only.
ReleaseWriteBlind(w) ==
  /\ \E j \in JobIds :
       /\ release[w].job = j
       /\ job' = [job EXCEPT ![j] = Given(j, w)]
  /\ release' = [release EXCEPT ![w] = NoRelease]
  /\ UNCHANGED <<born, held>>

\* release, the UPDATE: it changes nothing when the worker does not own the
\* job any more, and its row count is not looked at.
ReleaseWrite(w) ==
  /\ \E j \in JobIds :
       /\ release[w].job = j
       /\ job' = IF job[j].owner = w THEN [job EXCEPT ![j] = Given(j, w)] ELSE job
  /\ release' = [release EXCEPT ![w] = NoRelease]
  /\ UNCHANGED <<born, held>>

\* The worker crashes, or is done with its job.
Forget(w) ==
  /\ held[w] # None
  /\ held' = [held EXCEPT ![w] = None]
  /\ release' = [release EXCEPT ![w] = NoRelease]
  /\ UNCHANGED <<job, born>>

\* cancel: an active job only.
Cancel(j) ==
  /\ job[j].status \in Active
  /\ job' = [job EXCEPT ![j] = Ended(@, "cancelled")]
  /\ UNCHANGED <<born, held, release>>

Next ==
  \/ Tick
  \/ \E j \in JobIds : Enqueue(j) \/ Cancel(j)
  \/ \E w \in Workers :
       \/ Claim(w) \/ Heartbeat(w)
       \/ Finish(w, "completed") \/ Finish(w, "failed")
       \/ ReleaseRead(w) \/ ReleaseWrite(w) \/ Forget(w)

Spec == Init /\ [][Next]_vars

\* Workers poll, and no worker holds a job for ever: it finishes it, gives
\* it back or crashes.
Fairness ==
  /\ WF_vars(Tick)
  /\ WF_vars(\E w \in Workers : Claim(w))
  /\ \A w \in Workers :
       WF_vars(\/ Finish(w, "completed") \/ Finish(w, "failed")
               \/ ReleaseRead(w) \/ ReleaseWrite(w) \/ Forget(w))

FairSpec == Spec /\ Fairness

-----------------------------------------------------------------------------
(* Properties.                                                             *)

\* A lease belongs to a running job and a running job has a lease: no claim,
\* cancellation, late release or expiry leaves one without the other.  (A
\* running job without a lease, or a queued one with a live lease, is what a
\* release that overwrites another worker's claim would leave behind.)
LeaseIffRunning ==
  \A j \in JobIds : (job[j].owner # None) <=> (job[j].status = "running")

\* Retries are bounded, and a job given back always has an attempt left:
\* queued without one, it could never be claimed.
AttemptsBounded ==
  \A j \in JobIds :
    /\ job[j].attempts <= MaxAttempts
    /\ job[j].status = "queued" => job[j].attempts < MaxAttempts

\* A worker with a stale clock never takes a job whose lease still runs.
NoEarlySteal ==
  [][ \A j \in JobIds :
        (/\ job[j].status = "running" /\ job'[j].status = "running"
         /\ job'[j].attempts # job[j].attempts) => job[j].left < 0 ]_vars

Outcome ==
  [j \in JobIds |-> IF job[j].status \in Terminal THEN job[j].status ELSE "open"]

Promise == INSTANCE OneShot WITH
  Items <- JobIds, Outcomes <- Terminal, Open <- "open", outcome <- Outcome

\* A job ends once: whatever a worker that lost its lease still does, it
\* changes no job that completed, failed or was cancelled.
ImplementsOneShot == Promise!Spec

\* Retries go on: an active job ends, or is given its last attempt.
RetriesGoOn ==
  \A j \in JobIds :
    (job[j].status \in Active)
      ~> (job[j].status \in Terminal \/ OutOfAttempts(job[j]))

\* A job whose retries are exhausted ends in an inspectable failure
\* ("重试耗尽后必须产生可检查的失败状态").
JobEnds ==
  \A j \in JobIds : (job[j].status \in Active) ~> (job[j].status \in Terminal)
=============================================================================
