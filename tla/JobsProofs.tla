----------------------------- MODULE JobsProofs -----------------------------
(***************************************************************************)
(* Proofs about Jobs, for any number of jobs and workers, any retry        *)
(* budget, lease and clock lag.                                            *)
(*                                                                         *)
(* The budget is not kept by the UPDATE of release alone: whether it gives *)
(* the job back or fails it was decided by its SELECT, which other         *)
(* workers' operations may have followed.  What saves it is that the       *)
(* worker holds nothing else until the release is done, so that while it   *)
(* still owns the job nobody has counted an attempt (ReleaseInv).          *)
(***************************************************************************)
EXTENDS Jobs, LeasesProofs

\* A release under way is about the job its worker holds, and as long as
\* the worker owns that job the SELECT's view of its attempts is current.
ReleaseInv ==
  \A w \in Workers :
    /\ release[w] # NoRelease => release[w].job \in JobIds
    /\ release[w].job # None => held[w] = release[w].job
    /\ \A j \in JobIds :
         (release[w].job = j /\ job[j].owner = w) =>
            release[w].exhausted = OutOfAttempts(job[j])

IInv == TypeOK /\ LeaseIffRunning /\ AttemptsBounded /\ ReleaseInv

\* The rows are as Moved says in every state that satisfies IInv.
LEMMA RowsMoved == IInv <=> TypeOK /\ ReleaseInv /\ \A j \in JobIds : Moved(job[j])
  BY DEF IInv, TypeOK, LeaseIffRunning, AttemptsBounded, Moved

-----------------------------------------------------------------------------
(* IInv is inductive.                                                      *)

\* One job changes its row, and no worker's release is in its way.
LEMMA MoveStep ==
  ASSUME IInv, NEW j \in JobIds, NEW r, Moved(r),
         job' = [job EXCEPT ![j] = r],
         UNCHANGED <<born, held, release>>,
         r.owner = None \/ (r.owner = job[j].owner /\ r.attempts = job[j].attempts)
  PROVE  IInv'
<1>1. TypeOK'
  BY DEF IInv, TypeOK, Moved
<1>2. \A k \in JobIds : job'[k] = IF k = j THEN r ELSE job[k]
  BY DEF IInv, TypeOK
<1>3. \A k \in JobIds : Moved(job'[k])
  BY <1>2, RowsMoved
<1>4. ReleaseInv'
  BY <1>2, LeasesAssumption DEF IInv, ReleaseInv, OutOfAttempts
<1>5. LeaseIffRunning' /\ AttemptsBounded'
  BY <1>3 DEF Moved, LeaseIffRunning, AttemptsBounded
<1> QED BY <1>1, <1>4, <1>5 DEF IInv

LEMMA InitInv == Init => IInv
<1> SUFFICES ASSUME Init PROVE IInv
  OBVIOUS
<1>1. Absent \in Leasable
  BY LeasesAssumption DEF Absent, Leasable, Gone
<1>2. TypeOK
  BY <1>1, JobsAssumption DEF Init, TypeOK, NoRelease, Release
<1>3. LeaseIffRunning /\ AttemptsBounded
  BY LeasesAssumption DEF Init, Absent, LeaseIffRunning, AttemptsBounded
<1>4. ReleaseInv
  BY LeasesAssumption, JobsAssumption DEF Init, ReleaseInv, NoRelease, Absent, OutOfAttempts
<1> QED BY <1>2, <1>3, <1>4 DEF IInv

LEMMA TickStep ==
  ASSUME IInv, Tick
  PROVE  IInv'
<1>1. \A j \in JobIds : /\ Moved(job'[j])
                        /\ job'[j].owner = job[j].owner
                        /\ job'[j].attempts = job[j].attempts
  <2> TAKE j \in JobIds
  <2>1. job'[j] = Aged(job[j]) /\ job[j] \in Leasable
    BY DEF Tick, IInv, TypeOK
  <2> QED BY <2>1, RowsMoved, AgedRow
<1>2. TypeOK'
  BY <1>1 DEF IInv, TypeOK, Tick, Moved
<1>3. ReleaseInv'
  BY <1>1 DEF IInv, ReleaseInv, Tick, OutOfAttempts
<1>4. LeaseIffRunning' /\ AttemptsBounded'
  BY <1>1 DEF Moved, LeaseIffRunning, AttemptsBounded
<1> QED BY <1>2, <1>3, <1>4 DEF IInv

LEMMA EnqueueStep ==
  ASSUME IInv, NEW j \in JobIds, Enqueue(j)
  PROVE  IInv'
<1>1. Moved(Enqueued) /\ Enqueued.owner = None
  BY LeasesAssumption DEF Moved, Enqueued, Leasable, Active, Gone
<1>2. job' = [job EXCEPT ![j] = Enqueued] /\ UNCHANGED <<held, release>>
  BY DEF Enqueue
<1>3. PICK t \in 1 .. MaxBorn : born' = [born EXCEPT ![j] = t]
  BY DEF Enqueue
<1>4. TypeOK'
  BY <1>1, <1>2, <1>3, JobsAssumption DEF IInv, TypeOK, Moved
<1>5. \A k \in JobIds : job'[k] = IF k = j THEN Enqueued ELSE job[k]
  BY <1>2 DEF IInv, TypeOK
<1>6. ReleaseInv'
  BY <1>1, <1>2, <1>5, LeasesAssumption DEF IInv, ReleaseInv, OutOfAttempts
<1>7. \A k \in JobIds : Moved(job'[k])
  BY <1>1, <1>5, RowsMoved
<1>8. LeaseIffRunning' /\ AttemptsBounded'
  BY <1>7 DEF Moved, LeaseIffRunning, AttemptsBounded
<1> QED BY <1>4, <1>6, <1>8 DEF IInv

\* The new owner has no release under way, and the releases of all the
\* others lose sight of the job.
LEMMA ClaimStep ==
  ASSUME IInv, NEW w \in Workers, Claim(w)
  PROVE  IInv'
<1>1. PICK d \in Lags, j \in JobIds :
        /\ j \in Oldest(d)
        /\ job' = [job EXCEPT ![j] = Leased(job[j], w, d)]
        /\ held' = [held EXCEPT ![w] = j]
  BY DEF Claim, IInv, TypeOK, Oldest
<1>2. /\ held[w] = None
      /\ UNCHANGED <<born, release>>
      /\ j \in JobIds
      /\ job[j].attempts < MaxAttempts
  BY <1>1 DEF Claim, Oldest, Free
<1> DEFINE r == Leased(job[j], w, d)
<1>3. Moved(r) /\ r.owner = w
  BY <1>1, <1>2, LeasedRow DEF IInv, TypeOK
<1>4. job' = [job EXCEPT ![j] = r]
  BY <1>1
<1> HIDE DEF r
<1>5. \A k \in JobIds : job'[k] = IF k = j THEN r ELSE job[k]
  BY <1>4 DEF IInv, TypeOK
<1>6. TypeOK'
  BY <1>1, <1>2, <1>3, <1>4 DEF IInv, TypeOK, Moved
<1>7. release[w].job = None
  BY <1>2, JobsAssumption DEF IInv, ReleaseInv
<1>8. ReleaseInv'
  BY <1>1, <1>2, <1>3, <1>5, <1>7, JobsAssumption DEF IInv, TypeOK, ReleaseInv, OutOfAttempts
<1>9. \A k \in JobIds : Moved(job'[k])
  BY <1>3, <1>5, RowsMoved
<1>10. LeaseIffRunning' /\ AttemptsBounded'
  BY <1>9 DEF Moved, LeaseIffRunning, AttemptsBounded
<1> QED BY <1>6, <1>8, <1>10 DEF IInv

LEMMA HeartbeatStep ==
  ASSUME IInv, NEW w \in Workers, Heartbeat(w)
  PROVE  IInv'
<1>1. PICK j \in JobIds, d \in Lags : job' = [job EXCEPT ![j] = Renewed(job[j], d)]
  BY DEF Heartbeat, IInv, TypeOK
<1>2. job[j] \in Leasable /\ Moved(job[j])
  BY RowsMoved DEF IInv, TypeOK
<1> DEFINE r == Renewed(job[j], d)
<1>3. Moved(r) /\ r.owner = job[j].owner /\ r.attempts = job[j].attempts
  BY <1>2, RenewedRow
<1> HIDE DEF r
<1> QED BY <1>1, <1>3, MoveStep DEF Heartbeat, r

LEMMA FinishStep ==
  ASSUME IInv, NEW w \in Workers, NEW status \in {"completed", "failed"},
         Finish(w, status)
  PROVE  IInv'
<1>1. PICK j \in JobIds : job' = [job EXCEPT ![j] = Ended(job[j], status)]
  BY DEF Finish, IInv, TypeOK
<1>2. job[j] \in Leasable /\ Moved(job[j])
  BY RowsMoved DEF IInv, TypeOK
<1> DEFINE r == Ended(job[j], status)
<1>3. Moved(r) /\ r.owner = None
  BY <1>2, EndedRow DEF Terminal
<1> HIDE DEF r
<1> QED BY <1>1, <1>3, MoveStep DEF Finish, r

LEMMA CancelStep ==
  ASSUME IInv, NEW j \in JobIds, Cancel(j)
  PROVE  IInv'
<1>1. job' = [job EXCEPT ![j] = Ended(job[j], "cancelled")]
  BY DEF Cancel, IInv, TypeOK
<1>2. job[j] \in Leasable /\ Moved(job[j])
  BY RowsMoved DEF IInv, TypeOK
<1> DEFINE r == Ended(job[j], "cancelled")
<1>3. Moved(r) /\ r.owner = None
  BY <1>2, EndedRow DEF Terminal
<1> HIDE DEF r
<1> QED BY <1>1, <1>3, MoveStep DEF Cancel, r

LEMMA ReleaseReadStep ==
  ASSUME IInv, NEW w \in Workers, ReleaseRead(w)
  PROVE  IInv'
<1>1. PICK j \in JobIds :
        /\ held[w] = j
        /\ release' = [release EXCEPT ![w] = [job |-> j, exhausted |-> OutOfAttempts(job[j])]]
  BY DEF ReleaseRead
<1>2. UNCHANGED <<job, born, held>>
  BY DEF ReleaseRead
<1>3. OutOfAttempts(job[j]) \in BOOLEAN
  BY DEF OutOfAttempts
<1>4. TypeOK'
  BY <1>1, <1>2, <1>3 DEF IInv, TypeOK, Release
<1>5. \A v \in Workers :
        release'[v] = IF v = w THEN [job |-> j, exhausted |-> OutOfAttempts(job[j])]
                               ELSE release[v]
  BY <1>1 DEF IInv, TypeOK
<1>6. ReleaseInv'
  BY <1>1, <1>2, <1>5 DEF IInv, ReleaseInv, OutOfAttempts
<1>7. LeaseIffRunning' /\ AttemptsBounded'
  BY <1>2 DEF IInv, LeaseIffRunning, AttemptsBounded
<1> QED BY <1>4, <1>6, <1>7 DEF IInv

\* The worker lets go of a release: none of the others is concerned.
LEMMA DropStep ==
  ASSUME TypeOK, ReleaseInv, NEW w \in Workers,
         release' = [release EXCEPT ![w] = NoRelease],
         \A v \in Workers : v # w => held'[v] = held[v],
         UNCHANGED job
  PROVE  release' \in [Workers -> Release] /\ ReleaseInv'
<1>1. NoRelease \in Release /\ NoRelease.job = None
  BY DEF NoRelease, Release
<1>2. \A v \in Workers : release'[v] = IF v = w THEN NoRelease ELSE release[v]
  BY DEF TypeOK
<1>3. ReleaseInv'
  BY <1>1, <1>2, JobsAssumption DEF ReleaseInv, OutOfAttempts
<1> QED BY <1>1, <1>3 DEF TypeOK

LEMMA ForgetStep ==
  ASSUME IInv, NEW w \in Workers, Forget(w)
  PROVE  IInv'
<1>1. \A v \in Workers : v # w => held'[v] = held[v]
  BY DEF Forget, IInv, TypeOK
<1>2. release' \in [Workers -> Release] /\ ReleaseInv'
  BY <1>1, DropStep DEF Forget, IInv
<1>3. TypeOK'
  BY <1>2 DEF Forget, IInv, TypeOK
<1>4. LeaseIffRunning' /\ AttemptsBounded'
  BY DEF Forget, IInv, LeaseIffRunning, AttemptsBounded
<1> QED BY <1>2, <1>3, <1>4 DEF IInv

\* The UPDATE of release gives a job back only with an attempt left.
LEMMA ReleaseWriteStep ==
  ASSUME IInv, NEW w \in Workers, ReleaseWrite(w)
  PROVE  IInv'
<1>1. PICK j \in JobIds :
        /\ release[w].job = j
        /\ job' = IF job[j].owner = w THEN [job EXCEPT ![j] = Given(j, w)] ELSE job
  BY DEF ReleaseWrite
<1>2. /\ release' = [release EXCEPT ![w] = NoRelease]
      /\ UNCHANGED <<born, held>>
  BY DEF ReleaseWrite
<1>3. CASE job[j].owner # w
  <2>1. job' = job
    BY <1>1, <1>3
  <2>2. release' \in [Workers -> Release] /\ ReleaseInv'
    BY <1>2, <2>1, DropStep DEF IInv
  <2> QED BY <1>2, <2>1, <2>2 DEF IInv, TypeOK, LeaseIffRunning, AttemptsBounded
<1>4. CASE job[j].owner = w
  <2> DEFINE r == Given(j, w)
  <2>1. job[j] \in Leasable /\ Moved(job[j])
    BY RowsMoved DEF IInv, TypeOK
  <2>2. release[w].exhausted = OutOfAttempts(job[j])
    BY <1>1, <1>4 DEF IInv, ReleaseInv
  <2>3. Moved(r) /\ r.owner = None
    <3>1. CASE release[w].exhausted
      BY <2>1, <3>1, EndedRow DEF Given, Terminal
    <3>2. CASE ~release[w].exhausted
      BY <2>1, <2>2, <3>2, EndedRow DEF Given
    <3> QED BY <3>1, <3>2
  <2>4. job' = [job EXCEPT ![j] = r]
    BY <1>1, <1>4
  <2> HIDE DEF r
  <2>5. \A k \in JobIds : job'[k] = IF k = j THEN r ELSE job[k]
    BY <2>4 DEF IInv, TypeOK
  <2>6. \A v \in Workers : release'[v] = IF v = w THEN NoRelease ELSE release[v]
    BY <1>2 DEF IInv, TypeOK
  <2>7. TypeOK'
    BY <1>2, <2>3, <2>4 DEF IInv, TypeOK, Moved, NoRelease, Release
  <2>8. ReleaseInv'
    <3> SUFFICES ASSUME NEW v \in Workers, v # w
                 PROVE  /\ release[v] # NoRelease => release[v].job \in JobIds
                        /\ release[v].job # None => held[v] = release[v].job
                        /\ \A k \in JobIds :
                             (release[v].job = k /\ job'[k].owner = v) =>
                                release[v].exhausted = OutOfAttempts(job'[k])
      <4>1. NoRelease.job = None
        BY DEF NoRelease
      <4> QED BY <1>2, <2>6, <4>1, JobsAssumption DEF ReleaseInv, OutOfAttempts
    <3> QED BY <2>3, <2>5, LeasesAssumption DEF IInv, ReleaseInv
  <2>9. \A k \in JobIds : Moved(job'[k])
    BY <2>3, <2>5, RowsMoved
  <2>10. LeaseIffRunning' /\ AttemptsBounded'
    BY <2>9 DEF Moved, LeaseIffRunning, AttemptsBounded
  <2> QED BY <2>7, <2>8, <2>10 DEF IInv
<1> QED BY <1>3, <1>4

\* Every operation keeps IInv.
LEMMA NextInv == IInv /\ [Next]_vars => IInv'
<1>1. ASSUME IInv, Next PROVE IInv'
  BY <1>1, TickStep, EnqueueStep, CancelStep, ClaimStep, HeartbeatStep, FinishStep,
     ReleaseReadStep, ReleaseWriteStep, ForgetStep
  DEF Next
<1>2. ASSUME IInv, UNCHANGED vars PROVE IInv'
  BY <1>2 DEF vars, IInv, TypeOK, LeaseIffRunning, AttemptsBounded, ReleaseInv, OutOfAttempts
<1> QED BY <1>1, <1>2

\* The strengthened invariant holds in every reachable state.
THEOREM Invariance == Spec => []IInv
  BY InitInv, NextInv, PTL DEF Spec

\* Type correctness.
THEOREM TypeCorrect == Spec => []TypeOK
<1>1. IInv => TypeOK
  BY DEF IInv
<1> QED BY <1>1, Invariance, PTL

\* A job is leased exactly while it runs.
THEOREM LeasedWhileRunning == Spec => []LeaseIffRunning
<1>1. IInv => LeaseIffRunning
  BY DEF IInv
<1> QED BY <1>1, Invariance, PTL

\* The retry budget is kept, although release decides by what it read
\* before its UPDATE, and every queued job can still be claimed.
THEOREM BudgetKept == Spec => []AttemptsBounded
<1>1. IInv => AttemptsBounded
  BY DEF IInv
<1> QED BY <1>1, Invariance, PTL

-----------------------------------------------------------------------------
(* What one step may do to a job.                                          *)

\* A job keeps its status and its attempts, or it is not over and is queued
\* or ended, or a worker takes it, from a running one only after the lease.
JobStep(j) ==
  \/ job'[j].status = job[j].status /\ job'[j].attempts = job[j].attempts
  \/ job[j].status \notin Terminal /\ job'[j].status \in {"queued"} \cup Terminal
  \/ /\ job[j].status \in Active
     /\ job'[j].status = "running"
     /\ job[j].status = "running" => job[j].left < 0

LEMMA JobSteps ==
  ASSUME IInv, Next, NEW j \in JobIds
  PROVE  JobStep(j)
<1>1. CASE UNCHANGED job
  BY <1>1 DEF JobStep
<1>2. ASSUME NEW k \in JobIds, NEW status \in {"queued"} \cup Terminal,
             job' = [job EXCEPT ![k] = Ended(job[k], status)],
             job[k].status \notin Terminal
      PROVE  JobStep(j)
  <2>1. job'[j] = IF j = k THEN Ended(job[k], status) ELSE job[j]
    BY <1>2 DEF IInv, TypeOK
  <2> QED BY <1>2, <2>1 DEF JobStep, Ended
<1>3. CASE Tick
  <2>1. job'[j] = Aged(job[j])
    BY <1>3 DEF Tick
  <2> QED BY <2>1 DEF JobStep, Aged
<1>4. ASSUME NEW k \in JobIds, Enqueue(k) PROVE JobStep(j)
  <2>1. job'[j] = IF j = k THEN Enqueued ELSE job[j]
    BY <1>4 DEF Enqueue, IInv, TypeOK
  <2>2. job[k].status \notin Terminal
    BY <1>4 DEF Enqueue, Absent, Terminal
  <2> QED BY <2>1, <2>2 DEF JobStep, Enqueued
<1>5. ASSUME NEW k \in JobIds, Cancel(k) PROVE JobStep(j)
  BY <1>2, <1>5 DEF Cancel, Active, Terminal, IInv, TypeOK
<1>6. ASSUME NEW w \in Workers, Claim(w) PROVE JobStep(j)
  <2>1. PICK d \in Lags, k \in JobIds :
          k \in Oldest(d) /\ job' = [job EXCEPT ![k] = Leased(job[k], w, d)]
    BY <1>6 DEF Claim, IInv, TypeOK, Oldest
  <2>2. job'[j] = IF j = k THEN Leased(job[k], w, d) ELSE job[j]
    BY <2>1 DEF IInv, TypeOK
  <2>3. job[k].status = "running" => job[k].left < 0
    <3>1. Free(job[k], d) /\ job[k].left \in Int
      BY <2>1, LeasesAssumption DEF Oldest, IInv, TypeOK, Leasable, Gone
    <3>2. d \in Nat
      BY DEF Lags
    <3> QED BY <3>1, <3>2 DEF Free, Expired, IInv, LeaseIffRunning
  <2>4. job[k].status \in Active
    BY <2>1 DEF Oldest, Free
  <2> QED BY <2>2, <2>3, <2>4 DEF JobStep, Leased
<1>7. ASSUME NEW w \in Workers, Heartbeat(w) PROVE JobStep(j)
  <2>1. PICK k \in JobIds, d \in Lags : job' = [job EXCEPT ![k] = Renewed(job[k], d)]
    BY <1>7 DEF Heartbeat, IInv, TypeOK
  <2>2. job'[j] = IF j = k THEN Renewed(job[k], d) ELSE job[j]
    BY <2>1 DEF IInv, TypeOK
  <2> QED BY <2>2 DEF JobStep, Renewed
<1>8. ASSUME NEW w \in Workers, NEW status \in {"completed", "failed"}, Finish(w, status)
      PROVE  JobStep(j)
  <2>1. PICK k \in JobIds : /\ job' = [job EXCEPT ![k] = Ended(job[k], status)]
                            /\ job[k].status = "running"
    BY <1>8 DEF Finish, Valid, IInv, TypeOK
  <2> QED BY <1>2, <2>1 DEF Terminal
<1>9. ASSUME NEW w \in Workers, ReleaseWrite(w) PROVE JobStep(j)
  <2>1. PICK k \in JobIds :
          job' = IF job[k].owner = w THEN [job EXCEPT ![k] = Given(k, w)] ELSE job
    BY <1>9 DEF ReleaseWrite
  <2>2. CASE job[k].owner = w
    <3>1. job[k].status = "running"
      BY <2>2, LeasesAssumption DEF IInv, LeaseIffRunning
    <3> QED BY <1>2, <2>1, <2>2, <3>1 DEF Given, Terminal
  <2> QED BY <1>1, <2>1, <2>2
<1> QED
  BY <1>1, <1>3, <1>4, <1>5, <1>6, <1>7, <1>8, <1>9
  DEF Next, ReleaseRead, Forget

\* A job is taken from a running worker only after its lease, by whatever
\* clock the new worker has.
THEOREM NoLeaseStolen == Spec => NoEarlySteal
<1>1. IInv /\ [Next]_vars =>
        [ \A j \in JobIds :
            (/\ job[j].status = "running" /\ job'[j].status = "running"
             /\ job'[j].attempts # job[j].attempts) => job[j].left < 0 ]_vars
  BY JobSteps DEF JobStep, Terminal
<1> QED BY <1>1, Invariance, PTL DEF Spec, NoEarlySteal

\* The store implements OneShot: a job ends once, whatever workers that
\* lost their lease and releases that were overtaken still do.
THEOREM Implementation == Spec => ImplementsOneShot
<1>1. Init => Promise!Init
  BY DEF Init, Promise!Init, Outcome, Absent, Terminal
<1>2. IInv /\ [Next]_vars => [Promise!Next]_Outcome
  <2> SUFFICES ASSUME IInv, Next PROVE Promise!Next \/ UNCHANGED Outcome
    BY DEF vars, Outcome
  <2>1. \A j \in JobIds :
          /\ Outcome'[j] \in Terminal \cup {"open"}
          /\ Outcome[j] # "open" => Outcome'[j] = Outcome[j]
    <3> TAKE j \in JobIds
    <3>1. JobStep(j)
      BY JobSteps
    <3> QED BY <3>1 DEF JobStep, Outcome, Terminal, Active
  <2>2. Outcome' \in [JobIds -> Terminal \cup {"open"}]
    BY <2>1 DEF Outcome
  <2> QED BY <2>1, <2>2 DEF Promise!Next
<1> QED BY <1>1, <1>2, Invariance, PTL DEF Spec, ImplementsOneShot, Promise!Spec
=============================================================================
