--------------------------- MODULE ScanJobsProofs ---------------------------
(***************************************************************************)
(* Proofs about ScanJobs, for any number of scans, units, workers and      *)
(* readers, any retry budget, lease and clock lag.                         *)
(*                                                                         *)
(* They come in two parts.  That the counters of a scan are exact and that *)
(* no lease is stolen holds however many processes open the database       *)
(* (BaseInv): every transaction that moves a unit to or from an end counts *)
(* the units of its scan anew.  That a scan agrees with its units, that    *)
(* the retry budget is kept and that ends are final needs the write lock   *)
(* that a single process has around the statements of a transaction        *)
(* (LockedInv): without it the UPDATE of release_or_fail moves a unit that *)
(* a cancellation has ended meanwhile.                                     *)
(***************************************************************************)
EXTENDS ScanJobs, LeasesProofs, FiniteSetTheorems

\* A unit is leased exactly while it runs.
LeaseIffRunning == \A u \in Units : LeaseMatches(unit[u])

BaseInv == TypeOK /\ LeaseIffRunning /\ CountersExact

-----------------------------------------------------------------------------
(* Counting the units of a scan.                                           *)

LEMMA CountType ==
  ASSUME NEW un, NEW status, NEW s
  PROVE  /\ IsFiniteSet(With(un, status, s))
         /\ Cardinality(With(un, status, s)) \in Nat
<1>1. With(un, status, s) \subseteq Units
  BY DEF With, UnitsOf
<1> QED BY <1>1, ScanJobsAssumption, FS_Subset, FS_CardinalityType

\* A count does not change when no unit of the scan enters or leaves it.
LEMMA CountKept ==
  ASSUME NEW un, NEW vn, NEW s, NEW status,
         \A u \in UnitsOf(s) : un[u].status = status <=> vn[u].status = status
  PROVE  Cardinality(With(un, status, s)) = Cardinality(With(vn, status, s))
<1>1. With(un, status, s) = With(vn, status, s)
  BY DEF With
<1> QED BY <1>1

LEMMA RefreshedType ==
  ASSUME NEW j \in Job, NEW s, NEW un
  PROVE  /\ Refreshed(j, s, un) \in Job
         /\ Refreshed(j, s, un).completed = Cardinality(With(un, "completed", s))
         /\ Refreshed(j, s, un).failed = Cardinality(With(un, "failed", s))
  BY CountType DEF Refreshed, Job, Terminal

\* The counters of the scan s are exact.
Counted(j, s, un) ==
  /\ j.completed = Cardinality(With(un, "completed", s))
  /\ j.failed = Cardinality(With(un, "failed", s))

\* Rows that neither enter nor leave an end keep the counters exact.
LEMMA CountedKept ==
  ASSUME NEW j, NEW s, NEW un, NEW vn, Counted(j, s, un),
         \A u \in UnitsOf(s) :
           vn[u].status = un[u].status
           \/ (un[u].status \notin {"completed", "failed"}
               /\ vn[u].status \notin {"completed", "failed"})
  PROVE  Counted(j, s, vn)
<1>1. Cardinality(With(un, "completed", s)) = Cardinality(With(vn, "completed", s))
  BY CountKept
<1>2. Cardinality(With(un, "failed", s)) = Cardinality(With(vn, "failed", s))
  BY CountKept
<1> QED BY <1>1, <1>2 DEF Counted

LEMMA CountersCounted == CountersExact <=> \A s \in Scans : Counted(job[s], s, unit)
  BY DEF CountersExact, Counted

-----------------------------------------------------------------------------
(* What the operations do to the rows.                                     *)

\* A claim reaps and takes nothing, or takes a unit that was free.
ClaimedFrom(w, S, d) ==
  \/ /\ unit' = UnitsReaped(S, d)
     /\ job' = JobsReaped(S, d)
     /\ UNCHANGED held
  \/ \E u \in Units :
       /\ u \notin Reaped(S, d)
       /\ Free(unit[u], d)
       /\ JobsReaped(S, d)[ScanOf[u]].status \in Active
       /\ unit' = [UnitsReaped(S, d) EXCEPT ![u] = Leased(unit[u], w, d)]
       /\ job' = [JobsReaped(S, d) EXCEPT ![ScanOf[u]].status = "running"]
       /\ held' = [held EXCEPT ![w] = u]

LEMMA ClaimView ==
  ASSUME BaseInv, NEW w \in Workers, NEW S, NEW d \in Lags, ClaimFrom(w, S, d)
  PROVE  ClaimedFrom(w, S, d)
<1>1. \/ /\ unit' = UnitsReaped(S, d)
         /\ job' = JobsReaped(S, d)
         /\ UNCHANGED held
      \/ \E u \in FirstClaimable(S, d) :
           /\ unit' = [UnitsReaped(S, d) EXCEPT ![u] = Leased(unit[u], w, d)]
           /\ job' = [JobsReaped(S, d) EXCEPT ![ScanOf[u]].status = "running"]
           /\ held' = [held EXCEPT ![w] = u]
  BY DEF ClaimFrom
<1>2. ASSUME NEW u \in FirstClaimable(S, d)
      PROVE  /\ u \in Units
             /\ u \notin Reaped(S, d)
             /\ Free(unit[u], d)
             /\ JobsReaped(S, d)[ScanOf[u]].status \in Active
  <2>1. u \in Units /\ Claimable(S, u, d)
    BY DEF FirstClaimable
  <2>2. Free(UnitsReaped(S, d)[u], d) /\ JobsReaped(S, d)[ScanOf[u]].status \in Active
    BY <2>1 DEF Claimable
  <2>3. UnitsReaped(S, d)[u] = IF u \in Reaped(S, d) THEN Ended(unit[u], "failed") ELSE unit[u]
    BY <2>1 DEF UnitsReaped
  <2>4. u \notin Reaped(S, d)
    BY <2>2, <2>3 DEF Free, Ended, Active
  <2> QED BY <2>1, <2>2, <2>3, <2>4
<1> QED BY <1>1, <1>2 DEF ClaimedFrom

\* Reaping fails running units and counts the units of their scans anew.
LEMMA ReapedRows ==
  ASSUME BaseInv, NEW S, NEW d \in Lags
  PROVE  /\ \A u \in Units :
              IF u \in Reaped(S, d)
              THEN /\ unit[u].status = "running"
                   /\ UnitsReaped(S, d)[u] = Ended(unit[u], "failed")
              ELSE UnitsReaped(S, d)[u] = unit[u]
         /\ UnitsReaped(S, d) \in [Units -> Leasable]
         /\ \A u \in Units : LeaseMatches(UnitsReaped(S, d)[u])
         /\ JobsReaped(S, d) \in [Scans -> Job]
         /\ \A s \in Scans : Counted(JobsReaped(S, d)[s], s, UnitsReaped(S, d))
<1>1. \A u \in Units :
        IF u \in Reaped(S, d)
        THEN /\ unit[u].status = "running"
             /\ UnitsReaped(S, d)[u] = Ended(unit[u], "failed")
        ELSE UnitsReaped(S, d)[u] = unit[u]
  BY DEF UnitsReaped, Reaped, Exhausted
<1>2. \A u \in Units : /\ Ended(unit[u], "failed") \in Leasable
                       /\ LeaseMatches(Ended(unit[u], "failed"))
  BY EndedRow DEF BaseInv, TypeOK, Terminal, LeaseMatches
<1>3. UnitsReaped(S, d) \in [Units -> Leasable]
  BY <1>2 DEF UnitsReaped, BaseInv, TypeOK
<1>4. \A u \in Units : LeaseMatches(UnitsReaped(S, d)[u])
  BY <1>1, <1>2 DEF BaseInv, LeaseIffRunning
<1>5. JobsReaped(S, d) \in [Scans -> Job]
  BY RefreshedType DEF JobsReaped, BaseInv, TypeOK
<1>6. ASSUME NEW s \in Scans PROVE Counted(JobsReaped(S, d)[s], s, UnitsReaped(S, d))
  <2>1. CASE s \in S
    <3>1. JobsReaped(S, d)[s] = Refreshed(job[s], s, UnitsReaped(S, d))
      BY <2>1 DEF JobsReaped
    <3> QED BY <3>1, RefreshedType DEF BaseInv, TypeOK, Counted
  <2>2. CASE s \notin S
    <3>1. JobsReaped(S, d)[s] = job[s]
      BY <2>2 DEF JobsReaped
    <3>2. \A u \in UnitsOf(s) : UnitsReaped(S, d)[u] = unit[u]
      BY <2>2, <1>1 DEF UnitsOf, Reaped
    <3>3. Counted(job[s], s, unit)
      BY CountersCounted DEF BaseInv
    <3>4. Counted(job[s], s, UnitsReaped(S, d))
      BY <3>2, <3>3, CountedKept
    <3> QED BY <3>1, <3>4
  <2> QED BY <2>1, <2>2
<1> QED BY <1>1, <1>3, <1>4, <1>5, <1>6

\* One unit of the scan is ended or given back, and the scan refreshed.
LEMMA MoveStep ==
  ASSUME BaseInv, NEW u \in Units, NEW r \in Leasable, LeaseMatches(r),
         unit' = [unit EXCEPT ![u] = r],
         job' = [job EXCEPT ![ScanOf[u]] = Refreshed(job[ScanOf[u]], ScanOf[u], unit')]
  PROVE  /\ unit' \in [Units -> Leasable]
         /\ job' \in [Scans -> Job]
         /\ LeaseIffRunning'
         /\ CountersExact'
<1> DEFINE t == ScanOf[u]
<1>0. t \in Scans
  BY ScanJobsAssumption
<1> DEFINE j == Refreshed(job[t], t, unit')
<1>1. j \in Job /\ Counted(j, t, unit')
  BY <1>0, RefreshedType DEF BaseInv, TypeOK, Counted
<1>2. \A v \in Units : unit'[v] = IF v = u THEN r ELSE unit[v]
  BY DEF BaseInv, TypeOK
<1>3. job' = [job EXCEPT ![t] = j]
  OBVIOUS
<1> HIDE DEF j, t
<1>4. \A s \in Scans : job'[s] = IF s = t THEN j ELSE job[s]
  BY <1>3 DEF BaseInv, TypeOK
<1>5. LeaseIffRunning'
  BY <1>2 DEF BaseInv, LeaseIffRunning
<1>6. \A s \in Scans : Counted(job'[s], s, unit')
  <2> TAKE s \in Scans
  <2>1. CASE s = t
    BY <2>1, <1>1, <1>4
  <2>2. CASE s # t
    <3>1. \A v \in UnitsOf(s) : unit'[v] = unit[v]
      BY <1>2, <2>2 DEF UnitsOf, t
    <3>2. Counted(job[s], s, unit)
      BY CountersCounted DEF BaseInv
    <3>3. Counted(job[s], s, unit')
      BY <3>1, <3>2, CountedKept
    <3> QED BY <3>3, <2>2, <1>4
  <2> QED BY <2>1, <2>2
<1>7. CountersExact'
  BY <1>6 DEF CountersExact, Counted
<1>8. unit' \in [Units -> Leasable] /\ job' \in [Scans -> Job]
  BY <1>0, <1>1, <1>3 DEF BaseInv, TypeOK
<1> QED BY <1>5, <1>7, <1>8

-----------------------------------------------------------------------------
(* BaseInv is inductive, however many processes there are.                 *)

LEMMA InitBase == Init => BaseInv
<1> SUFFICES ASSUME Init PROVE BaseInv
  OBVIOUS
<1>1. TypeOK
  BY AbsentRow, ScanJobsAssumption
  DEF Init, TypeOK, NoJob, Job, NoRelease, Release, NoReport, Report, Moved
<1>2. LeaseIffRunning
  BY AbsentRow DEF Init, LeaseIffRunning, LeaseMatches
<1>3. ASSUME NEW s \in Scans PROVE Counted(job[s], s, unit)
  <2>1. With(unit, "completed", s) = {} /\ With(unit, "failed", s) = {}
    BY DEF Init, With, UnitsOf, Absent
  <2> QED BY <2>1, FS_EmptySet DEF Init, NoJob, Counted
<1> QED BY <1>1, <1>2, <1>3, CountersCounted DEF BaseInv

LEMMA TickBase ==
  ASSUME BaseInv, Tick
  PROVE  BaseInv'
<1>1. \A u \in Units : /\ unit'[u] \in Leasable
                       /\ unit'[u].status = unit[u].status
                       /\ unit'[u].owner = unit[u].owner
  BY AgedRow DEF Tick, BaseInv, TypeOK
<1>2. TypeOK'
  BY <1>1 DEF BaseInv, TypeOK, Tick
<1>3. LeaseIffRunning'
  BY <1>1 DEF BaseInv, LeaseIffRunning, LeaseMatches
<1>4. \A s \in Scans : Counted(job'[s], s, unit')
  <2> TAKE s \in Scans
  <2>1. Counted(job[s], s, unit) /\ job' = job
    BY CountersCounted DEF BaseInv, Tick
  <2>2. Counted(job[s], s, unit')
    BY <1>1, <2>1, CountedKept DEF UnitsOf
  <2> QED BY <2>1, <2>2
<1>5. CountersExact'
  BY <1>4 DEF CountersExact, Counted
<1> QED BY <1>2, <1>3, <1>5 DEF BaseInv

\* A scan is created with nothing counted.
LEMMA CreateBase ==
  ASSUME BaseInv, NEW s \in Scans, CreateScan(s)
  PROVE  BaseInv'
<1>1. PICK b \in 1 .. Cardinality(Scans) :
        job' = [job EXCEPT ![s] = [NoJob EXCEPT !.status = "queued", !.born = b]]
  BY DEF CreateScan
<1> DEFINE j == [NoJob EXCEPT !.status = "queued", !.born = b]
<1>2. j \in Job /\ j.completed = 0 /\ j.failed = 0
  <2>1. b \in Nat
    BY ScanJobsAssumption, FS_CardinalityType
  <2> QED BY <2>1 DEF NoJob, Job, Active
<1> HIDE DEF j
<1>3. \A t \in Scans : job'[t] = IF t = s THEN j ELSE job[t]
  BY <1>1 DEF BaseInv, TypeOK, j
<1>4. \A u \in Units : unit'[u] = IF ScanOf[u] = s THEN Enqueued ELSE unit[u]
  BY DEF CreateScan
<1>5. job' \in [Scans -> Job]
  BY <1>1, <1>2 DEF BaseInv, TypeOK, j
<1>6. unit' \in [Units -> Leasable]
  BY EnqueuedRow DEF CreateScan, BaseInv, TypeOK, Moved
<1>7. TypeOK'
  BY <1>5, <1>6 DEF BaseInv, TypeOK, CreateScan
<1>8. LeaseIffRunning'
  BY <1>4, EnqueuedRow DEF BaseInv, LeaseIffRunning, LeaseMatches
<1>9. \A t \in Scans : Counted(job'[t], t, unit')
  <2> TAKE t \in Scans
  <2>1. CASE t = s
    <3>1. With(unit', "completed", s) = {} /\ With(unit', "failed", s) = {}
      BY <1>4, EnqueuedRow DEF With, UnitsOf
    <3> QED BY <1>2, <1>3, <2>1, <3>1, FS_EmptySet DEF Counted
  <2>2. CASE t # s
    <3>1. Counted(job[t], t, unit)
      BY CountersCounted DEF BaseInv
    <3>2. \A u \in UnitsOf(t) : unit'[u] = unit[u]
      BY <1>4, <2>2 DEF UnitsOf
    <3>3. Counted(job[t], t, unit')
      BY <3>1, <3>2, CountedKept
    <3> QED BY <1>3, <2>2, <3>3
  <2> QED BY <2>1, <2>2
<1>10. CountersExact'
  BY <1>9 DEF CountersExact, Counted
<1> QED BY <1>7, <1>8, <1>10 DEF BaseInv

\* A cancellation leaves the counters: it ends no unit as completed or failed.
LEMMA CancelBase ==
  ASSUME BaseInv, NEW s \in Scans, Cancel(s)
  PROVE  BaseInv'
<1>1. \A u \in Units :
        unit'[u] = IF ScanOf[u] = s /\ unit[u].status \in Active
                   THEN Ended(unit[u], "cancelled") ELSE unit[u]
  BY DEF Cancel
<1>2. \A u \in Units : /\ Ended(unit[u], "cancelled") \in Leasable
                       /\ Ended(unit[u], "cancelled").status = "cancelled"
                       /\ LeaseMatches(Ended(unit[u], "cancelled"))
  BY EndedRow DEF BaseInv, TypeOK, Terminal, LeaseMatches
<1>3. unit' \in [Units -> Leasable]
  BY <1>2 DEF Cancel, BaseInv, TypeOK
<1>4. job' \in [Scans -> Job]
  BY DEF Cancel, BaseInv, TypeOK, Job, Terminal
<1>5. TypeOK'
  BY <1>3, <1>4 DEF BaseInv, TypeOK, Cancel
<1>6. LeaseIffRunning'
  BY <1>1, <1>2 DEF BaseInv, LeaseIffRunning
<1>7. \A t \in Scans : Counted(job'[t], t, unit')
  <2> TAKE t \in Scans
  <2>1. Counted(job[t], t, unit)
    BY CountersCounted DEF BaseInv
  <2>2. job'[t].completed = job[t].completed /\ job'[t].failed = job[t].failed
    BY DEF Cancel, BaseInv, TypeOK, Job
  <2>3. \A u \in UnitsOf(t) :
          unit'[u].status = unit[u].status
          \/ (unit[u].status \notin {"completed", "failed"}
              /\ unit'[u].status \notin {"completed", "failed"})
    BY <1>1, <1>2 DEF UnitsOf, Active
  <2>4. Counted(job[t], t, unit')
    BY <2>1, <2>3, CountedKept
  <2> QED BY <2>2, <2>4 DEF Counted
<1>8. CountersExact'
  BY <1>7 DEF CountersExact, Counted
<1> QED BY <1>5, <1>6, <1>8 DEF BaseInv

\* Reaping counts anew, and taking a unit that was active changes no count.
LEMMA ClaimFromBase ==
  ASSUME BaseInv, NEW w \in Workers, NEW S, NEW d \in Lags, ClaimFrom(w, S, d),
         release' \in [Workers -> Release], UNCHANGED <<result, report>>
  PROVE  BaseInv'
<1>1. ClaimedFrom(w, S, d)
  BY ClaimView
<1>2. release' \in [Workers -> Release] /\ UNCHANGED <<result, report>>
  OBVIOUS
<1> DEFINE un == UnitsReaped(S, d)
           jn == JobsReaped(S, d)
<1>3. /\ \A u \in Units : u \notin Reaped(S, d) => un[u] = unit[u]
      /\ un \in [Units -> Leasable]
      /\ \A u \in Units : LeaseMatches(un[u])
      /\ jn \in [Scans -> Job]
      /\ \A s \in Scans : Counted(jn[s], s, un)
  BY ReapedRows
<1>4. CASE unit' = un /\ job' = jn /\ UNCHANGED held
  <2>1. TypeOK'
    BY <1>2, <1>3, <1>4 DEF BaseInv, TypeOK
  <2>2. LeaseIffRunning'
    BY <1>3, <1>4 DEF LeaseIffRunning
  <2>3. \A s \in Scans : Counted(job'[s], s, unit')
    BY <1>3, <1>4
  <2>4. CountersExact'
    BY <2>3 DEF CountersExact, Counted
  <2> QED BY <2>1, <2>2, <2>4 DEF BaseInv
<1>5. ASSUME NEW u \in Units, u \notin Reaped(S, d), Free(unit[u], d),
             unit' = [un EXCEPT ![u] = Leased(unit[u], w, d)],
             job' = [jn EXCEPT ![ScanOf[u]].status = "running"],
             held' = [held EXCEPT ![w] = u]
      PROVE  BaseInv'
  <2> DEFINE r == Leased(unit[u], w, d)
             t == ScanOf[u]
  <2>0. t \in Scans /\ unit[u] \in Leasable /\ unit[u].status \in Active
    BY <1>5, ScanJobsAssumption DEF BaseInv, TypeOK, Free
  <2>1. r \in Leasable /\ LeaseMatches(r) /\ r.status = "running"
    BY <1>5, <2>0, LeasedRow DEF Moved, LeaseMatches, Free
  <2>2. un[u] = unit[u]
    BY <1>3, <1>5
  <2>3. unit' = [un EXCEPT ![u] = r] /\ job' = [jn EXCEPT ![t].status = "running"]
    BY <1>5
  <2> HIDE DEF r, t, un, jn
  <2>4. unit' \in [Units -> Leasable]
    BY <1>3, <2>1, <2>3
  <2>5. job' \in [Scans -> Job]
    BY <1>3, <2>3 DEF Job, Active
  <2>6. held' \in [Workers -> Units \cup {None}]
    BY <1>5 DEF BaseInv, TypeOK
  <2>7. TypeOK'
    BY <1>2, <2>4, <2>5, <2>6 DEF BaseInv, TypeOK
  <2>8. \A v \in Units : unit'[v] = IF v = u THEN r ELSE un[v]
    BY <1>3, <2>3
  <2>9. LeaseIffRunning'
    BY <1>3, <2>1, <2>8 DEF LeaseIffRunning
  <2>10. \A s \in Scans : Counted(job'[s], s, unit')
    <3> TAKE s \in Scans
    <3>1. job'[s].completed = jn[s].completed /\ job'[s].failed = jn[s].failed
      BY <1>3, <2>3 DEF Job
    <3>2. \A v \in UnitsOf(s) :
            unit'[v].status = un[v].status
            \/ (un[v].status \notin {"completed", "failed"}
                /\ unit'[v].status \notin {"completed", "failed"})
      BY <2>0, <2>1, <2>2, <2>8 DEF UnitsOf, Active
    <3>3. Counted(jn[s], s, unit')
      BY <1>3, <3>2, CountedKept
    <3> QED BY <3>1, <3>3 DEF Counted
  <2>11. CountersExact'
    BY <2>10 DEF CountersExact, Counted
  <2> QED BY <2>7, <2>9, <2>11 DEF BaseInv
<1> QED BY <1>1, <1>4, <1>5 DEF ClaimedFrom

LEMMA ClaimBase ==
  ASSUME BaseInv, NEW w \in Workers, Claim(w)
  PROVE  BaseInv'
<1>1. release' \in [Workers -> Release] /\ UNCHANGED <<result, report>>
  BY DEF Claim, BaseInv, TypeOK
<1>2. \E d \in Lags : ClaimFrom(w, {}, d)
  BY DEF Claim
<1> QED BY <1>1, <1>2, ClaimFromBase

LEMMA ReapReadBase ==
  ASSUME BaseInv, NEW w \in Workers, ReapRead(w)
  PROVE  BaseInv'
<1>1. PICK d \in Lags :
        release' = [release EXCEPT ![w] = [NoRelease EXCEPT !.scans = ScansRead(d)]]
  BY DEF ReapRead
<1>2. ScansRead(d) \in SUBSET Scans
  BY ScanJobsAssumption DEF ScansRead, Exhausted
<1>3. [NoRelease EXCEPT !.scans = ScansRead(d)] \in Release
  BY <1>2 DEF NoRelease, Release
<1>4. UNCHANGED <<job, unit, result, held, report>>
  BY DEF ReapRead
<1>5. TypeOK'
  BY <1>1, <1>3, <1>4 DEF BaseInv, TypeOK
<1>6. LeaseIffRunning' /\ CountersExact'
  BY <1>4 DEF BaseInv, LeaseIffRunning, CountersExact, With
<1> QED BY <1>5, <1>6 DEF BaseInv

LEMMA ReapWriteBase ==
  ASSUME BaseInv, NEW w \in Workers, ReapWrite(w)
  PROVE  BaseInv'
<1>1. NoRelease \in Release
  BY DEF NoRelease, Release
<1>2. release' \in [Workers -> Release] /\ UNCHANGED <<result, report>>
  BY <1>1 DEF ReapWrite, BaseInv, TypeOK
<1>3. \E d \in Lags : ClaimFrom(w, release[w].scans, d)
  BY DEF ReapWrite
<1> QED BY <1>2, <1>3, ClaimFromBase

LEMMA HeartbeatBase ==
  ASSUME BaseInv, NEW w \in Workers, Heartbeat(w)
  PROVE  BaseInv'
<1>1. PICK u \in Units, d \in Lags : unit' = [unit EXCEPT ![u] = Renewed(unit[u], d)]
  BY DEF Heartbeat, BaseInv, TypeOK
<1> DEFINE r == Renewed(unit[u], d)
<1>2. /\ r \in Leasable
      /\ r.status = unit[u].status
      /\ r.owner = unit[u].owner
  BY RenewedRow DEF BaseInv, TypeOK
<1>3. \A v \in Units : unit'[v] = IF v = u THEN r ELSE unit[v]
  BY <1>1 DEF BaseInv, TypeOK
<1> HIDE DEF r
<1>4. unit' \in [Units -> Leasable]
  BY <1>1, <1>2 DEF BaseInv, TypeOK, r
<1>5. TypeOK'
  BY <1>4 DEF BaseInv, TypeOK, Heartbeat
<1>6. LeaseIffRunning'
  BY <1>2, <1>3 DEF BaseInv, LeaseIffRunning, LeaseMatches
<1>7. \A s \in Scans : Counted(job'[s], s, unit')
  <2> TAKE s \in Scans
  <2>1. Counted(job[s], s, unit) /\ job' = job
    BY CountersCounted DEF BaseInv, Heartbeat
  <2>2. \A v \in UnitsOf(s) : unit'[v].status = unit[v].status
    BY <1>2, <1>3 DEF UnitsOf
  <2>3. Counted(job[s], s, unit')
    BY <2>1, <2>2, CountedKept
  <2> QED BY <2>1, <2>3
<1>8. CountersExact'
  BY <1>7 DEF CountersExact, Counted
<1> QED BY <1>5, <1>6, <1>8 DEF BaseInv

LEMMA CompleteBase ==
  ASSUME BaseInv, NEW w \in Workers, Complete(w)
  PROVE  BaseInv'
<1>1. PICK u \in Units, hash \in Results :
        /\ unit' = [unit EXCEPT ![u] = Ended(unit[u], "completed")]
        /\ result' = [result EXCEPT ![u] = hash]
        /\ job' = [job EXCEPT ![ScanOf[u]] = Refreshed(job[ScanOf[u]], ScanOf[u], unit')]
  BY DEF Complete, BaseInv, TypeOK
<1>2. /\ Ended(unit[u], "completed") \in Leasable
      /\ LeaseMatches(Ended(unit[u], "completed"))
  BY EndedRow DEF BaseInv, TypeOK, Terminal, LeaseMatches
<1>3. /\ unit' \in [Units -> Leasable]
      /\ job' \in [Scans -> Job]
      /\ LeaseIffRunning'
      /\ CountersExact'
  BY <1>1, <1>2, MoveStep
<1>4. TypeOK'
  BY <1>1, <1>3 DEF BaseInv, TypeOK, Complete
<1> QED BY <1>3, <1>4 DEF BaseInv

LEMMA ReleaseReadBase ==
  ASSUME BaseInv, NEW w \in Workers, ReleaseRead(w)
  PROVE  BaseInv'
<1>1. PICK u \in Units :
        release' = [release EXCEPT ![w] =
                      [unit |-> u, exhausted |-> OutOfAttempts(unit[u]), scans |-> {}]]
  BY DEF ReleaseRead
<1>2. OutOfAttempts(unit[u]) \in BOOLEAN
  BY DEF OutOfAttempts
<1>3. UNCHANGED <<job, unit, result, held, report>>
  BY DEF ReleaseRead
<1>4. TypeOK'
  BY <1>1, <1>2, <1>3 DEF BaseInv, TypeOK, Release
<1>5. LeaseIffRunning' /\ CountersExact'
  BY <1>3 DEF BaseInv, LeaseIffRunning, CountersExact, With
<1> QED BY <1>4, <1>5 DEF BaseInv

LEMMA ReleaseWriteBase ==
  ASSUME BaseInv, NEW w \in Workers, ReleaseWrite(w)
  PROVE  BaseInv'
<1> DEFINE status == IF release[w].exhausted THEN "failed" ELSE "queued"
<1>1. PICK u \in Units :
        /\ unit' = [unit EXCEPT ![u] = Ended(unit[u], status)]
        /\ job' = [job EXCEPT ![ScanOf[u]] = Refreshed(job[ScanOf[u]], ScanOf[u], unit')]
  BY DEF ReleaseWrite, BaseInv, TypeOK
<1>2. status \in {"queued"} \cup Terminal
  BY DEF Terminal
<1> HIDE DEF status
<1>3. Ended(unit[u], status) \in Leasable /\ LeaseMatches(Ended(unit[u], status))
  BY <1>2, EndedRow DEF BaseInv, TypeOK, LeaseMatches
<1>4. /\ unit' \in [Units -> Leasable]
      /\ job' \in [Scans -> Job]
      /\ LeaseIffRunning'
      /\ CountersExact'
  BY <1>1, <1>3, MoveStep
<1>5. NoRelease \in Release
  BY DEF NoRelease, Release
<1>6. release' \in [Workers -> Release] /\ UNCHANGED <<result, held, report>>
  BY <1>5 DEF ReleaseWrite, BaseInv, TypeOK
<1>7. TypeOK'
  BY <1>4, <1>6 DEF BaseInv, TypeOK
<1> QED BY <1>4, <1>7 DEF BaseInv

\* The rows do not change when a worker forgets or a reader reads.
LEMMA RowsKept ==
  ASSUME BaseInv, UNCHANGED <<job, unit, result>>, held' \in [Workers -> Units \cup {None}],
         release' \in [Workers -> Release], report' \in [Readers -> Report]
  PROVE  BaseInv'
<1>1. TypeOK'
  BY DEF BaseInv, TypeOK
<1>2. LeaseIffRunning' /\ CountersExact'
  BY DEF BaseInv, LeaseIffRunning, CountersExact, With
<1> QED BY <1>1, <1>2 DEF BaseInv

LEMMA ForgetBase ==
  ASSUME BaseInv, NEW w \in Workers, Forget(w)
  PROVE  BaseInv'
<1>1. NoRelease \in Release
  BY DEF NoRelease, Release
<1>2. /\ held' \in [Workers -> Units \cup {None}]
      /\ release' \in [Workers -> Release]
      /\ UNCHANGED <<job, unit, result, report>>
  BY <1>1 DEF Forget, BaseInv, TypeOK
<1> QED BY <1>2, RowsKept DEF BaseInv, TypeOK

LEMMA ReadStatusBase ==
  ASSUME BaseInv, NEW p \in Readers, NEW s \in Scans, ReadStatus(p, s)
  PROVE  BaseInv'
<1>1. job[s].status \in {"absent"} \cup Active \cup Terminal
  BY DEF BaseInv, TypeOK, Job
<1>2. report' \in [Readers -> Report]
  BY <1>1 DEF ReadStatus, BaseInv, TypeOK, NoReport, Report
<1> QED BY <1>2, RowsKept DEF ReadStatus, BaseInv, TypeOK

LEMMA ReadCountsBase ==
  ASSUME BaseInv, NEW p \in Readers, ReadCounts(p)
  PROVE  BaseInv'
<1> DEFINE s == report[p].scan
           a == Cardinality(With(unit, "queued", s) \cup With(unit, "running", s))
           c == Cardinality(With(unit, "completed", s))
<1>1. a \in Nat /\ c \in Nat
  <2>1. IsFiniteSet(With(unit, "queued", s)) /\ IsFiniteSet(With(unit, "running", s))
    BY CountType
  <2>2. IsFiniteSet(With(unit, "queued", s) \cup With(unit, "running", s))
    BY <2>1, FS_Union
  <2>3. a \in Nat
    BY <2>2, FS_CardinalityType
  <2> QED BY <2>3, CountType
<1>2. report' = [report EXCEPT ![p].step = "done", ![p].active = a, ![p].completed = c]
  BY DEF ReadCounts
<1> HIDE DEF a, c, s
<1> DEFINE r == [report[p] EXCEPT !.step = "done", !.active = a, !.completed = c]
<1>3. r \in Report
  BY <1>1 DEF BaseInv, TypeOK, Report
<1>4. report' = [report EXCEPT ![p] = r]
  BY <1>2 DEF BaseInv, TypeOK
<1> HIDE DEF r
<1>5. report' \in [Readers -> Report]
  BY <1>3, <1>4 DEF BaseInv, TypeOK
<1> QED BY <1>5, RowsKept DEF ReadCounts, BaseInv, TypeOK

LEMMA NextBase == BaseInv /\ [Next]_vars => BaseInv'
<1>1. ASSUME BaseInv, Next PROVE BaseInv'
  BY <1>1, TickBase, CreateBase, CancelBase, ClaimBase, ReapReadBase, ReapWriteBase,
     HeartbeatBase, CompleteBase,
     ReleaseReadBase, ReleaseWriteBase, ForgetBase, ReadStatusBase, ReadCountsBase
  DEF Next
<1>2. ASSUME BaseInv, UNCHANGED vars PROVE BaseInv'
  BY <1>2, RowsKept DEF vars, BaseInv, TypeOK
<1> QED BY <1>1, <1>2

THEOREM BaseInvariance == Spec => []BaseInv
  BY InitBase, NextBase, PTL DEF Spec

\* Type correctness.
THEOREM TypeCorrect == Spec => []TypeOK
<1>1. BaseInv => TypeOK
  BY DEF BaseInv
<1> QED BY <1>1, BaseInvariance, PTL

\* The counters of a scan are exact, however many processes write.
THEOREM CountersKept == Spec => []CountersExact
<1>1. BaseInv => CountersExact
  BY DEF BaseInv
<1> QED BY <1>1, BaseInvariance, PTL

-----------------------------------------------------------------------------
(* A running unit is taken from its worker only after its lease.           *)

LEMMA StealStep ==
  ASSUME BaseInv, Next, NEW u \in Units,
         unit[u].status = "running", unit'[u].status = "running",
         unit'[u].attempts # unit[u].attempts
  PROVE  unit[u].left < 0
<1>1. CASE UNCHANGED unit
  BY <1>1
<1>2. CASE Tick
  BY <1>2 DEF Tick, Aged
<1>3. ASSUME NEW s \in Scans, CreateScan(s) PROVE unit[u].left < 0
  <2>1. unit'[u] = Enqueued \/ unit'[u] = unit[u]
    BY <1>3 DEF CreateScan
  <2> QED BY <2>1 DEF Enqueued
<1>4. ASSUME NEW s \in Scans, Cancel(s) PROVE unit[u].left < 0
  <2>1. unit'[u] = Ended(unit[u], "cancelled") \/ unit'[u] = unit[u]
    BY <1>4 DEF Cancel
  <2> QED BY <2>1 DEF Ended
<1>5. ASSUME NEW w \in Workers, NEW S, NEW d \in Lags, ClaimFrom(w, S, d)
      PROVE  unit[u].left < 0
  <2>1. \/ unit' = UnitsReaped(S, d)
        \/ \E v \in Units : /\ Free(unit[v], d)
                            /\ unit' = [UnitsReaped(S, d) EXCEPT ![v] = Leased(unit[v], w, d)]
    <3>1. ClaimedFrom(w, S, d)
      BY <1>5, ClaimView
    <3> QED BY <3>1 DEF ClaimedFrom
  <2>2. UnitsReaped(S, d)[u] = Ended(unit[u], "failed") \/ UnitsReaped(S, d)[u] = unit[u]
    BY ReapedRows
  <2>3. CASE unit'[u] = UnitsReaped(S, d)[u]
    BY <2>2, <2>3 DEF Ended
  <2>4. CASE unit'[u] # UnitsReaped(S, d)[u]
    <3>1. Free(unit[u], d)
      BY <2>1, <2>4, ReapedRows
    <3>2. unit[u] \in Leasable /\ LeaseMatches(unit[u])
      BY DEF BaseInv, TypeOK, LeaseIffRunning
    <3> QED BY <3>1, <3>2, FreeRow
  <2> QED BY <2>3, <2>4
<1>6. ASSUME NEW w \in Workers, Heartbeat(w) PROVE unit[u].left < 0
  <2>1. PICK v \in Units, d \in Lags : unit' = [unit EXCEPT ![v] = Renewed(unit[v], d)]
    BY <1>6 DEF Heartbeat, BaseInv, TypeOK
  <2>2. unit'[u] = Renewed(unit[u], d) \/ unit'[u] = unit[u]
    BY <2>1 DEF BaseInv, TypeOK
  <2> QED BY <2>2 DEF Renewed
<1>7. ASSUME NEW v \in Units, NEW status \in {"queued"} \cup Terminal,
             unit' = [unit EXCEPT ![v] = Ended(unit[v], status)]
      PROVE  unit[u].left < 0
  <2>1. unit'[u] = Ended(unit[u], status) \/ unit'[u] = unit[u]
    BY <1>7 DEF BaseInv, TypeOK
  <2>2. status # "running"
    BY DEF Terminal
  <2> QED BY <2>1, <2>2 DEF Ended
<1>8. ASSUME NEW w \in Workers, Complete(w) PROVE unit[u].left < 0
  <2>1. PICK v \in Units : unit' = [unit EXCEPT ![v] = Ended(unit[v], "completed")]
    BY <1>8 DEF Complete, BaseInv, TypeOK
  <2> QED BY <2>1, <1>7 DEF Terminal
<1>9. ASSUME NEW w \in Workers, ReleaseWrite(w) PROVE unit[u].left < 0
  <2> DEFINE status == IF release[w].exhausted THEN "failed" ELSE "queued"
  <2>1. PICK v \in Units : unit' = [unit EXCEPT ![v] = Ended(unit[v], status)]
    BY <1>9 DEF ReleaseWrite, BaseInv, TypeOK
  <2>2. status \in {"queued"} \cup Terminal
    BY DEF Terminal
  <2> HIDE DEF status
  <2> QED BY <2>1, <2>2, <1>7
<1> QED
  BY <1>1, <1>2, <1>3, <1>4, <1>5, <1>6, <1>8, <1>9
  DEF Next, Claim, ReapRead, ReapWrite, ReleaseRead, Forget, ReadStatus, ReadCounts

\* Whatever clock a worker has, it takes no unit whose lease still runs.
THEOREM NoLeaseStolen == Spec => NoEarlySteal
<1>1. BaseInv /\ [Next]_vars =>
        [ \A u \in Units :
            (/\ unit[u].status = "running" /\ unit'[u].status = "running"
             /\ unit'[u].attempts # unit[u].attempts) => unit[u].left < 0 ]_vars
  BY StealStep
<1> QED BY <1>1, BaseInvariance, PTL DEF Spec, NoEarlySteal

-----------------------------------------------------------------------------
(* Inside one process: the scans agree with their units.                   *)

\* The row j of the scan s agrees with the rows un of the units.
Agrees(j, s, un) ==
  /\ j.status = "absent" => \A u \in UnitsOf(s) : un[u].status = "absent"
  /\ j.status # "absent" =>
       /\ UnitsOf(s) # {}
       /\ \A u \in UnitsOf(s) : un[u].status # "absent"
  /\ j.status \in Terminal => \A u \in UnitsOf(s) : un[u].status \in Terminal
  /\ j.status \in Active => \E u \in UnitsOf(s) : un[u].status \in Active
  /\ j.status = "completed" => \A u \in UnitsOf(s) : un[u].status = "completed"
  /\ j.status = "failed" => \E u \in UnitsOf(s) : un[u].status = "failed"
  /\ \A u \in UnitsOf(s) : un[u].status = "running" => j.status = "running"
  /\ \A u \in UnitsOf(s) : un[u].status = "cancelled" => j.status = "cancelled"

RowsInv ==
  /\ \A u \in Units : Moved(unit[u])
  /\ \A s \in Scans : Agrees(job[s], s, unit)

\* The unit of a release_or_fail still runs and has the attempts left that
\* the SELECT has read.
ReleaseStands(r) ==
  /\ r.scans = {}
  /\ r.unit \in Units
  /\ unit[r.unit].status = "running"
  /\ r.exhausted = OutOfAttempts(unit[r.unit])

\* Each of the scans S has a unit that still runs.
StillRun(S) == \A s \in S : \E u \in UnitsOf(s) : unit[u].status = "running"

\* The scans in which a claim is to reap still run.
ReapStands(r) == r.unit = None /\ StillRun(r.scans)

\* One transaction at a time is between its statements, and what its SELECT
\* has read is still true.
LockInv ==
  \A w \in Workers :
    release[w] # NoRelease =>
      /\ \A v \in Workers : v # w => release[v] = NoRelease
      /\ ReleaseStands(release[w]) \/ ReapStands(release[w])

\* An end that a reader has seen is still the status of the scan.
SeenInv ==
  \A p \in Readers :
    (report[p].step = "counting" /\ report[p].status \in Terminal) =>
      /\ report[p].scan \in Scans
      /\ job[report[p].scan].status = report[p].status

LockedInv == RowsInv /\ LockInv /\ SeenInv /\ ReportConsistent

\* An end is final: of a scan, and of a unit with its result.
Final ==
  /\ \A s \in Scans : job[s].status \in Terminal => job'[s].status = job[s].status
  /\ \A u \in Units : unit[u].status \in Terminal =>
       unit'[u].status = unit[u].status /\ result'[u] = result[u]

-----------------------------------------------------------------------------
(* LockedInv is inductive under the write lock.                            *)

\* Rows that keep their status keep the agreement.
LEMMA AgreesKept ==
  ASSUME NEW j, NEW s, NEW un, NEW vn, Agrees(j, s, un),
         \A u \in UnitsOf(s) : vn[u].status = un[u].status
  PROVE  Agrees(j, s, vn)
  BY DEF Agrees

\* Ending or giving back running units, and refreshing their scan.
LEMMA RefreshedAgrees ==
  ASSUME NEW j, NEW s, NEW un, NEW vn, Agrees(j, s, un), j.status = "running",
         \A u \in UnitsOf(s) :
           vn[u].status = un[u].status
           \/ (un[u].status = "running" /\ vn[u].status \in {"queued", "completed", "failed"}),
         \A u \in UnitsOf(s) : vn[u].status \in {"absent"} \cup Active \cup Terminal
  PROVE  /\ Agrees(Refreshed(j, s, vn), s, vn)
         /\ j.status \notin Terminal
<1> DEFINE k == Refreshed(j, s, vn)
           open == With(vn, "queued", s) \cup With(vn, "running", s)
<1>1. /\ j.status \notin Terminal /\ j.status # "absent" /\ j.status # "cancelled"
      /\ UnitsOf(s) # {}
      /\ \A u \in UnitsOf(s) : un[u].status # "absent" /\ un[u].status # "cancelled"
  BY DEF Agrees, Terminal
<1>2. \A u \in UnitsOf(s) : vn[u].status \in {"queued", "running", "completed", "failed"}
  BY <1>1 DEF Active, Terminal
<1>3. open # {} <=> \E u \in UnitsOf(s) : vn[u].status \in Active
  BY DEF With, Active
<1>4. With(vn, "failed", s) # {} <=> \E u \in UnitsOf(s) : vn[u].status = "failed"
  BY DEF With
<1>5. k.status = IF open # {} THEN "running"
                 ELSE IF With(vn, "failed", s) # {} THEN "failed" ELSE "completed"
  BY DEF Refreshed
<1> HIDE DEF k, open
<1>6. CASE open # {}
  BY <1>1, <1>2, <1>3, <1>5, <1>6 DEF Agrees, Active, Terminal, k
<1>7. CASE open = {}
  <2>1. \A u \in UnitsOf(s) : vn[u].status \in {"completed", "failed"}
    BY <1>2, <1>3, <1>7 DEF Active
  <2>2. CASE With(vn, "failed", s) # {}
    BY <1>1, <1>4, <1>5, <1>7, <2>1, <2>2 DEF Agrees, Active, Terminal, k
  <2>3. CASE With(vn, "failed", s) = {}
    BY <1>1, <1>4, <1>5, <1>7, <2>1, <2>3 DEF Agrees, Active, Terminal, k
  <2> QED BY <2>2, <2>3
<1> QED BY <1>1, <1>6, <1>7

\* The scan of a running unit runs.
LEMMA RunningScan ==
  ASSUME BaseInv, RowsInv, NEW u \in Units, unit[u].status = "running"
  PROVE  /\ ScanOf[u] \in Scans
         /\ job[ScanOf[u]].status = "running"
<1>1. ScanOf[u] \in Scans /\ u \in UnitsOf(ScanOf[u])
  BY ScanJobsAssumption DEF UnitsOf
<1> QED BY <1>1 DEF RowsInv, Agrees

\* A unit that ran is ended or given back, and its scan refreshed.
LEMMA MoveAgrees ==
  ASSUME BaseInv, RowsInv, NEW u \in Units, unit[u].status = "running",
         NEW status \in {"queued", "completed", "failed"},
         status = "queued" => ~OutOfAttempts(unit[u]),
         unit' = [unit EXCEPT ![u] = Ended(unit[u], status)],
         job' = [job EXCEPT ![ScanOf[u]] = Refreshed(job[ScanOf[u]], ScanOf[u], unit')],
         \A v \in Units : v # u => result'[v] = result[v]
  PROVE  RowsInv' /\ Final
<1> DEFINE t == ScanOf[u]
           r == Ended(unit[u], status)
<1>1. t \in Scans /\ job[t].status = "running"
  BY RunningScan
<1>2. Moved(r) /\ r.status = status
  BY EndedRow DEF BaseInv, TypeOK, RowsInv, Terminal
<1>3. \A v \in Units : unit'[v] = IF v = u THEN r ELSE unit[v]
  BY DEF BaseInv, TypeOK
<1> HIDE DEF r, t
<1>4. \A s \in Scans : job'[s] = IF s = t THEN Refreshed(job[t], t, unit') ELSE job[s]
  BY DEF BaseInv, TypeOK, t
<1>5. \A v \in Units : Moved(unit'[v])
  BY <1>2, <1>3 DEF RowsInv
<1>6. ASSUME NEW s \in Scans
      PROVE  /\ Agrees(job'[s], s, unit')
             /\ job[s].status \in Terminal => job'[s].status = job[s].status
  <2>1. Agrees(job[s], s, unit)
    BY DEF RowsInv
  <2>2. CASE s = t
    <3>1. \A v \in UnitsOf(s) :
            unit'[v].status = unit[v].status
            \/ (unit[v].status = "running"
                /\ unit'[v].status \in {"queued", "completed", "failed"})
      BY <1>2, <1>3 DEF UnitsOf
    <3>2. \A v \in UnitsOf(s) : unit'[v].status \in {"absent"} \cup Active \cup Terminal
      BY <1>5 DEF UnitsOf, Moved, Leasable
    <3>3. job[s].status = "running"
      BY <1>1, <2>2
    <3> DEFINE un == unit
               vn == unit'
               j == job[s]
    <3>4. /\ Agrees(j, s, un)
          /\ j.status = "running"
          /\ \A v \in UnitsOf(s) :
               vn[v].status = un[v].status
               \/ (un[v].status = "running"
                   /\ vn[v].status \in {"queued", "completed", "failed"})
          /\ \A v \in UnitsOf(s) : vn[v].status \in {"absent"} \cup Active \cup Terminal
      BY <2>1, <3>1, <3>2, <3>3
    <3> HIDE DEF un, vn, j
    <3>5. Agrees(Refreshed(j, s, vn), s, vn) /\ j.status \notin Terminal
      BY <3>4, RefreshedAgrees
    <3>6. Agrees(Refreshed(job[s], s, unit'), s, unit') /\ job[s].status \notin Terminal
      BY <3>5 DEF vn, j
    <3> QED BY <1>4, <2>2, <3>6
  <2>3. CASE s # t
    <3>1. \A v \in UnitsOf(s) : unit'[v].status = unit[v].status
      BY <1>3, <2>3 DEF UnitsOf, t
    <3>2. job'[s] = job[s]
      BY <1>4, <2>3
    <3>3. Agrees(job[s], s, unit')
      BY <2>1, <3>1, AgreesKept
    <3> QED BY <3>2, <3>3
  <2> QED BY <2>2, <2>3
<1>7. RowsInv'
  BY <1>5, <1>6 DEF RowsInv
<1>8. \A v \in Units : unit[v].status \in Terminal =>
        unit'[v].status = unit[v].status /\ result'[v] = result[v]
  BY <1>3 DEF Terminal
<1> QED BY <1>6, <1>7, <1>8 DEF Final

\* Whoever finds the lock free leaves every release as it is: none.
LEMMA LockFree ==
  ASSUME OneProcess, Unlocked, UNCHANGED release
  PROVE  LockInv'
  BY DEF Unlocked, LockInv

LEMMA InitLocked == Init => LockedInv
<1> SUFFICES ASSUME Init PROVE LockedInv
  OBVIOUS
<1>1. RowsInv
  <2>1. \A u \in Units : Moved(unit[u]) /\ unit[u].status = "absent"
    BY AbsentRow DEF Init
  <2>2. \A s \in Scans : job[s].status = "absent"
    BY DEF Init, NoJob
  <2>3. \A s \in Scans : Agrees(job[s], s, unit)
    BY <2>1, <2>2 DEF Agrees, UnitsOf, Active, Terminal
  <2> QED BY <2>1, <2>3 DEF RowsInv
<1>2. LockInv /\ SeenInv /\ ReportConsistent
  BY DEF Init, LockInv, SeenInv, ReportConsistent, NoReport
<1> QED BY <1>1, <1>2 DEF LockedInv

\* Rows of units change without a change of status, attempts or result.
LEMMA StatusKept ==
  ASSUME RowsInv, UNCHANGED <<job, result>>,
         \A u \in Units : Moved(unit'[u]) /\ unit'[u].status = unit[u].status
  PROVE  RowsInv' /\ Final
<1>1. ASSUME NEW s \in Scans PROVE Agrees(job'[s], s, unit')
  <2>1. Agrees(job[s], s, unit) /\ job' = job
    BY DEF RowsInv
  <2>2. \A u \in UnitsOf(s) : unit'[u].status = unit[u].status
    BY DEF UnitsOf
  <2>3. Agrees(job[s], s, unit')
    BY <2>1, <2>2, AgreesKept
  <2> QED BY <2>1, <2>3
<1>2. RowsInv'
  BY <1>1 DEF RowsInv
<1> QED BY <1>2 DEF Final

LEMMA TickLocked ==
  ASSUME BaseInv, LockedInv, Tick
  PROVE  RowsInv' /\ Final /\ LockInv'
<1>1. \A u \in Units : /\ Moved(unit'[u])
                       /\ unit'[u].status = unit[u].status
                       /\ unit'[u].attempts = unit[u].attempts
  BY AgedRow DEF Tick, BaseInv, TypeOK, LockedInv, RowsInv
<1>2. RowsInv' /\ Final
  BY <1>1, StatusKept DEF LockedInv, Tick
<1>3. LockInv'
  <2>1. ASSUME NEW r, ReleaseStands(r) PROVE ReleaseStands(r)'
    BY <1>1, <2>1 DEF ReleaseStands, OutOfAttempts
  <2>2. ASSUME NEW r, ReapStands(r) PROVE ReapStands(r)'
    BY <1>1, <2>2 DEF ReapStands, StillRun, UnitsOf
  <2>3. UNCHANGED release
    BY DEF Tick
  <2> QED BY <2>1, <2>2, <2>3 DEF LockedInv, LockInv
<1> QED BY <1>2, <1>3

LEMMA CreateLocked ==
  ASSUME OneProcess, BaseInv, LockedInv, NEW s \in Scans, CreateScan(s)
  PROVE  RowsInv' /\ Final /\ LockInv'
<1>1. job[s].status = "absent" /\ UnitsOf(s) # {}
  BY DEF CreateScan, NoJob
<1>2. \A t \in Scans : IF t = s THEN job'[t].status = "queued" ELSE job'[t] = job[t]
  <2>1. PICK b \in 1 .. Cardinality(Scans) :
          job' = [job EXCEPT ![s] = [NoJob EXCEPT !.status = "queued", !.born = b]]
    BY DEF CreateScan
  <2>2. [NoJob EXCEPT !.status = "queued", !.born = b].status = "queued"
    BY DEF NoJob
  <2> QED BY <2>1, <2>2 DEF BaseInv, TypeOK
<1>3. \A u \in Units : unit'[u] = IF ScanOf[u] = s THEN Enqueued ELSE unit[u]
  BY DEF CreateScan
<1>4. \A u \in Units : Moved(unit'[u])
  BY <1>3, EnqueuedRow DEF LockedInv, RowsInv
<1>5. ASSUME NEW t \in Scans PROVE Agrees(job'[t], t, unit')
  <2>1. Agrees(job[t], t, unit)
    BY DEF LockedInv, RowsInv
  <2>2. CASE t = s
    <3>1. \A u \in UnitsOf(s) : unit'[u].status = "queued"
      BY <1>3, EnqueuedRow DEF UnitsOf
    <3> QED BY <1>1, <1>2, <2>2, <3>1 DEF Agrees, Active, Terminal
  <2>3. CASE t # s
    <3>1. \A u \in UnitsOf(t) : unit'[u].status = unit[u].status
      BY <1>3, <2>3 DEF UnitsOf
    <3>2. Agrees(job[t], t, unit')
      BY <2>1, <3>1, AgreesKept
    <3> QED BY <1>2, <2>3, <3>2
  <2> QED BY <2>2, <2>3
<1>6. RowsInv'
  BY <1>4, <1>5 DEF RowsInv
<1>7. \A t \in Scans : job[t].status \in Terminal => job'[t].status = job[t].status
  BY <1>1, <1>2 DEF Terminal
<1>8. \A u \in Units : unit[u].status \in Terminal => unit'[u] = unit[u]
  <2>1. \A u \in UnitsOf(s) : unit[u].status = "absent"
    BY <1>1 DEF LockedInv, RowsInv, Agrees
  <2> QED BY <2>1, <1>3 DEF UnitsOf, Terminal
<1>9. Final
  BY <1>7, <1>8 DEF Final, CreateScan
<1> QED BY <1>6, <1>9, LockFree DEF CreateScan

LEMMA CancelLocked ==
  ASSUME OneProcess, BaseInv, LockedInv, NEW s \in Scans, Cancel(s)
  PROVE  RowsInv' /\ Final /\ LockInv'
<1>1. job[s].status \in Active
  BY DEF Cancel
<1>2. \A t \in Scans : IF t = s THEN job'[t].status = "cancelled" ELSE job'[t] = job[t]
  BY DEF Cancel, BaseInv, TypeOK, Job
<1>3. \A u \in Units :
        unit'[u] = IF ScanOf[u] = s /\ unit[u].status \in Active
                   THEN Ended(unit[u], "cancelled") ELSE unit[u]
  BY DEF Cancel
<1>4. \A u \in Units : /\ Moved(Ended(unit[u], "cancelled"))
                       /\ Ended(unit[u], "cancelled").status = "cancelled"
  BY EndedRow DEF BaseInv, TypeOK, LockedInv, RowsInv, Terminal
<1>5. \A u \in Units : Moved(unit'[u])
  BY <1>3, <1>4 DEF LockedInv, RowsInv
<1>6. ASSUME NEW t \in Scans PROVE Agrees(job'[t], t, unit')
  <2>1. Agrees(job[t], t, unit)
    BY DEF LockedInv, RowsInv
  <2>2. CASE t = s
    <3>1. UnitsOf(s) # {} /\ \A u \in UnitsOf(s) : unit[u].status # "absent"
      BY <1>1, <2>1, <2>2 DEF Agrees, Active
    <3>2. \A u \in UnitsOf(s) : unit'[u].status \in Terminal
      <4> TAKE u \in UnitsOf(s)
      <4>1. u \in Units /\ ScanOf[u] = s
        BY DEF UnitsOf
      <4>2. unit[u].status \in {"absent"} \cup Active \cup Terminal
        BY <4>1 DEF BaseInv, TypeOK, Leasable
      <4> QED BY <1>3, <1>4, <3>1, <4>1, <4>2 DEF Terminal
    <3>3. job'[s].status = "cancelled"
      BY <1>2
    <3> QED BY <2>2, <3>1, <3>2, <3>3 DEF Agrees, Active, Terminal
  <2>3. CASE t # s
    <3>1. \A u \in UnitsOf(t) : unit'[u].status = unit[u].status
      BY <1>3, <2>3 DEF UnitsOf
    <3>2. Agrees(job[t], t, unit')
      BY <2>1, <3>1, AgreesKept
    <3> QED BY <1>2, <2>3, <3>2
  <2> QED BY <2>2, <2>3
<1>7. RowsInv'
  BY <1>5, <1>6 DEF RowsInv
<1>8. Final
  BY <1>1, <1>2, <1>3 DEF Final, Active, Terminal, Cancel
<1> QED BY <1>7, <1>8, LockFree DEF Cancel

\* After reaping, the scans agree with their units, and nothing that had
\* ended has changed.
LEMMA ReapedAgrees ==
  ASSUME BaseInv, RowsInv, NEW d \in Lags, NEW S, StillRun(S)
  PROVE  /\ \A u \in Units : Moved(UnitsReaped(S, d)[u])
         /\ \A s \in Scans : Agrees(JobsReaped(S, d)[s], s, UnitsReaped(S, d))
         /\ \A s \in Scans : job[s].status \in Terminal => JobsReaped(S, d)[s] = job[s]
<1> DEFINE un == UnitsReaped(S, d)
<1>1. \A u \in Units :
        IF u \in Reaped(S, d)
        THEN unit[u].status = "running" /\ un[u] = Ended(unit[u], "failed")
        ELSE un[u] = unit[u]
  BY ReapedRows
<1>2. \A u \in Units : /\ Moved(Ended(unit[u], "failed"))
                       /\ Ended(unit[u], "failed").status = "failed"
  BY EndedRow DEF BaseInv, TypeOK, RowsInv, Terminal
<1>3. \A u \in Units : Moved(un[u])
  BY <1>1, <1>2 DEF RowsInv
<1>4. ASSUME NEW s \in Scans
      PROVE  /\ Agrees(JobsReaped(S, d)[s], s, un)
             /\ job[s].status \in Terminal => JobsReaped(S, d)[s] = job[s]
  <2>1. Agrees(job[s], s, unit)
    BY DEF RowsInv
  <2>2. CASE s \in S
    <3>1. JobsReaped(S, d)[s] = Refreshed(job[s], s, un)
      BY <2>2 DEF JobsReaped
    <3>2. job[s].status = "running"
      <4>1. PICK u \in UnitsOf(s) : unit[u].status = "running"
        BY <2>2 DEF StillRun
      <4>2. u \in Units /\ ScanOf[u] = s
        BY DEF UnitsOf
      <4> QED BY <4>1, <4>2, RunningScan
    <3>3. \A u \in UnitsOf(s) :
            un[u].status = unit[u].status
            \/ (unit[u].status = "running" /\ un[u].status \in {"queued", "completed", "failed"})
      BY <1>1, <1>2 DEF UnitsOf
    <3>4. \A u \in UnitsOf(s) : un[u].status \in {"absent"} \cup Active \cup Terminal
      BY <1>3 DEF UnitsOf, Moved, Leasable
    <3> HIDE DEF un
    <3>5. Agrees(Refreshed(job[s], s, un), s, un) /\ job[s].status \notin Terminal
      BY <2>1, <3>2, <3>3, <3>4, RefreshedAgrees
    <3> QED BY <3>1, <3>5
  <2>3. CASE s \notin S
    <3>1. JobsReaped(S, d)[s] = job[s]
      BY <2>3 DEF JobsReaped
    <3>2. \A u \in UnitsOf(s) : un[u].status = unit[u].status
      BY <1>1, <2>3 DEF UnitsOf, Reaped
    <3> HIDE DEF un
    <3>3. Agrees(job[s], s, un)
      BY <2>1, <3>2, AgreesKept
    <3> QED BY <3>1, <3>3
  <2> QED BY <2>2, <2>3
<1> QED BY <1>3, <1>4

\* Reaping in scans that run, and the claim of a unit.
LEMMA ClaimFromLocked ==
  ASSUME BaseInv, LockedInv, NEW w \in Workers, NEW S, NEW d \in Lags,
         StillRun(S), ClaimFrom(w, S, d), UNCHANGED result
  PROVE  RowsInv' /\ Final
<1>1. ClaimedFrom(w, S, d)
  BY ClaimView
<1> DEFINE un == UnitsReaped(S, d)
           jn == JobsReaped(S, d)
<1>2. /\ \A u \in Units : u \notin Reaped(S, d) => un[u] = unit[u]
      /\ \A u \in Units : u \in Reaped(S, d) => unit[u].status = "running"
      /\ un \in [Units -> Leasable]
      /\ jn \in [Scans -> Job]
  BY ReapedRows
<1>3. /\ \A u \in Units : Moved(un[u])
      /\ \A s \in Scans : Agrees(jn[s], s, un)
      /\ \A s \in Scans : job[s].status \in Terminal => jn[s] = job[s]
  BY ReapedAgrees DEF LockedInv
<1>4. \A u \in Units : unit[u].status \in Terminal => un[u] = unit[u]
  BY <1>2 DEF Terminal
<1> HIDE DEF un, jn
<1>6. CASE unit' = un /\ job' = jn
  <2>1. RowsInv'
    BY <1>3, <1>6 DEF RowsInv
  <2>2. Final
    BY <1>3, <1>4, <1>6 DEF Final
  <2> QED BY <2>1, <2>2
<1>7. ASSUME NEW u \in Units, u \notin Reaped(S, d), Free(unit[u], d),
             jn[ScanOf[u]].status \in Active,
             unit' = [un EXCEPT ![u] = Leased(unit[u], w, d)],
             job' = [jn EXCEPT ![ScanOf[u]].status = "running"]
      PROVE  RowsInv' /\ Final
  <2> DEFINE r == Leased(unit[u], w, d)
             t == ScanOf[u]
  <2>0. t \in Scans /\ u \in UnitsOf(t) /\ unit[u] \in Leasable /\ unit[u].status \in Active
    BY <1>7, ScanJobsAssumption DEF BaseInv, TypeOK, Free, UnitsOf
  <2>1. Moved(r) /\ r.status = "running"
    BY <1>7, <2>0, LeasedRow DEF Free
  <2>2. \A v \in Units : unit'[v] = IF v = u THEN r ELSE un[v]
    BY <1>2, <1>7
  <2> HIDE DEF r
  <2>3. \A s \in Scans : IF s = t THEN job'[s].status = "running" ELSE job'[s] = jn[s]
    BY <1>2, <1>7 DEF Job
  <2>4. \A v \in Units : Moved(unit'[v])
    BY <1>3, <2>1, <2>2
  <2>5. ASSUME NEW s \in Scans PROVE Agrees(job'[s], s, unit')
    <3>1. Agrees(jn[s], s, un)
      BY <1>3
    <3>2. CASE s = t
      <4>1. /\ \A v \in UnitsOf(s) : un[v].status # "absent" /\ un[v].status # "cancelled"
            /\ UnitsOf(s) # {}
        BY <1>7, <3>1, <3>2 DEF Agrees, Active
      <4>2. \A v \in UnitsOf(s) : unit'[v].status # "absent" /\ unit'[v].status # "cancelled"
        BY <2>1, <2>2, <4>1 DEF UnitsOf
      <4>3. job'[s].status = "running" /\ unit'[u].status = "running" /\ u \in UnitsOf(s)
        BY <2>0, <2>1, <2>2, <2>3, <3>2
      <4> QED BY <4>1, <4>2, <4>3 DEF Agrees, Active, Terminal
    <3>3. CASE s # t
      <4>1. \A v \in UnitsOf(s) : unit'[v].status = un[v].status
        BY <2>2, <3>3 DEF UnitsOf
      <4>2. Agrees(jn[s], s, unit')
        BY <3>1, <4>1, AgreesKept
      <4> QED BY <2>3, <3>3, <4>2
    <3> QED BY <3>2, <3>3
  <2>6. RowsInv'
    BY <2>4, <2>5 DEF RowsInv
  <2>7. \A s \in Scans : job[s].status \in Terminal => job'[s].status = job[s].status
    BY <1>3, <1>7, <2>3 DEF Active, Terminal
  <2>8. \A v \in Units : unit[v].status \in Terminal => unit'[v] = unit[v]
    BY <1>4, <2>0, <2>2 DEF Active, Terminal
  <2>9. Final
    BY <2>7, <2>8 DEF Final
  <2> QED BY <2>6, <2>9
<1> QED BY <1>1, <1>6, <1>7 DEF un, jn, ClaimedFrom

LEMMA ClaimLocked ==
  ASSUME OneProcess, BaseInv, LockedInv, NEW w \in Workers, Claim(w)
  PROVE  RowsInv' /\ Final /\ LockInv'
<1>1. PICK d \in Lags : ClaimFrom(w, {}, d)
  BY DEF Claim
<1>2. StillRun({})
  BY DEF StillRun
<1>3. RowsInv' /\ Final
  BY <1>1, <1>2, ClaimFromLocked DEF Claim
<1> QED BY <1>3, LockFree DEF Claim

\* A claim finds the lock free and units that run.
LEMMA ReapReadLocked ==
  ASSUME OneProcess, BaseInv, LockedInv, NEW w \in Workers, ReapRead(w)
  PROVE  RowsInv' /\ Final /\ LockInv'
<1>1. PICK d \in Lags :
        release' = [release EXCEPT ![w] = [NoRelease EXCEPT !.scans = ScansRead(d)]]
  BY DEF ReapRead
<1> DEFINE r == [NoRelease EXCEPT !.scans = ScansRead(d)]
<1>2. UNCHANGED <<job, unit, result>>
  BY DEF ReapRead
<1>3. RowsInv' /\ Final
  BY <1>2 DEF LockedInv, RowsInv, Final, Moved, Agrees
<1>4. \A v \in Workers : release[v] = NoRelease
  BY DEF ReapRead, Unlocked
<1>5. r.unit = None /\ r.scans = ScansRead(d)
  BY DEF NoRelease
<1>6. StillRun(ScansRead(d))
  BY DEF StillRun, ScansRead, Exhausted, UnitsOf
<1> HIDE DEF r
<1>7. \A v \in Workers : release'[v] = IF v = w THEN r ELSE NoRelease
  BY <1>1, <1>4 DEF BaseInv, TypeOK, r
<1>8. \A v \in Workers : release'[v] # NoRelease => v = w /\ release'[v] = r
  BY <1>7
<1>9. LockInv'
  <2>1. \A s \in r.scans : \E u \in UnitsOf(s) : unit'[u].status = "running"
    BY <1>2, <1>5, <1>6 DEF StillRun
  <2> QED BY <1>5, <1>7, <1>8, <2>1 DEF LockInv, ReapStands, StillRun
<1> QED BY <1>3, <1>9

LEMMA HeartbeatLocked ==
  ASSUME OneProcess, BaseInv, LockedInv, NEW w \in Workers, Heartbeat(w)
  PROVE  RowsInv' /\ Final /\ LockInv'
<1>1. PICK u \in Units, d \in Lags : unit' = [unit EXCEPT ![u] = Renewed(unit[u], d)]
  BY DEF Heartbeat, BaseInv, TypeOK
<1>2. Moved(Renewed(unit[u], d)) /\ Renewed(unit[u], d).status = unit[u].status
  BY RenewedRow DEF BaseInv, TypeOK, LockedInv, RowsInv
<1>3. \A v \in Units : unit'[v] = IF v = u THEN Renewed(unit[u], d) ELSE unit[v]
  BY <1>1 DEF BaseInv, TypeOK
<1>4. \A v \in Units : Moved(unit'[v]) /\ unit'[v].status = unit[v].status
  BY <1>2, <1>3 DEF LockedInv, RowsInv
<1>5. RowsInv' /\ Final
  BY <1>4, StatusKept DEF Heartbeat, LockedInv
<1> QED BY <1>5, LockFree DEF Heartbeat

LEMMA CompleteLocked ==
  ASSUME OneProcess, BaseInv, LockedInv, NEW w \in Workers, Complete(w)
  PROVE  RowsInv' /\ Final /\ LockInv'
<1>1. PICK u \in Units, hash \in Results :
        /\ unit[u].status = "running"
        /\ unit' = [unit EXCEPT ![u] = Ended(unit[u], "completed")]
        /\ result' = [result EXCEPT ![u] = hash]
        /\ job' = [job EXCEPT ![ScanOf[u]] = Refreshed(job[ScanOf[u]], ScanOf[u], unit')]
  BY DEF Complete, Valid, BaseInv, TypeOK
<1>2. \A v \in Units : v # u => result'[v] = result[v]
  BY <1>1 DEF BaseInv, TypeOK
<1>3. RowsInv' /\ Final
  BY <1>1, <1>2, MoveAgrees DEF LockedInv
<1> QED BY <1>3, LockFree DEF Complete

LEMMA ReleaseReadLocked ==
  ASSUME OneProcess, BaseInv, LockedInv, NEW w \in Workers, ReleaseRead(w)
  PROVE  RowsInv' /\ Final /\ LockInv'
<1>1. PICK u \in Units :
        /\ unit[u].status = "running"
        /\ release' = [release EXCEPT ![w] =
                         [unit |-> u, exhausted |-> OutOfAttempts(unit[u]), scans |-> {}]]
  BY DEF ReleaseRead
<1>2. UNCHANGED <<job, unit, result>>
  BY DEF ReleaseRead
<1>3. RowsInv' /\ Final
  BY <1>2 DEF LockedInv, RowsInv, Final, Moved, Agrees
<1>4. \A v \in Workers : release[v] = NoRelease
  BY DEF ReleaseRead, Unlocked
<1>5. \A v \in Workers :
        release'[v] = IF v = w
                      THEN [unit |-> u, exhausted |-> OutOfAttempts(unit[u]), scans |-> {}]
                      ELSE NoRelease
  BY <1>1, <1>4 DEF BaseInv, TypeOK
<1>6. LockInv'
  BY <1>1, <1>2, <1>5 DEF LockInv, ReleaseStands, OutOfAttempts
<1> QED BY <1>3, <1>6

\* A worker that is done with its release leaves none.
LEMMA LockDropped ==
  ASSUME BaseInv, LockInv, NEW w \in Workers,
         release' = [release EXCEPT ![w] = NoRelease],
         UNCHANGED unit \/ release[w] # NoRelease
  PROVE  LockInv'
<1>1. \A v \in Workers : release'[v] = IF v = w THEN NoRelease ELSE release[v]
  BY DEF BaseInv, TypeOK
<1>2. CASE UNCHANGED unit
  BY <1>1, <1>2 DEF LockInv, ReleaseStands, ReapStands, StillRun, OutOfAttempts
<1>3. CASE release[w] # NoRelease
  <2>1. \A v \in Workers : release'[v] = NoRelease
    BY <1>1, <1>3 DEF LockInv
  <2> QED BY <2>1 DEF LockInv
<1> QED BY <1>2, <1>3

\* The UPDATE finds the unit as the SELECT has left it.
LEMMA ReleaseWriteLocked ==
  ASSUME BaseInv, LockedInv, NEW w \in Workers, ReleaseWrite(w)
  PROVE  RowsInv' /\ Final /\ LockInv'
<1> DEFINE status == IF release[w].exhausted THEN "failed" ELSE "queued"
<1>1. PICK u \in Units :
        /\ release[w].unit = u
        /\ unit' = [unit EXCEPT ![u] = Ended(unit[u], status)]
        /\ job' = [job EXCEPT ![ScanOf[u]] = Refreshed(job[ScanOf[u]], ScanOf[u], unit')]
  BY DEF ReleaseWrite, BaseInv, TypeOK
<1>2. release[w] # NoRelease /\ release[w].unit # None
  BY <1>1, ScanJobsAssumption DEF NoRelease
<1>3. unit[u].status = "running" /\ release[w].exhausted = OutOfAttempts(unit[u])
  BY <1>1, <1>2 DEF LockedInv, LockInv, ReleaseStands, ReapStands
<1>4. status = "queued" => ~OutOfAttempts(unit[u])
  BY <1>3
<1>5. status \in {"queued", "completed", "failed"}
  OBVIOUS
<1> HIDE DEF status
<1>6. RowsInv' /\ Final
  BY <1>1, <1>3, <1>4, <1>5, MoveAgrees DEF LockedInv, ReleaseWrite
<1> QED BY <1>2, <1>6, LockDropped DEF LockedInv, ReleaseWrite

\* What the claim has read runs until it is reaped.
LEMMA ReapWriteLocked ==
  ASSUME BaseInv, LockedInv, NEW w \in Workers, ReapWrite(w)
  PROVE  RowsInv' /\ Final /\ LockInv'
<1>1. PICK d \in Lags : ClaimFrom(w, release[w].scans, d)
  BY DEF ReapWrite
<1>2. release[w] # NoRelease /\ release[w].scans # {}
  BY DEF ReapWrite, NoRelease
<1>3. StillRun(release[w].scans)
  BY <1>2 DEF LockedInv, LockInv, ReleaseStands, ReapStands
<1>4. RowsInv' /\ Final
  BY <1>1, <1>3, ClaimFromLocked DEF ReapWrite
<1> QED BY <1>2, <1>4, LockDropped DEF LockedInv, ReapWrite

LEMMA ForgetLocked ==
  ASSUME BaseInv, LockedInv, NEW w \in Workers, Forget(w)
  PROVE  RowsInv' /\ Final /\ LockInv'
<1>1. RowsInv' /\ Final
  BY DEF Forget, LockedInv, RowsInv, Final, Moved, Agrees
<1> QED BY <1>1, LockDropped DEF LockedInv, Forget

LEMMA ReadLocked ==
  ASSUME LockedInv, UNCHANGED <<job, unit, result, release>>
  PROVE  RowsInv' /\ Final /\ LockInv'
  BY DEF LockedInv, RowsInv, Final, LockInv, ReleaseStands, ReapStands, StillRun, Moved,
         Agrees, OutOfAttempts

LEMMA NextRows ==
  ASSUME OneProcess, BaseInv, LockedInv, Next
  PROVE  RowsInv' /\ Final /\ LockInv'
<1>1. ASSUME NEW p \in Readers, NEW s \in Scans, ReadStatus(p, s)
      PROVE  UNCHANGED <<job, unit, result, release>>
  BY <1>1 DEF ReadStatus
<1>2. ASSUME NEW p \in Readers, ReadCounts(p)
      PROVE  UNCHANGED <<job, unit, result, release>>
  BY <1>2 DEF ReadCounts
<1> QED
  BY <1>1, <1>2, TickLocked, CreateLocked, CancelLocked, ClaimLocked, ReapReadLocked,
     ReapWriteLocked, HeartbeatLocked, CompleteLocked, ReleaseReadLocked,
     ReleaseWriteLocked, ForgetLocked, ReadLocked
  DEF Next

\* Reports change through their readers only.
LEMMA ReportFrame ==
  ASSUME Next
  PROVE  \/ UNCHANGED report
         \/ \E p \in Readers, s \in Scans : ReadStatus(p, s)
         \/ \E p \in Readers : ReadCounts(p)
<1>1. Tick => UNCHANGED report
  BY DEF Tick
<1>2. \A s \in Scans : CreateScan(s) \/ Cancel(s) => UNCHANGED report
  BY DEF CreateScan, Cancel
<1>3. \A w \in Workers : Claim(w) \/ Heartbeat(w) \/ Complete(w) => UNCHANGED report
  BY DEF Claim, Heartbeat, Complete
<1>4. \A w \in Workers : ReleaseRead(w) \/ ReleaseWrite(w) \/ Forget(w) => UNCHANGED report
  BY DEF ReleaseRead, ReleaseWrite, Forget
<1>5. \A w \in Workers : ReapRead(w) \/ ReapWrite(w) => UNCHANGED report
  BY DEF ReapRead, ReapWrite
<1> QED BY <1>1, <1>2, <1>3, <1>4, <1>5, Zenon DEF Next

\* The end that a reader has read does not change before it counts.
LEMMA ReadStatusSeen ==
  ASSUME BaseInv, LockedInv, NEW p \in Readers, NEW s \in Scans, ReadStatus(p, s)
  PROVE  SeenInv' /\ ReportConsistent'
<1> DEFINE r == [NoReport EXCEPT !.step = "counting", !.scan = s, !.status = job[s].status]
<1>1. report' = [report EXCEPT ![p] = r] /\ UNCHANGED <<job, unit>>
  BY DEF ReadStatus
<1>2. r.step = "counting" /\ r.scan = s /\ r.status = job[s].status
  BY DEF NoReport
<1> HIDE DEF r
<1>3. \A q \in Readers : report'[q] = IF q = p THEN r ELSE report[q]
  BY <1>1 DEF BaseInv, TypeOK
<1>4. SeenInv'
  BY <1>1, <1>2, <1>3 DEF LockedInv, SeenInv
<1>5. ReportConsistent'
  BY <1>2, <1>3 DEF LockedInv, ReportConsistent
<1> QED BY <1>4, <1>5

\* When the scan has ended, none of its units is active.
LEMMA ReadCountsSeen ==
  ASSUME BaseInv, LockedInv, NEW p \in Readers, ReadCounts(p)
  PROVE  SeenInv' /\ ReportConsistent'
<1> DEFINE s == report[p].scan
           a == Cardinality(With(unit, "queued", s) \cup With(unit, "running", s))
           c == Cardinality(With(unit, "completed", s))
           r == [report[p] EXCEPT !.step = "done", !.active = a, !.completed = c]
<1>1. report[p].step = "counting" /\ report[p] \in Report
  BY DEF ReadCounts, BaseInv, TypeOK
<1>2. /\ r.step = "done" /\ r.scan = s /\ r.status = report[p].status
      /\ r.active = a /\ r.completed = c
  BY <1>1 DEF Report
<1>3. report' = [report EXCEPT ![p].step = "done", ![p].active = a, ![p].completed = c]
  BY DEF ReadCounts
<1>4. \A q \in Readers : report'[q] = IF q = p THEN r ELSE report[q]
  <2> HIDE DEF a, c, s
  <2> QED BY <1>3 DEF BaseInv, TypeOK
<1>5. ASSUME report[p].status \in Terminal
      PROVE  a = 0 /\ (report[p].status = "completed" => c = Cardinality(UnitsOf(s)))
  <2>1. s \in Scans /\ job[s].status = report[p].status
    BY <1>1, <1>5 DEF LockedInv, SeenInv
  <2>2. Agrees(job[s], s, unit)
    BY <2>1 DEF LockedInv, RowsInv
  <2>3. With(unit, "queued", s) \cup With(unit, "running", s) = {}
    BY <2>1, <2>2, <1>5 DEF Agrees, With, Terminal
  <2>4. report[p].status = "completed" => With(unit, "completed", s) = UnitsOf(s)
    BY <2>1, <2>2 DEF Agrees, With
  <2> QED BY <2>3, <2>4, FS_EmptySet
<1>6. UNCHANGED job
  BY DEF ReadCounts
<1> HIDE DEF r, a, c, s
<1>7. SeenInv'
  BY <1>2, <1>4, <1>6 DEF LockedInv, SeenInv
<1>8. ReportConsistent'
  BY <1>2, <1>4, <1>5 DEF LockedInv, ReportConsistent, s
<1> QED BY <1>7, <1>8

LEMMA SeenKept ==
  ASSUME BaseInv, LockedInv, Final, UNCHANGED report
  PROVE  SeenInv' /\ ReportConsistent'
<1>1. SeenInv'
  BY DEF LockedInv, SeenInv, Final
<1> QED BY <1>1 DEF LockedInv, ReportConsistent

LEMMA NextLocked ==
  ASSUME OneProcess
  PROVE  BaseInv /\ LockedInv /\ [Next]_vars => LockedInv'
<1>1. ASSUME BaseInv, LockedInv, Next PROVE LockedInv'
  <2>1. RowsInv' /\ Final /\ LockInv'
    BY <1>1, NextRows
  <2>2. SeenInv' /\ ReportConsistent'
    BY <1>1, <2>1, ReportFrame, ReadStatusSeen, ReadCountsSeen, SeenKept
  <2> QED BY <2>1, <2>2 DEF LockedInv
<1>2. ASSUME BaseInv, LockedInv, UNCHANGED vars PROVE LockedInv'
  <2>1. RowsInv' /\ Final /\ LockInv'
    BY <1>2, ReadLocked DEF vars
  <2>2. SeenInv' /\ ReportConsistent'
    BY <1>2, <2>1, SeenKept DEF vars
  <2> QED BY <2>1, <2>2 DEF LockedInv
<1> QED BY <1>1, <1>2

\* Under the write lock the strengthened invariant holds in every state.
THEOREM LockedInvariance ==
  ASSUME OneProcess
  PROVE  Spec => []LockedInv
<1>1. BaseInv /\ LockedInv /\ [Next]_vars => LockedInv'
  BY NextLocked
<1> QED BY <1>1, InitLocked, BaseInvariance, PTL DEF Spec

\* A scan has ended exactly when none of its units is active, and its
\* status is what became of them.
THEOREM ScansAgree ==
  ASSUME OneProcess
  PROVE  Spec => []JobAgrees
<1>1. LockedInv => JobAgrees
  <2> SUFFICES ASSUME LockedInv, NEW s \in Scans
               PROVE  LET statuses == {unit[u].status : u \in UnitsOf(s)} IN
                      /\ job[s].status \in Terminal => statuses \subseteq Terminal
                      /\ job[s].status \in Active => statuses \cap Active # {}
                      /\ job[s].status = "completed" => statuses = {"completed"}
                      /\ job[s].status = "failed" =>
                           "failed" \in statuses /\ "cancelled" \notin statuses
                      /\ "running" \in statuses => job[s].status = "running"
    BY DEF JobAgrees
  <2> DEFINE statuses == {unit[u].status : u \in UnitsOf(s)}
  <2>1. Agrees(job[s], s, unit)
    BY DEF LockedInv, RowsInv
  <2>2. job[s].status \in Terminal => statuses \subseteq Terminal
    BY <2>1 DEF Agrees
  <2>3. job[s].status \in Active => statuses \cap Active # {}
    BY <2>1 DEF Agrees
  <2>4. job[s].status = "completed" => statuses = {"completed"}
    BY <2>1 DEF Agrees
  <2>5. job[s].status = "failed" => "failed" \in statuses /\ "cancelled" \notin statuses
    BY <2>1 DEF Agrees
  <2>6. "running" \in statuses => job[s].status = "running"
    BY <2>1 DEF Agrees
  <2> QED BY <2>2, <2>3, <2>4, <2>5, <2>6
<1> QED BY <1>1, LockedInvariance, PTL

\* The retry budget is kept, and every queued unit can still be claimed.
THEOREM BudgetKept ==
  ASSUME OneProcess
  PROVE  Spec => []AttemptsBounded
<1>1. LockedInv => AttemptsBounded
  BY DEF LockedInv, RowsInv, Moved, AttemptsBounded
<1> QED BY <1>1, LockedInvariance, PTL

\* Progress reports no active units of a scan it reports as ended.
THEOREM ReportsConsistent ==
  ASSUME OneProcess
  PROVE  Spec => []ReportConsistent
<1>1. LockedInv => ReportConsistent
  BY DEF LockedInv
<1> QED BY <1>1, LockedInvariance, PTL

-----------------------------------------------------------------------------
(* Ends are final.                                                         *)

LEMMA NextFinal ==
  ASSUME OneProcess, BaseInv, LockedInv, [Next]_vars
  PROVE  Final
  BY NextRows, ReadLocked DEF vars

\* A cancelled scan stays cancelled and none of its units is revived: what
\* fails with a second process holds inside one.
THEOREM CancellationSticks ==
  ASSUME OneProcess
  PROVE  Spec => CancelSticks
<1>1. BaseInv /\ LockedInv /\ [Next]_vars =>
        [ \A s \in Scans : job[s].status = "cancelled" =>
            /\ job'[s].status = "cancelled"
            /\ \A u \in UnitsOf(s) : unit'[u].status \in Terminal ]_vars
  <2> SUFFICES ASSUME BaseInv, LockedInv, [Next]_vars,
                      NEW s \in Scans, job[s].status = "cancelled"
               PROVE  /\ job'[s].status = "cancelled"
                      /\ \A u \in UnitsOf(s) : unit'[u].status \in Terminal
    OBVIOUS
  <2>1. Final
    BY NextFinal
  <2>2. \A u \in UnitsOf(s) : u \in Units /\ unit[u].status \in Terminal
    BY DEF LockedInv, RowsInv, Agrees, Terminal, UnitsOf
  <2> QED BY <2>1, <2>2 DEF Final, Terminal
<1> QED BY <1>1, BaseInvariance, LockedInvariance, PTL DEF Spec, CancelSticks

\* The store implements OneShot: whatever workers that lost their lease,
\* late calls and cancellations still do, a unit and a scan end once.
THEOREM Implementation ==
  ASSUME OneProcess
  PROVE  Spec => ImplementsOneShot
<1>1. Init => Promise!Init
  <2>1. Init => \A x \in Scans : job[x].status \notin Terminal
    BY DEF Init, NoJob, Terminal
  <2>2. Init => \A x \in Units : unit[x].status \notin Terminal
    BY DEF Init, Absent, Terminal
  <2> QED BY <2>1, <2>2 DEF Promise!Init, Outcome
<1>2. BaseInv /\ LockedInv /\ [Next]_vars => [Promise!Next]_Outcome
  <2> SUFFICES ASSUME BaseInv, LockedInv, [Next]_vars PROVE Promise!Next
    OBVIOUS
  <2>1. Final
    BY NextFinal
  <2>2. TypeOK'
    BY NextBase DEF BaseInv
  <2>3. \A x \in Scans : x \notin Units
    BY ScanJobsAssumption
  <2>4. \A x \in Scans \cup Units :
          /\ Outcome'[x] \in (Terminal \X (Results \cup {None})) \cup {None}
          /\ Outcome[x] # None => Outcome'[x] = Outcome[x]
    <3> TAKE x \in Scans \cup Units
    <3>1. CASE x \in Scans
      <4>1. Outcome[x] = IF job[x].status \in Terminal THEN <<job[x].status, None>> ELSE None
        BY <2>3, <3>1 DEF Outcome
      <4>2. Outcome'[x] = IF job'[x].status \in Terminal THEN <<job'[x].status, None>> ELSE None
        BY <2>3, <3>1 DEF Outcome
      <4> QED BY <2>1, <3>1, <4>1, <4>2 DEF Final
    <3>2. CASE x \in Units
      <4>1. Outcome[x] = IF unit[x].status \in Terminal THEN <<unit[x].status, result[x]>>
                                                       ELSE None
        BY <2>3, <3>2 DEF Outcome
      <4>2. Outcome'[x] = IF unit'[x].status \in Terminal THEN <<unit'[x].status, result'[x]>>
                                                         ELSE None
        BY <2>3, <3>2 DEF Outcome
      <4>3. result'[x] \in Results \cup {None}
        BY <2>2, <3>2 DEF TypeOK
      <4> QED BY <2>1, <3>2, <4>1, <4>2, <4>3 DEF Final
    <3> QED BY <3>1, <3>2
  <2>5. Outcome' \in [Scans \cup Units -> (Terminal \X (Results \cup {None})) \cup {None}]
    BY <2>4 DEF Outcome
  <2> QED BY <2>4, <2>5 DEF Promise!Next
<1> QED
  BY <1>1, <1>2, BaseInvariance, LockedInvariance, PTL DEF Spec, ImplementsOneShot, Promise!Spec
=============================================================================
