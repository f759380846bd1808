------------------------------ MODULE ScanJobs ------------------------------
(***************************************************************************)
(* The lease-driven store of strategy scans: a scan has one execution unit *)
(* per security, workers claim units under a lease, and every change of a  *)
(* unit refreshes the row of its scan in the same transaction.             *)
(*                                                                         *)
(* A transaction is one step where its UPDATE checks again what its SELECT *)
(* has read; a SELECT alone opens no database transaction.  Two do not:    *)
(* the UPDATE of release_or_fail names the unit only, and claim refreshes  *)
(* the scans in which it has read a unit to reap, whatever it then reaps.  *)
(* Inside a process the write lock keeps others out in between             *)
(* (OneProcess); the processes that open the database do not share it.     *)
(***************************************************************************)
EXTENDS Leases, FiniteSets

CONSTANTS
  Scans,
  Units,
  ScanOf,       \* the scan of each unit
  Rank,         \* the order of the units' security ids
  Readers,      \* callers of progress
  Results,      \* payload hashes of evaluation results
  OneProcess    \* every store shares the write lock

ASSUME ScanJobsAssumption ==
  /\ IsFiniteSet(Scans)
  /\ IsFiniteSet(Units)
  /\ Scans \cap Units = {}     \* ids of different tables
  /\ ScanOf \in [Units -> Scans]
  /\ Rank \in [Units -> Nat]
  /\ None \notin Scans \cup Units \cup Results
  /\ OneProcess \in BOOLEAN

VARIABLES
  job,      \* scan_jobs: the row of each scan
  unit,     \* scan_units: the row of each unit
  result,   \* scan_units.result_hash of each unit
  held,     \* the unit each worker was last given by claim
  release,  \* what the SELECT of a release_or_fail, or of a claim that is to
            \* reap, has read while its transaction is under way
  report    \* the progress call of each reader

vars == <<job, unit, result, held, release, report>>

UnitsOf(s) == {u \in Units : ScanOf[u] = s}

Job == [ status : {"absent"} \cup Active \cup Terminal,
         completed : Nat, failed : Nat,     \* completed_units, failed_units
         born : Nat ]                       \* created_at

NoJob == [status |-> "absent", completed |-> 0, failed |-> 0, born |-> 0]

NoRelease == [unit |-> None, exhausted |-> FALSE, scans |-> {}]

Release == [unit : Units \cup {None}, exhausted : BOOLEAN, scans : SUBSET Scans]

NoReport == [ step |-> "idle", scan |-> None, status |-> "absent",
              active |-> 0, completed |-> 0 ]

Report == [ step : {"idle", "counting", "done"},
            scan : Scans \cup {None},
            status : {"absent"} \cup Active \cup Terminal,
            active : Nat, completed : Nat ]

TypeOK ==
  /\ job \in [Scans -> Job]
  /\ unit \in [Units -> Leasable]
  /\ result \in [Units -> Results \cup {None}]
  /\ held \in [Workers -> Units \cup {None}]
  /\ release \in [Workers -> Release]
  /\ report \in [Readers -> Report]

Init ==
  /\ job = [s \in Scans |-> NoJob]
  /\ unit = [u \in Units |-> Absent]
  /\ result = [u \in Units |-> None]
  /\ held = [w \in Workers |-> None]
  /\ release = [w \in Workers |-> NoRelease]
  /\ report = [r \in Readers |-> NoReport]

-----------------------------------------------------------------------------
(* The rows of units and scans.                                            *)

With(un, status, s) == {u \in UnitsOf(s) : un[u].status = status}

\* Variant of Refreshed that ends a scan when nothing is queued any more.
RefreshedEarly(j, s, un) ==
  [ status |-> IF With(un, "queued", s) # {} THEN j.status
               ELSE IF With(un, "failed", s) # {} THEN "failed" ELSE "completed",
    completed |-> Cardinality(With(un, "completed", s)),
    failed |-> Cardinality(With(un, "failed", s)),
    born |-> j.born ]

\* _refresh_job: the counters are counted anew, and a scan without active
\* units has ended.
Refreshed(j, s, un) ==
  [ status |-> IF With(un, "queued", s) \cup With(un, "running", s) # {}
               THEN j.status
               ELSE IF With(un, "failed", s) # {} THEN "failed" ELSE "completed",
    completed |-> Cardinality(With(un, "completed", s)),
    failed |-> Cardinality(With(un, "failed", s)),
    born |-> j.born ]

\* The write lock: inside one process nothing is written between the two
\* statements of a release_or_fail or of a claim that reaps.
Unlocked == OneProcess => \A w \in Workers : release[w] = NoRelease

-----------------------------------------------------------------------------
(* The operations of the store.                                            *)

\* Time passes: the leases run out.
Tick ==
  /\ unit' = [u \in Units |-> Aged(unit[u])]
  /\ unit' # unit
  /\ UNCHANGED <<job, result, held, release, report>>

\* create_scan: the scan and all its units, or nothing when the scan exists.
\* created_at was read before the lock, so two scans need not be created in
\* the order of their created_at.
CreateScan(s) ==
  /\ Unlocked
  /\ job[s] = NoJob
  /\ UnitsOf(s) # {}
  /\ \E born \in 1 .. Cardinality(Scans) :
       job' = [job EXCEPT ![s] = [NoJob EXCEPT !.status = "queued", !.born = born]]
  /\ unit' = [u \in Units |-> IF ScanOf[u] = s
                              THEN Enqueued
                              ELSE unit[u]]
  /\ UNCHANGED <<result, held, release, report>>

\* Variant of Exhausted: no claim reaps.
NothingExhausted(d) == {}

\* claim, first part: units whose last attempt ran out of its lease.
Exhausted(d) ==
  {u \in Units : /\ unit[u].status = "running"
                 /\ OutOfAttempts(unit[u])
                 /\ Expired(unit[u], d)}

\* The SELECT finds their scans S; the UPDATE fails those that are still
\* there, and the scans of S are refreshed.
ScansRead(d) == {ScanOf[u] : u \in Exhausted(d)}

Reaped(S, d) == {u \in Exhausted(d) : ScanOf[u] \in S}

UnitsReaped(S, d) ==
  [u \in Units |-> IF u \in Reaped(S, d) THEN Ended(unit[u], "failed") ELSE unit[u]]

\* Variant of JobsReaped that forgets to refresh the scans.
JobsUnrefreshed(S, d) == job

JobsReaped(S, d) ==
  [s \in Scans |-> IF s \in S THEN Refreshed(job[s], s, UnitsReaped(S, d)) ELSE job[s]]

\* claim, second part: the first claimable unit of an active scan.
Claimable(S, u, d) ==
  /\ JobsReaped(S, d)[ScanOf[u]].status \in Active
  /\ Free(UnitsReaped(S, d)[u], d)

Before(u, v) ==
  LET s == ScanOf[u]
      t == ScanOf[v]
  IN job[s].born < job[t].born \/ (job[s].born = job[t].born /\ Rank[u] < Rank[v])

FirstClaimable(S, d) ==
  {u \in Units : /\ Claimable(S, u, d)
                 /\ \A v \in Units : Claimable(S, v, d) => ~Before(v, u)}

ClaimFrom(w, S, d) ==
  \/ /\ FirstClaimable(S, d) = {}
     /\ S # {}
     /\ unit' = UnitsReaped(S, d)
     /\ job' = JobsReaped(S, d)
     /\ UNCHANGED held
  \/ \E u \in FirstClaimable(S, d) :
       /\ unit' = [UnitsReaped(S, d) EXCEPT ![u] = Leased(unit[u], w, d)]
       /\ job' = [JobsReaped(S, d) EXCEPT ![ScanOf[u]].status = "running"]
       /\ held' = [held EXCEPT ![w] = u]

Idle(w) == held[w] = None /\ release[w] = NoRelease

\* claim, when there is nothing to reap.
Claim(w) ==
  /\ Unlocked
  /\ Idle(w)
  /\ \E d \in Lags : Exhausted(d) = {} /\ ClaimFrom(w, {}, d)
  /\ UNCHANGED <<result, release, report>>

\* claim, the SELECT of what is to be reaped.
ReapRead(w) ==
  /\ Unlocked
  /\ Idle(w)
  /\ \E d \in Lags :
       /\ Exhausted(d) # {}
       /\ release' = [release EXCEPT ![w] = [NoRelease EXCEPT !.scans = ScansRead(d)]]
  /\ UNCHANGED <<job, unit, result, held, report>>

\* claim, the rest: whatever has become of what the SELECT has found.
ReapWrite(w) ==
  /\ release[w].scans # {}
  /\ \E d \in Lags : ClaimFrom(w, release[w].scans, d)
  /\ release' = [release EXCEPT ![w] = NoRelease]
  /\ UNCHANGED <<result, report>>

\* heartbeat: a lease that is still valid is granted anew.
Heartbeat(w) ==
  /\ Unlocked
  /\ \E u \in Units, d \in Lags :
       /\ held[w] = u
       /\ Valid(unit[u], w, d)
       /\ unit' = [unit EXCEPT ![u] = Renewed(@, d)]
  /\ UNCHANGED <<job, result, held, release, report>>

\* complete: the result is stored under a valid lease.  On a unit that is
\* completed, or without a valid lease, nothing is written.  The worker
\* keeps the unit, so that it may repeat the call.
Complete(w) ==
  /\ Unlocked
  /\ release[w] = NoRelease
  /\ \E u \in Units, d \in Lags, hash \in Results :
       /\ held[w] = u
       /\ Valid(unit[u], w, d)
       /\ unit' = [unit EXCEPT ![u] = Ended(@, "completed")]
       /\ result' = [result EXCEPT ![u] = hash]
       /\ job' = [job EXCEPT ![ScanOf[u]] = Refreshed(@, ScanOf[u], unit')]
  /\ UNCHANGED <<held, release, report>>

\* release_or_fail, the SELECT: the lease may have expired by now.
ReleaseRead(w) ==
  /\ Unlocked
  /\ release[w] = NoRelease
  /\ \E u \in Units :
       /\ held[w] = u
       /\ unit[u].status = "running"
       /\ unit[u].owner = w
       /\ release' = [release EXCEPT ![w] =
                        [unit |-> u, exhausted |-> OutOfAttempts(unit[u]), scans |-> {}]]
  /\ UNCHANGED <<job, unit, result, held, report>>

\* release_or_fail, the UPDATE: whatever has become of the unit.
ReleaseWrite(w) ==
  /\ \E u \in Units :
       /\ release[w].unit = u
       /\ unit' = [unit EXCEPT ![u] =
                     Ended(@, IF release[w].exhausted THEN "failed" ELSE "queued")]
       /\ job' = [job EXCEPT ![ScanOf[u]] = Refreshed(@, ScanOf[u], unit')]
  /\ release' = [release EXCEPT ![w] = NoRelease]
  /\ UNCHANGED <<result, held, report>>

\* The worker crashes, or is done with its unit.
Forget(w) ==
  /\ ~Idle(w)
  /\ held' = [held EXCEPT ![w] = None]
  /\ release' = [release EXCEPT ![w] = NoRelease]
  /\ UNCHANGED <<job, unit, result, report>>

\* Variant of Cancel that cancels the units that have ended, too.
CancelEveryUnit(s) ==
  /\ Unlocked
  /\ job[s].status \in Active
  /\ job' = [job EXCEPT ![s].status = "cancelled"]
  /\ unit' = [u \in Units |-> IF ScanOf[u] = s THEN Ended(unit[u], "cancelled")
                                              ELSE unit[u]]
  /\ UNCHANGED <<result, held, release, report>>

\* cancel: the scan and its active units; the counters stay.
Cancel(s) ==
  /\ Unlocked
  /\ job[s].status \in Active
  /\ job' = [job EXCEPT ![s].status = "cancelled"]
  /\ unit' = [u \in Units |-> IF ScanOf[u] = s /\ unit[u].status \in Active
                              THEN Ended(unit[u], "cancelled")
                              ELSE unit[u]]
  /\ UNCHANGED <<result, held, release, report>>

\* progress, the SELECT of the scan.
ReadStatus(r, s) ==
  /\ report[r].step # "counting"
  /\ job[s] # NoJob
  /\ report' = [report EXCEPT ![r] = [NoReport EXCEPT !.step = "counting",
                                                      !.scan = s,
                                                      !.status = job[s].status]]
  /\ UNCHANGED <<job, unit, result, held, release>>

\* progress, the SELECT of the counts: not in one snapshot with the first.
ReadCounts(r) ==
  LET s == report[r].scan IN
  /\ report[r].step = "counting"
  /\ report' = [report EXCEPT ![r].step = "done",
                  ![r].active = Cardinality(With(unit, "queued", s)
                                              \cup With(unit, "running", s)),
                  ![r].completed = Cardinality(With(unit, "completed", s))]
  /\ UNCHANGED <<job, unit, result, held, release>>

Next ==
  \/ Tick
  \/ \E s \in Scans : CreateScan(s) \/ Cancel(s)
  \/ \E w \in Workers :
       \/ Claim(w) \/ ReapRead(w) \/ ReapWrite(w)
       \/ Heartbeat(w) \/ Complete(w)
       \/ ReleaseRead(w) \/ ReleaseWrite(w) \/ Forget(w)
  \/ \E r \in Readers, s \in Scans : ReadStatus(r, s)
  \/ \E r \in Readers : ReadCounts(r)

Spec == Init /\ [][Next]_vars

\* Workers poll, a worker does not hold a unit for ever (it completes it,
\* gives it back, or crashes), a transaction that began ends, and of the
\* claims that begin to reap again and again not every one is cut off.
Fairness ==
  /\ WF_vars(Tick)
  /\ WF_vars(\E w \in Workers : Claim(w) \/ ReapRead(w))
  /\ SF_vars(\E w \in Workers : ReapWrite(w))
  /\ \A w \in Workers :
       WF_vars(Complete(w) \/ ReleaseRead(w) \/ ReleaseWrite(w) \/ Forget(w))

FairSpec == Spec /\ Fairness

-----------------------------------------------------------------------------
(* Properties.                                                             *)

\* The row of a scan and the rows of its units agree although they change
\* through different operations: a scan has ended exactly when none of its
\* units is active, and its status is what became of them.
JobAgrees ==
  \A s \in Scans :
    LET statuses == {unit[u].status : u \in UnitsOf(s)} IN
    /\ job[s].status \in Terminal => statuses \subseteq Terminal
    /\ job[s].status \in Active => statuses \cap Active # {}
    /\ job[s].status = "completed" => statuses = {"completed"}
    /\ job[s].status = "failed" => "failed" \in statuses /\ "cancelled" \notin statuses
    /\ "running" \in statuses => job[s].status = "running"

\* The counters of a scan are exact whatever has ended it.
CountersExact ==
  \A s \in Scans :
    /\ job[s].completed = Cardinality(With(unit, "completed", s))
    /\ job[s].failed = Cardinality(With(unit, "failed", s))

\* Retries are bounded, and a unit given back always has an attempt left:
\* without one it would never be claimed nor failed and its scan would hang.
AttemptsBounded ==
  \A u \in Units :
    /\ unit[u].attempts <= MaxAttempts
    /\ unit[u].status = "queued" => unit[u].attempts < MaxAttempts

\* What progress reports is consistent although it reads the scan and the
\* units in two snapshots: a scan reported as ended has no active units.
ReportConsistent ==
  \A r \in Readers :
    (report[r].step = "done" /\ report[r].status \in Terminal) =>
      /\ report[r].active = 0
      /\ report[r].status = "completed" =>
           report[r].completed = Cardinality(UnitsOf(report[r].scan))

\* A worker with a stale clock never takes a unit whose lease still runs.
NoEarlySteal ==
  [][ \A u \in Units :
        (/\ unit[u].status = "running" /\ unit'[u].status = "running"
         /\ unit'[u].attempts # unit[u].attempts) => unit[u].left < 0 ]_vars

\* What became of each scan and of each unit, with its result.
Outcome ==
  [x \in Scans \cup Units |->
     CASE x \in Scans /\ job[x].status \in Terminal -> <<job[x].status, None>>
       [] x \in Units /\ unit[x].status \in Terminal ->
            <<unit[x].status, result[x]>>
       [] OTHER -> None]

Promise == INSTANCE OneShot WITH
  Items <- Scans \cup Units,
  Outcomes <- Terminal \X (Results \cup {None}),
  Open <- None,
  outcome <- Outcome

\* Nothing a worker, a cancellation or a late call does changes what became
\* of a unit or of a scan.
ImplementsOneShot == Promise!Spec

\* Every scan ends, although workers crash, stall and give units back.
ScanEnds == \A s \in Scans : (job[s].status \in Active) ~> (job[s].status \in Terminal)

\* A cancelled scan stays cancelled and none of its units is revived
\* ("terminal states ... are idempotent").
CancelSticks ==
  [][ \A s \in Scans : job[s].status = "cancelled" =>
        /\ job'[s].status = "cancelled"
        /\ \A u \in UnitsOf(s) : unit'[u].status \in Terminal ]_vars
=============================================================================
