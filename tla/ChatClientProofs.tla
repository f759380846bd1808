-------------------------- MODULE ChatClientProofs --------------------------
(***************************************************************************)
(* Proofs about ChatClient and the event log below it, for any number of   *)
(* runs, cards and publishers.                                             *)
(*                                                                         *)
(* The argument for the client: whatever is shown or on its way from a     *)
(* snapshot covers the events of the active run up to the cursor, unless   *)
(* it is marked as having a gap, and the stream asks for what follows the  *)
(* cursor.  The numbers of a run have no gaps, and the cursor is within    *)
(* them unless it was reached in another run, so an event that is          *)
(* announced later lies beyond it.                                         *)
(***************************************************************************)
EXTENDS ChatClient, FiniteSetTheorems, TLAPS

\* What a publisher that has saved its card knows.
TaskOK(t) ==
  /\ t.step # "idle" => t.card \in Cards /\ t.revision \in 1..version[t.card]
  /\ t.step \in {"count", "append"} =>
       \E n \in DOMAIN saved[t.card] : saved[t.card][n] = t.revision

TaskInv == \A p \in Publishers : TaskOK(task[p])

ServerInv == ServerTypeOK /\ IsFiniteSet(log) /\ LogGapless /\ AnnouncedSaved /\ TaskInv

\* The page v shows the events of the active run up to the cursor.
Covers(v) ==
  \A e \in log :
    (e.run = active /\ e.sequence <= cursor) => v[e.card] >= e.revision

\* The cursor was reached in the active run, by the stream or by a snapshot
\* that read as far.
Within == gap # "joined" \/ (Overwritten /\ fetch.late # "joined")

CursorInv ==
  /\ active = None => cursor = 0
  /\ (active # None /\ Within) => cursor <= Cardinality(EventsOf(active))
  /\ \A r \in Runs : seen[r] <= cursor
  /\ stream.state # "off" => stream.run = active /\ stream.at = cursor

PageInv ==
  /\ restored /\ gap = "none" => Covers(view)
  /\ Overwritten /\ fetch.late = "none" => Covers(fetch.cards)

-----------------------------------------------------------------------------
(* Facts about numbers.                                                    *)

LEMMA MaxIs ==
  ASSUME NEW S \in SUBSET Nat, NEW m \in S, \A x \in S : x <= m
  PROVE  Max(S) = m
<1>1. m \in S /\ \A y \in S : m >= y
  OBVIOUS
<1>2. Max(S) \in S /\ \A y \in S : Max(S) >= y
  BY <1>1, Zenon DEF Max
<1>3. Max(S) >= m /\ m >= Max(S)
  BY <1>1, <1>2
<1>4. Max(S) \in Nat /\ m \in Nat
  BY <1>2
<1> QED BY <1>3, <1>4

\* Of revisions there is always a newest.
LEMMA MaxRevision ==
  ASSUME NEW S \in SUBSET Versions, NEW m \in S
  PROVE  Max(S) \in S /\ Max(S) >= m
<1>1. \E n \in S : \A x \in S : x <= n
  BY SMT DEF Versions
<1>2. PICK n \in S : \A x \in S : x <= n
  BY <1>1
<1>3. Max(S) = n
  BY <1>2, MaxIs, SMT DEF Versions
<1> QED BY <1>2, <1>3

LEMMA LastIsCount ==
  ASSUME ServerInv, NEW r \in Runs
  PROVE  /\ Cardinality(EventsOf(r)) \in Nat
         /\ LastSequence(r) = Cardinality(EventsOf(r))
<1> DEFINE n == Cardinality(EventsOf(r))
           S == {e.sequence : e \in EventsOf(r)}
<1>1. n \in Nat
  BY FS_Subset, FS_CardinalityType DEF ServerInv, EventsOf
<1>2. S = 1..n
  BY DEF ServerInv, LogGapless
<1>3. {0} \cup S \in SUBSET Nat /\ n \in {0} \cup S /\ \A x \in {0} \cup S : x <= n
  BY <1>1, <1>2
<1>4. Max({0} \cup S) = n
  BY <1>3, MaxIs
<1> QED BY <1>1, <1>4 DEF LastSequence

-----------------------------------------------------------------------------
(* The server.                                                             *)

LEMMA InitServer == ServerInit => ServerInv
<1> SUFFICES ASSUME ServerInit PROVE ServerInv
  OBVIOUS
<1>1. ServerTypeOK
  BY DEF ServerInit, ServerTypeOK, Versions, Task, NoTask
<1>2. IsFiniteSet(log) /\ AnnouncedSaved
  BY FS_EmptySet DEF ServerInit, AnnouncedSaved
<1>3. ASSUME NEW r \in Runs
      PROVE  EventsOf(r) = {} /\ Cardinality(EventsOf(r)) = 0
  BY FS_EmptySet DEF ServerInit, EventsOf
<1>4. LogGapless
  BY <1>3 DEF LogGapless
<1>5. TaskInv
  BY DEF ServerInit, TaskInv, TaskOK, NoTask
<1> QED BY <1>1, <1>2, <1>4, <1>5 DEF ServerInv

\* The log as it is, or with one more event at the end of a run.
Grows ==
  \/ log' = log
  \/ \E e \in Event :
       /\ e.sequence = Cardinality(EventsOf(e.run)) + 1
       /\ log' = log \cup {e}
       /\ \A r \in Runs :
            Cardinality(EventsOf(r))' =
              Cardinality(EventsOf(r)) + (IF r = e.run THEN 1 ELSE 0)

LEMMA TaskFields ==
  ASSUME ServerTypeOK, NEW p \in Publishers
  PROVE  /\ task[p].step \in {"idle", "read", "save", "count", "append"}
         /\ task[p].card \in Cards \cup {None}
         /\ task[p].revision \in Versions
         /\ task[p].base \in Nat
BY DEF ServerTypeOK, Task

LEMMA GrowStep ==
  ASSUME ServerInv, NEW e \in Event,
         e.sequence = Cardinality(EventsOf(e.run)) + 1, log' = log \cup {e}
  PROVE  LogGapless' /\ IsFiniteSet(log)' /\ Grows
<1> DEFINE r == e.run
           n == Cardinality(EventsOf(r))
<1>1. r \in Runs /\ n \in Nat
  BY LastIsCount DEF Event
<1>2. {f.sequence : f \in EventsOf(r)} = 1..n
  BY <1>1 DEF ServerInv, LogGapless
<1>3. \A f \in EventsOf(r) : f.sequence \in 1..n
  BY <1>2
<1>4. e \notin EventsOf(r)
  BY <1>1, <1>3
<1>5. EventsOf(r)' = EventsOf(r) \cup {e}
  BY DEF EventsOf
<1>6. IsFiniteSet(EventsOf(r)) /\ IsFiniteSet(log')
  BY FS_Subset, FS_AddElement DEF ServerInv, EventsOf
<1>7. Cardinality(EventsOf(r))' = n + 1
  BY <1>4, <1>5, <1>6, FS_AddElement
<1>8. ASSUME NEW s \in Runs, s # r
      PROVE  EventsOf(s)' = EventsOf(s)
  BY <1>8 DEF EventsOf
<1>9. Grows
  BY <1>1, <1>7, <1>8, LastIsCount DEF Grows
<1>10. LogGapless'
  <2> SUFFICES ASSUME NEW s \in Runs
               PROVE  /\ {f.sequence : f \in EventsOf(s)'} = 1..Cardinality(EventsOf(s)')
                      /\ \A f, g \in EventsOf(s)' : f.sequence = g.sequence => f = g
    BY DEF LogGapless
  <2>1. CASE s # r
    BY <1>8, <2>1 DEF ServerInv, LogGapless
  <2>2. CASE s = r
    <3>1. {f.sequence : f \in EventsOf(r)'} = (1..n) \cup {n + 1}
      BY <1>2, <1>5
    <3>2. (1..n) \cup {n + 1} = 1..(n + 1)
      BY <1>1
    <3>3. \A f, g \in EventsOf(r) : f.sequence = g.sequence => f = g
      BY <1>1 DEF ServerInv, LogGapless
    <3>4. \A f, g \in EventsOf(r)' : f.sequence = g.sequence => f = g
      BY <1>1, <1>3, <1>5, <3>3
    <3> QED BY <2>2, <1>7, <3>1, <3>2, <3>4
  <2> QED BY <2>1, <2>2
<1> QED BY <1>6, <1>9, <1>10

LEMMA SameVersions ==
  ASSUME ServerTypeOK, version' = version
  PROVE  \A c \in Cards : version[c] <= version'[c]
<1>1. \A c \in Cards : version[c] \in Versions
  BY DEF ServerTypeOK
<1> QED BY <1>1 DEF Versions

\* A publisher moves on, and the others stay where they are.
LEMMA OneTask ==
  ASSUME ServerTypeOK, TaskInv, NEW p \in Publishers, NEW t \in Task,
         task' = [task EXCEPT ![p] = t],
         version' \in [Cards -> Versions],
         \A c \in Cards : version[c] <= version'[c],
         \A c \in Cards : \A n \in DOMAIN saved[c] :
           n \in DOMAIN saved'[c] /\ saved'[c][n] = saved[c][n],
         TaskOK(t)'
  PROVE  task' \in [Publishers -> Task] /\ TaskInv'
<1>1. task' \in [Publishers -> Task] /\ task'[p] = t
  BY DEF ServerTypeOK
<1>2. ASSUME NEW q \in Publishers, q # p
      PROVE  TaskOK(task[q])'
  <2>1. task'[q] = task[q] /\ task[q] \in Task /\ TaskOK(task[q])
    BY <1>2 DEF ServerTypeOK, TaskInv
  <2>2. CASE task[q].step = "idle"
    BY <2>1, <2>2 DEF TaskOK
  <2>3. CASE task[q].step # "idle"
    <3>1. task[q].card \in Cards /\ task[q].revision \in 1..version[task[q].card]
      BY <2>1, <2>3 DEF TaskOK
    <3>2. version[task[q].card] \in Versions /\ version'[task[q].card] \in Versions
      BY <3>1 DEF ServerTypeOK
    <3>3. version[task[q].card] <= version'[task[q].card]
      BY <3>1
    <3>4. task[q].revision \in 1..version'[task[q].card]
      BY <3>1, <3>2, <3>3 DEF Versions
    <3>5. task[q].step \in {"count", "append"} =>
            \E n \in DOMAIN saved'[task[q].card] :
              saved'[task[q].card][n] = task[q].revision
      BY <2>1, <3>1 DEF TaskOK
    <3> QED BY <2>1, <3>1, <3>4, <3>5 DEF TaskOK
  <2> QED BY <2>2, <2>3
<1>3. TaskOK(task[p])'
  BY <1>1 DEF TaskOK
<1> QED BY <1>1, <1>2, <1>3 DEF TaskInv

LEMMA AppendStep ==
  ASSUME ServerInv, NEW p \in Publishers, AppendEvent(p)
  PROVE  ServerInv' /\ Grows
<1> USE EventLogAssumption
<1>1. PICK c \in Cards : c = task[p].card
  BY DEF ServerInv, TaskInv, TaskOK, AppendEvent
<1>2. PICK e : e = [ run |-> RunOf[c], sequence |-> task[p].base + 1,
                     card |-> c, revision |-> task[p].revision ]
  OBVIOUS
<1>3. /\ task[p].base \in Nat
      /\ task[p].revision \in Revisions /\ task[p].revision <= version[c]
      /\ \E n \in DOMAIN saved[c] : saved[c][n] = task[p].revision
  <2>1. TaskOK(task[p]) /\ task[p].step = "append"
    BY DEF ServerInv, TaskInv, AppendEvent
  <2>2. version[c] \in Versions /\ task[p].revision \in 1..version[c]
    BY <1>1, <2>1 DEF TaskOK, ServerInv, ServerTypeOK
  <2>3. task[p].revision \in Versions /\ task[p].base \in Nat
    BY TaskFields DEF ServerInv
  <2> QED BY <1>1, <2>1, <2>2, <2>3 DEF TaskOK, Versions, Revisions
<1>4. e \in Event
  BY <1>2, <1>3 DEF Event
<1>5. task' \in [Publishers -> Task] /\ TaskInv'
  <2>1. NoTask \in Task /\ TaskOK(NoTask)'
    BY DEF NoTask, Task, TaskOK, Versions
  <2>2. /\ task' = [task EXCEPT ![p] = NoTask]
        /\ version' = version /\ saved' = saved
    BY DEF AppendEvent
  <2>3. \A d \in Cards : version[d] <= version'[d]
    BY <2>2, SameVersions DEF ServerInv
  <2> QED BY <2>1, <2>2, <2>3, OneTask DEF ServerInv, ServerTypeOK
<1>6. CASE ~FollowsOn(RunOf[c], task[p].base)
  <2>1. log' = log
    BY <1>1, <1>6 DEF AppendEvent
  <2> QED
    BY <1>5, <2>1
    DEF ServerInv, ServerTypeOK, LogGapless, AnnouncedSaved, EventsOf, AppendEvent, Grows
<1>7. CASE FollowsOn(RunOf[c], task[p].base)
  <2>1. log' = log \cup {e}
    BY <1>1, <1>2, <1>7 DEF AppendEvent
  <2>2. e.sequence = Cardinality(EventsOf(e.run)) + 1
    BY <1>2, <1>7, LastIsCount DEF FollowsOn
  <2>3. LogGapless' /\ IsFiniteSet(log)' /\ Grows
    BY <1>4, <2>1, <2>2, GrowStep
  <2>4. AnnouncedSaved'
    BY <1>2, <1>3, <2>1 DEF ServerInv, AnnouncedSaved, AppendEvent
  <2>5. ServerTypeOK'
    BY <1>4, <1>5, <2>1 DEF ServerInv, ServerTypeOK, AppendEvent
  <2> QED BY <1>5, <2>3, <2>4, <2>5 DEF ServerInv
<1> QED BY <1>6, <1>7

\* The steps that leave the log alone.
LEMMA QuietServer ==
  ASSUME ServerInv, UNCHANGED log, ServerTypeOK', TaskInv',
         \A c \in Cards : version[c] <= version'[c],
         \A c \in Cards : \A n \in DOMAIN saved[c] :
           n \in DOMAIN saved'[c] /\ saved'[c][n] = saved[c][n]
  PROVE  ServerInv' /\ Grows
<1>1. LogGapless' /\ IsFiniteSet(log)' /\ Grows
  BY DEF ServerInv, LogGapless, EventsOf, Grows
<1>2. AnnouncedSaved'
  <2> SUFFICES ASSUME NEW e \in log
               PROVE  /\ \E n \in DOMAIN saved'[e.card] :
                            saved'[e.card][n] = e.revision
                      /\ e.revision <= version'[e.card]
    BY DEF AnnouncedSaved
  <2>1. e.card \in Cards /\ e.revision \in Revisions
    BY DEF ServerInv, ServerTypeOK, Event
  <2>2. version[e.card] \in Versions /\ version'[e.card] \in Versions
    BY <2>1 DEF ServerInv, ServerTypeOK
  <2>3. /\ \E n \in DOMAIN saved[e.card] : saved[e.card][n] = e.revision
        /\ e.revision <= version[e.card]
    BY DEF ServerInv, AnnouncedSaved
  <2>4. e.revision <= version'[e.card]
    BY <2>1, <2>2, <2>3 DEF Versions, Revisions
  <2> QED BY <2>1, <2>3, <2>4
<1> QED BY <1>1, <1>2 DEF ServerInv

LEMMA StartRunStep ==
  ASSUME ServerInv, NEW r \in Runs, StartRun(r)
  PROVE  ServerInv' /\ Grows
<1>1. ServerTypeOK' /\ TaskInv'
  BY DEF ServerInv, ServerTypeOK, TaskInv, TaskOK, StartRun
<1>2. \A c \in Cards : version[c] <= version'[c]
  BY SameVersions DEF ServerInv, StartRun
<1> QED BY <1>1, <1>2, QuietServer DEF StartRun

LEMMA ChangeStep ==
  ASSUME ServerInv, NEW p \in Publishers, NEW c \in Cards, Change(p, c)
  PROVE  ServerInv' /\ Grows
<1>0. PICK t : t = [step |-> "read", card |-> c, revision |-> version[c] + 1, base |-> 0]
  OBVIOUS
<1>1. version[c] \in {0, 1}
  BY DEF ServerInv, ServerTypeOK, Change, Fresh, Versions
<1>2. /\ version' \in [Cards -> Versions] /\ version'[c] = version[c] + 1
      /\ \A d \in Cards : d # c => version'[d] = version[d]
  BY <1>1 DEF ServerInv, ServerTypeOK, Change, Versions
<1>3. \A d \in Cards : version[d] <= version'[d]
  <2> TAKE d \in Cards
  <2>1. version[d] \in Versions
    BY DEF ServerInv, ServerTypeOK
  <2> QED BY <1>1, <1>2, <2>1 DEF Versions
<1>4. t \in Task /\ TaskOK(t)'
  BY <1>0, <1>1, <1>2 DEF Task, Versions, TaskOK
<1>5. task' \in [Publishers -> Task] /\ TaskInv'
  BY <1>0, <1>2, <1>3, <1>4, OneTask DEF ServerInv, Change
<1>6. ServerTypeOK'
  BY <1>2, <1>5 DEF ServerInv, ServerTypeOK, Change
<1> QED BY <1>3, <1>5, <1>6, QuietServer DEF Change

LEMMA SaveStep ==
  ASSUME ServerInv, NEW p \in Publishers, SaveCard(p)
  PROVE  ServerInv' /\ Grows
<1> DEFINE c == task[p].card
           t == [task[p] EXCEPT !.step = "count"]
<1>1. /\ c \in Cards /\ task[p].revision \in 1..version[c]
      /\ task[p] \in Task /\ saved[c] \in Seq(Revisions)
  BY DEF ServerInv, ServerTypeOK, TaskInv, TaskOK, SaveCard
<1>2. task[p].revision \in Revisions
  BY <1>1 DEF Task, Versions, Revisions, ServerInv, ServerTypeOK
<1>3. \A d \in Cards : version[d] <= version'[d]
  BY SameVersions DEF ServerInv, SaveCard
<1>4. CASE Len(saved[c]) = task[p].base
  <2>1. /\ saved' = [saved EXCEPT ![c] = Append(@, task[p].revision)]
        /\ task' = [task EXCEPT ![p] = t]
        /\ UNCHANGED <<started, version, log>>
    BY <1>1, <1>4 DEF SaveCard, ServerInv, ServerTypeOK
  <2>2. /\ saved'[c] = Append(saved[c], task[p].revision)
        /\ \A d \in Cards : d # c => saved'[d] = saved[d]
        /\ DOMAIN saved' = Cards
    BY <1>1, <2>1 DEF ServerInv, ServerTypeOK
  <2>3. /\ saved'[c] \in Seq(Revisions)
        /\ \E n \in DOMAIN saved'[c] : saved'[c][n] = task[p].revision
        /\ \A n \in DOMAIN saved[c] : n \in DOMAIN saved'[c] /\ saved'[c][n] = saved[c][n]
    <3>1. Len(saved'[c]) \in DOMAIN saved'[c] /\ saved'[c][Len(saved'[c])] = task[p].revision
      BY <1>1, <1>2, <2>2
    <3> QED BY <1>1, <1>2, <2>2, <3>1
  <2>4. \A d \in Cards : \A n \in DOMAIN saved[d] :
          n \in DOMAIN saved'[d] /\ saved'[d][n] = saved[d][n]
    BY <2>2, <2>3
  <2>5. saved' \in [Cards -> Seq(Revisions)]
    BY <1>1, <1>2, <2>1 DEF ServerInv, ServerTypeOK
  <2>6. t \in Task /\ t.step = "count" /\ t.card = c /\ t.revision = task[p].revision
    BY <1>1 DEF Task
  <2>7. TaskOK(t)'
    BY <1>1, <2>1, <2>3, <2>6 DEF TaskOK
  <2>8. task' \in [Publishers -> Task] /\ TaskInv'
    BY <1>3, <2>1, <2>4, <2>6, <2>7, OneTask DEF ServerInv, ServerTypeOK
  <2>9. ServerTypeOK'
    BY <2>1, <2>5, <2>8 DEF ServerInv, ServerTypeOK
  <2> QED BY <1>3, <2>1, <2>4, <2>8, <2>9, QuietServer
<1>5. CASE Len(saved[c]) # task[p].base
  <2>1. /\ UNCHANGED <<started, version, saved, log>>
        /\ task' = [task EXCEPT ![p] = NoTask]
    BY <1>5 DEF SaveCard
  <2>2. NoTask \in Task /\ TaskOK(NoTask)'
    BY DEF NoTask, Task, TaskOK, Versions
  <2>3. task' \in [Publishers -> Task] /\ TaskInv'
    BY <1>3, <2>1, <2>2, OneTask DEF ServerInv, ServerTypeOK
  <2>4. ServerTypeOK'
    BY <2>1, <2>3 DEF ServerInv, ServerTypeOK
  <2> QED BY <1>3, <2>1, <2>3, <2>4, QuietServer
<1> QED BY <1>4, <1>5

\* A publisher reads, or stops.
LEMMA ReadStep ==
  ASSUME ServerInv, NEW p \in Publishers, ReadCard(p) \/ CountEvents(p) \/ Stop(p)
  PROVE  ServerInv' /\ Grows
<1> USE EventLogAssumption
<1>1. UNCHANGED <<started, version, saved, log>>
  BY DEF ReadCard, CountEvents, Stop
<1>2. /\ \A c \in Cards : version[c] <= version'[c]
      /\ version' \in [Cards -> Versions]
      /\ \A c \in Cards : \A n \in DOMAIN saved[c] :
           n \in DOMAIN saved'[c] /\ saved'[c][n] = saved[c][n]
  BY <1>1, SameVersions DEF ServerInv, ServerTypeOK
<1>3. task[p] \in Task /\ TaskOK(task[p])
  BY DEF ServerInv, ServerTypeOK, TaskInv
<1>4. PICK t \in Task : task' = [task EXCEPT ![p] = t] /\ TaskOK(t)
  <2>1. CASE ReadCard(p)
    <3> DEFINE t == [task[p] EXCEPT !.step = "save", !.base = Len(saved[task[p].card])]
    <3>1. task[p].card \in Cards
      BY <1>3, <2>1 DEF TaskOK, ReadCard
    <3>2. Len(saved[task[p].card]) \in Nat
      BY <3>1 DEF ServerInv, ServerTypeOK
    <3>3. t \in Task /\ TaskOK(t)
      BY <1>3, <2>1, <3>2 DEF Task, TaskOK, ReadCard
    <3>4. task' = [task EXCEPT ![p] = t]
      BY <1>3, <2>1 DEF ReadCard, ServerInv, ServerTypeOK
    <3> QED BY <3>3, <3>4
  <2>2. CASE CountEvents(p)
    <3> DEFINE n == Cardinality(EventsOf(RunOf[task[p].card]))
               t == [task[p] EXCEPT !.step = "append", !.base = n]
    <3>1. task[p].card \in Cards
      BY <1>3, <2>2 DEF TaskOK, CountEvents
    <3>2. n \in Nat
      BY <3>1, LastIsCount
    <3>3. t \in Task /\ TaskOK(t)
      <4> HIDE DEF n
      <4> QED BY <1>3, <2>2, <3>2 DEF Task, TaskOK, CountEvents
    <3>4. task' = [task EXCEPT ![p] = t]
      <4>1. task' = [task EXCEPT ![p].step = "append", ![p].base = n]
        BY <2>2 DEF CountEvents
      <4> HIDE DEF n
      <4> QED BY <1>3, <4>1 DEF ServerInv, ServerTypeOK
    <3> QED BY <3>3, <3>4
  <2>3. CASE Stop(p)
    <3>1. NoTask \in Task /\ TaskOK(NoTask)
      BY DEF NoTask, Task, TaskOK, Versions
    <3> QED BY <2>3, <3>1 DEF Stop
  <2> QED BY <2>1, <2>2, <2>3
<1>5. TaskOK(t)'
  BY <1>1, <1>4 DEF TaskOK
<1>6. task' \in [Publishers -> Task] /\ TaskInv'
  BY <1>2, <1>4, <1>5, OneTask DEF ServerInv
<1>7. ServerTypeOK'
  BY <1>1, <1>6 DEF ServerInv, ServerTypeOK
<1> QED BY <1>1, <1>2, <1>6, <1>7, QuietServer

LEMMA PublishStep == ServerInv /\ Publish => ServerInv' /\ Grows
BY ChangeStep, SaveStep, AppendStep, ReadStep DEF Publish

LEMMA SameServer == ServerInv /\ UNCHANGED serverVars => ServerInv' /\ Grows
BY DEF serverVars, ServerInv, ServerTypeOK, LogGapless, AnnouncedSaved, TaskInv,
       TaskOK, EventsOf, Grows

-----------------------------------------------------------------------------
(* The client.                                                             *)

LEMMA NewerIs ==
  ASSUME NEW a \in Versions, NEW b \in Versions
  PROVE  Newer(a, b) \in Versions /\ Newer(a, b) >= a /\ Newer(a, b) >= b
BY DEF Newer, Versions

LEMMA MergedIs ==
  ASSUME NEW v \in View, NEW w \in View
  PROVE  Merged(v, w) \in View /\ \A c \in Cards : Merged(v, w)[c] >= v[c]
<1>1. ASSUME NEW c \in Cards
      PROVE  Newer(v[c], w[c]) \in Versions /\ Newer(v[c], w[c]) >= v[c]
  BY NewerIs DEF View
<1> QED BY <1>1 DEF Merged, View

LEMMA AnnouncedIs ==
  ASSUME ServerTypeOK, NEW c \in Cards
  PROVE  /\ Announced(c) \in Versions
         /\ \A e \in log : e.card = c => Announced(c) >= e.revision
<1> DEFINE S == {0} \cup {e.revision : e \in {f \in log : f.card = c}}
<1>1. S \in SUBSET Versions /\ 0 \in S
  BY DEF ServerTypeOK, Event, Versions, Revisions
<1>2. Max(S) \in S /\ \A m \in S : Max(S) >= m
  <2> HIDE DEF S
  <2> QED BY <1>1, MaxRevision
<1> QED BY <1>1, <1>2 DEF Announced

LEMMA RestIs ==
  ASSUME ServerTypeOK
  PROVE  [c \in Cards |-> Newer(Pending(c), Latest(c))] \in View
<1>1. ASSUME NEW c \in Cards
      PROVE  Newer(Pending(c), Latest(c)) \in Versions
  <2>1. Pending(c) \in Versions
    BY DEF Pending, Versions
  <2>2. saved[c] \in Seq(Revisions)
    BY DEF ServerTypeOK
  <2>3. Latest(c) \in Versions
    <3>1. CASE saved[c] = <<>>
      BY <3>1 DEF Latest, Versions
    <3>2. CASE saved[c] # <<>>
      <4>1. Len(saved[c]) \in 1..Len(saved[c])
        BY <2>2, <3>2
      <4>2. Last(saved[c]) \in Revisions
        BY <2>2, <4>1 DEF Last
      <4> QED BY <3>2, <4>2 DEF Latest, Versions, Revisions
    <3> QED BY <3>1, <3>2
  <2> QED BY <2>1, <2>3, NewerIs
<1> QED BY <1>1 DEF View

\* The client's part of TypeOK.
ClientTypeOK ==
  /\ active \in Runs \cup {None}
  /\ posted \in Runs \cup {None}
  /\ view \in View
  /\ seen \in [Runs -> Nat]
  /\ cursor \in Nat
  /\ stream \in Stream
  /\ fetch \in Fetch
  /\ restored \in BOOLEAN
  /\ gap \in Gaps

StreamInv == stream.state # "off" => stream.run \in Runs

LEMMA EmptyViews == EmptyView \in View /\ Asked \in Fetch /\ NoFetch \in Fetch
BY DEF EmptyView, View, Versions, Asked, NoFetch, Fetch, Gaps

LEMMA LateFetch ==
  ASSUME ClientTypeOK, NEW g \in Gaps
  PROVE  Late(g) \in Fetch
BY DEF Late, ClientTypeOK, Fetch

LEMMA Streams ==
  ASSUME ClientTypeOK, NEW r \in Runs \cup {None}
  PROVE  NoStream \in Stream /\ Connected(r) \in Stream
BY DEF ClientTypeOK, Connected, NoStream, Stream

LEMMA InitClient == Init => ClientTypeOK /\ StreamInv
<1> SUFFICES ASSUME Init PROVE ClientTypeOK /\ StreamInv
  OBVIOUS
<1>1. NoStream \in Stream /\ NoStream.state = "off"
  BY DEF NoStream, Stream
<1> QED BY <1>1, EmptyViews DEF Init, ClientTypeOK, StreamInv, Gaps

\* The types of the client, whatever it does.
LEMMA ClientTypes ==
  ASSUME ServerInv, ClientTypeOK, StreamInv, Next
  PROVE  ClientTypeOK' /\ StreamInv'
<1>1. CASE Publish /\ UNCHANGED clientVars
  BY <1>1 DEF clientVars, ClientTypeOK, StreamInv
<1>2. ASSUME NEW r \in Runs, Post(r) PROVE ClientTypeOK' /\ StreamInv'
  BY <1>2 DEF Post, ClientTypeOK, StreamInv
<1>3. CASE Join
  <2>1. fetch' \in Fetch /\ gap' \in Gaps
    BY <1>3, LateFetch DEF Join, ClientTypeOK, Gaps
  <2> QED BY <1>3, <2>1, Streams DEF Join, ClientTypeOK, StreamInv, Connected
<1>4. CASE PostFails
  BY <1>4 DEF PostFails, ClientTypeOK, StreamInv
<1>5. ASSUME NEW c \in Cards, Update(c) PROVE ClientTypeOK' /\ StreamInv'
  <2>1. PICK n \in 1..version[c] : view' = [view EXCEPT ![c] = Newer(@, n)]
    BY <1>5 DEF Update
  <2>2. version[c] \in Versions
    BY DEF ServerInv, ServerTypeOK
  <2>3. n \in Versions /\ view[c] \in Versions
    BY <2>1, <2>2 DEF Versions, ClientTypeOK, View
  <2>4. view' \in View
    BY <2>1, <2>3, NewerIs DEF ClientTypeOK, View
  <2> QED BY <1>5, <2>4 DEF Update, ClientTypeOK, StreamInv
<1>6. CASE Open
  <2>1. stream.run \in Runs
    BY <1>6 DEF Open, StreamInv
  <2>2. LastSequence(stream.run) \in Nat
    BY <2>1, LastIsCount
  <2> QED BY <1>6, <2>1, <2>2 DEF Open, ClientTypeOK, Stream, StreamInv
<1>7. CASE Deliver
  <2>1. PICK e \in EventsOf(stream.run) :
          /\ stream' = [stream EXCEPT !.at = e.sequence]
          /\ \/ /\ cursor' = e.sequence
                /\ seen' = [seen EXCEPT ![e.run] = e.sequence]
                /\ view' = [view EXCEPT ![e.card] = Newer(@, e.revision)]
             \/ UNCHANGED <<cursor, seen, view>>
    BY <1>7 DEF Deliver
  <2>2. e \in Event
    BY DEF EventsOf, ServerInv, ServerTypeOK
  <2>3. stream' \in Stream /\ stream'.run = stream.run /\ stream'.state = stream.state
    BY <2>1, <2>2 DEF ClientTypeOK, Stream, Event
  <2>4. view[e.card] \in Versions /\ e.revision \in Versions /\ e.sequence \in Nat
    BY <2>2 DEF ClientTypeOK, View, Event, Versions, Revisions
  <2>5. cursor' \in Nat /\ seen' \in [Runs -> Nat] /\ view' \in View
    BY <2>1, <2>2, <2>4, NewerIs DEF ClientTypeOK, View
  <2>6. fetch' \in Fetch
    BY <1>7, LateFetch DEF Deliver, Gaps
  <2> QED BY <1>7, <2>3, <2>5, <2>6 DEF Deliver, ClientTypeOK, StreamInv
<1>8. CASE Disconnect
  BY <1>8 DEF Disconnect, ClientTypeOK, Stream, StreamInv
<1>9. CASE Reload
  BY <1>9, EmptyViews, Streams DEF Reload, ClientTypeOK, StreamInv, NoStream
<1>10. CASE Refresh
  BY <1>10, EmptyViews DEF Refresh, ClientTypeOK, StreamInv
<1>11. CASE SnapshotEvents
  <2>1. [c \in Cards |-> Announced(c)] \in View
    BY AnnouncedIs DEF ServerInv, View
  <2> QED BY <1>11, <2>1 DEF SnapshotEvents, ClientTypeOK, StreamInv, Fetch, Gaps
<1>12. CASE SnapshotRest
  <2>1. fetch.cards \in View
    BY DEF ClientTypeOK, Fetch
  <2>2. Merged(fetch.cards, [c \in Cards |-> Newer(Pending(c), Latest(c))]) \in View
    BY <2>1, RestIs, MergedIs DEF ServerInv
  <2> QED BY <1>12, <2>2 DEF SnapshotRest, ClientTypeOK, StreamInv, Fetch
<1>13. CASE Restore
  BY <1>13, EmptyViews, Streams DEF Restore, ClientTypeOK, Fetch, StreamInv, Connected, NoStream
<1>14. CASE RecoverFails
  BY <1>14, EmptyViews, Streams DEF RecoverFails, ClientTypeOK, StreamInv, Connected, NoStream
<1> QED
  BY <1>1, <1>2, <1>3, <1>4, <1>5, <1>6, <1>7, <1>8, <1>9, <1>10, <1>11, <1>12,
     <1>13, <1>14
  DEF Next

LEMMA ServerStep == ServerInv /\ Next => ServerInv' /\ Grows
<1> SUFFICES ASSUME ServerInv, Next PROVE ServerInv' /\ Grows
  OBVIOUS
<1>1. CASE Publish
  BY <1>1, PublishStep
<1>2. ASSUME NEW r \in Runs, Post(r) PROVE ServerInv' /\ Grows
  BY <1>2, StartRunStep DEF Post
<1>3. CASE UNCHANGED serverVars
  BY <1>3, SameServer
<1> QED
  BY <1>1, <1>2, <1>3
  DEF Next, Join, PostFails, Update, Open, Deliver, Disconnect, Reload, Refresh,
      SnapshotEvents, SnapshotRest, Restore, RecoverFails

TypeInv == ServerInv /\ ClientTypeOK /\ StreamInv

\* The inductive invariant of the log and of the types.
THEOREM TypeInvariance == Spec => []TypeInv
<1>1. Init => TypeInv
  BY InitServer, InitClient DEF Init, TypeInv
<1>2. TypeInv /\ [Next]_vars => TypeInv'
  <2> SUFFICES ASSUME TypeInv, [Next]_vars PROVE TypeInv'
    OBVIOUS
  <2>1. CASE Next
    BY <2>1, ServerStep, ClientTypes DEF TypeInv
  <2>2. CASE UNCHANGED vars
    BY <2>2, SameServer DEF TypeInv, vars, clientVars, ClientTypeOK, StreamInv
  <2> QED BY <2>1, <2>2
<1> QED BY <1>1, <1>2, PTL DEF Spec

\* Every variable of the log and of the client keeps its type, with any
\* number of runs, cards and publishers.
THEOREM TypeCorrect == Spec => []TypeOK
<1>1. TypeInv => TypeOK
  BY DEF TypeInv, ServerInv, ClientTypeOK, TypeOK
<1> QED BY <1>1, TypeInvariance, PTL

\* append_event counts in one transaction and inserts in another; the numbers
\* of a run have no gaps and no duplicates all the same.
THEOREM NumberedWithoutGaps == Spec => []LogGapless
<1>1. TypeInv => LogGapless
  BY DEF TypeInv, ServerInv
<1> QED BY <1>1, TypeInvariance, PTL

\* publish_card announces no card it has not saved.
THEOREM AnnouncedIsSaved == Spec => []AnnouncedSaved
<1>1. TypeInv => AnnouncedSaved
  BY DEF TypeInv, ServerInv
<1> QED BY <1>1, TypeInvariance, PTL

-----------------------------------------------------------------------------
(* The cursor and the page.                                                *)

\* Events of one run below a number the log has reached are there for good.
LEMMA OldEvents ==
  ASSUME TypeInv, Grows, active \in Runs => cursor <= Cardinality(EventsOf(active)),
         NEW e \in log', e.run = active, e.sequence <= cursor
  PROVE  e \in log
<1>1. CASE log' = log
  BY <1>1
<1>2. CASE \E f \in Event : f.sequence = Cardinality(EventsOf(f.run)) + 1
                            /\ log' = log \cup {f}
  <2>1. PICK f \in Event : f.sequence = Cardinality(EventsOf(f.run)) + 1
                           /\ log' = log \cup {f}
    BY <1>2
  <2>2. ASSUME e = f PROVE FALSE
    <3>1. active \in Runs
      BY <2>2 DEF Event
    <3>2. Cardinality(EventsOf(active)) \in Nat /\ cursor \in Nat
      BY <3>1, LastIsCount DEF TypeInv, ClientTypeOK
    <3> QED BY <2>1, <2>2, <3>1, <3>2
  <2> QED BY <2>1, <2>2
<1> QED BY <1>1, <1>2 DEF Grows

\* The log grows and what the page has stays.
LEMMA ServerSideStep ==
  ASSUME TypeInv, Grows, CursorInv, PageInv, UNCHANGED clientVars
  PROVE  CursorInv' /\ PageInv'
<1>1. active \in Runs => active # None
  BY EventLogAssumption
<1>0. Within' = Within /\ Overwritten' = Overwritten
  BY DEF Within, Overwritten, clientVars
<1>2. CursorInv'
  <2>1. CASE active = None
    BY <2>1 DEF CursorInv, clientVars
  <2>2. CASE active # None
    <3>1. PICK r \in Runs : active = r /\ active' = r
      BY <2>2 DEF TypeInv, ClientTypeOK, clientVars
    <3>2. Cardinality(EventsOf(r)) \in Nat /\ cursor \in Nat
      BY LastIsCount DEF TypeInv, ClientTypeOK
    <3>3. Cardinality(EventsOf(r))' >= Cardinality(EventsOf(r))
          /\ Cardinality(EventsOf(r))' \in Nat
      <4>1. CASE log' = log
        BY <3>2, <4>1 DEF EventsOf
      <4>2. CASE log' # log
        BY <3>2, <4>2 DEF Grows
      <4> QED BY <4>1, <4>2
    <3>4. Within => cursor' <= Cardinality(EventsOf(r))'
      BY <2>2, <3>1, <3>2, <3>3 DEF CursorInv, clientVars
    <3> QED BY <1>0, <2>2, <3>1, <3>4 DEF CursorInv, clientVars
  <2> QED BY <2>1, <2>2
<1>3. ASSUME Within, NEW e \in log', e.run = active, e.sequence <= cursor
      PROVE  e \in log
  BY <1>1, <1>3, OldEvents DEF CursorInv
<1>4. ASSUME Within, Covers(view) PROVE Covers(view)'
  BY <1>3, <1>4 DEF Covers, clientVars
<1>5. ASSUME Within, Covers(fetch.cards) PROVE Covers(fetch.cards)'
  BY <1>3, <1>5 DEF Covers, clientVars
<1>6. gap = "none" => Within
  BY DEF Within
<1>7. Overwritten /\ fetch.late = "none" => Within
  BY DEF Within
<1> QED BY <1>0, <1>4, <1>5, <1>6, <1>7, <1>2 DEF PageInv, clientVars

CInv == TypeInv /\ CursorInv /\ PageInv

LEMMA InitCInv == Init => CInv
<1> SUFFICES ASSUME Init PROVE CInv
  OBVIOUS
<1>1. TypeInv
  BY InitServer, InitClient DEF Init, TypeInv
<1>2. CursorInv
  BY DEF Init, CursorInv, NoStream
<1>3. PageInv
  BY DEF Init, PageInv, Asked, Overwritten
<1> QED BY <1>1, <1>2, <1>3 DEF CInv

\* The page comes to know a run, with the cursor it has.
LEMMA JoinStep ==
  ASSUME CInv, Join
  PROVE  CursorInv' /\ PageInv'
<1>1. /\ UNCHANGED <<log, view, seen, cursor, restored>>
      /\ posted \in Runs /\ active' = posted /\ stream' = Connected(posted)
      /\ \A r \in Runs : seen[r] <= cursor
      /\ \A e \in log : e.sequence > 0 /\ e.sequence \in Nat
      /\ cursor \in Nat /\ fetch \in Fetch
  BY DEF Join, serverVars, CInv, CursorInv, TypeInv, ClientTypeOK, ServerInv,
         ServerTypeOK, Event
<1>2. PICK r \in Runs : active' = r
  BY <1>1
<1>3. Cardinality(EventsOf(r)) \in Nat /\ Cardinality(EventsOf(r))' = Cardinality(EventsOf(r))
  BY <1>1, LastIsCount DEF CInv, TypeInv, EventsOf
<1>4. stream'.run = active' /\ stream'.at = cursor'
  BY <1>1, EventLogAssumption DEF Connected
<1>5. CASE cursor = 0
  <2>1. \A e \in log' : ~(e.sequence <= cursor')
    BY <1>1, <1>5
  <2>2. cursor' <= Cardinality(EventsOf(r))'
    BY <1>1, <1>3, <1>5
  <2>3. CursorInv'
    BY <1>1, <1>2, <1>4, <2>2, EventLogAssumption DEF CursorInv
  <2> QED BY <2>1, <2>3 DEF PageInv, Covers
<1>6. CASE cursor # 0
  <2>1. gap' = "joined" /\ fetch' = Late("joined")
    BY <1>6 DEF Join
  <2>2. Overwritten' => fetch'.late = "joined"
    BY <1>1, <2>1 DEF Late, Overwritten, Fetch
  <2>3. ~Within'
    BY <2>1, <2>2 DEF Within
  <2>4. CursorInv'
    BY <1>1, <1>2, <1>4, <2>3, EventLogAssumption DEF CursorInv
  <2> QED BY <2>1, <2>2, <2>4 DEF PageInv
<1> QED BY <1>5, <1>6

\* Steps that leave the cursor and the run alone.
LEMMA QuietClient ==
  ASSUME CInv, UNCHANGED <<log, active, cursor>>,
         seen' = seen \/ seen' = [r \in Runs |-> 0],
         \/ stream' = NoStream
         \/ stream' = Connected(active)
         \/ stream'.run = stream.run /\ stream'.at = stream.at /\ stream.state # "off"
         \/ stream' = stream,
         (active # None /\ Within') => Within \/ cursor <= Cardinality(EventsOf(active)),
         restored' /\ gap' = "none" => Covers(view'),
         Overwritten' /\ fetch'.late = "none" => Covers(fetch'.cards)
  PROVE  CursorInv' /\ PageInv'
<1>1. UNCHANGED EventsOf(active)
  BY DEF EventsOf
<1>2. cursor \in Nat /\ seen \in [Runs -> Nat]
  BY DEF CInv, TypeInv, ClientTypeOK
<1>3. stream'.state # "off" => stream'.run = active /\ stream'.at = cursor
  BY <1>2 DEF CInv, CursorInv, NoStream, Connected
<1>4. CursorInv'
  BY <1>1, <1>2, <1>3 DEF CInv, CursorInv
<1>5. PageInv'
  BY DEF PageInv, Covers
<1> QED BY <1>4, <1>5

\* An event arrives; it is the one after the cursor.
LEMMA DeliverStep ==
  ASSUME CInv, Deliver
  PROVE  CursorInv' /\ PageInv'
<1>1. PICK e \in EventsOf(stream.run) :
        /\ e.sequence = stream.at + 1
        /\ stream' = [stream EXCEPT !.at = e.sequence]
        /\ IF IsNew(e)
           THEN /\ cursor' = e.sequence
                /\ seen' = [seen EXCEPT ![e.run] = e.sequence]
                /\ view' = [view EXCEPT ![e.card] = Newer(@, e.revision)]
           ELSE UNCHANGED <<cursor, seen, view>>
  BY DEF Deliver
<1>2. /\ stream.state = "open"
      /\ UNCHANGED <<log, active, restored, gap>>
      /\ fetch' = Late("overtaken")
  BY DEF Deliver, serverVars
<1>3. /\ e \in log /\ e \in Event /\ e.run = active /\ active \in Runs
      /\ stream.run = active /\ stream.at = cursor /\ active' = active
  BY <1>1, <1>2 DEF EventsOf, CInv, TypeInv, ServerInv, ServerTypeOK, CursorInv, Event
<1>4. /\ e.sequence \in Nat /\ e.revision \in Versions /\ e.card \in Cards
      /\ cursor \in Nat /\ seen \in [Runs -> Nat] /\ view \in View
      /\ stream \in Stream
  BY <1>3 DEF Event, Versions, Revisions, CInv, TypeInv, ClientTypeOK
<1>5. /\ stream'.run = active /\ stream'.at = e.sequence
  BY <1>1, <1>3, <1>4 DEF Stream
<1>6. IsNew(e)
  BY <1>1, <1>3, <1>4 DEF IsNew, CInv, CursorInv
<1>8. Overwritten' => fetch'.late = "overtaken"
  BY <1>2 DEF Late, Overwritten, CInv, TypeInv, ClientTypeOK, Fetch
<1>7. CursorInv' /\ PageInv'
  <2>1. /\ cursor' = e.sequence
        /\ seen' = [seen EXCEPT ![e.run] = e.sequence]
        /\ view' = [view EXCEPT ![e.card] = Newer(@, e.revision)]
    BY <1>1, <1>6
  <2>2. PICK r \in Runs : r = active
    BY <1>3
  <2>3. /\ e.sequence <= Cardinality(EventsOf(r))
        /\ EventsOf(r)' = EventsOf(r)
        /\ \A f \in EventsOf(r) : f.sequence = e.sequence => f = e
    <3>1. e \in EventsOf(r)
      BY <1>3, <2>2 DEF EventsOf
    <3>2. Cardinality(EventsOf(r)) \in Nat
      BY LastIsCount DEF CInv, TypeInv
    <3>3. {f.sequence : f \in EventsOf(r)} = 1..Cardinality(EventsOf(r))
      BY DEF CInv, TypeInv, ServerInv, LogGapless
    <3>4. e.sequence \in 1..Cardinality(EventsOf(r))
      BY <3>1, <3>3
    <3>5. \A f \in EventsOf(r) : f.sequence = e.sequence => f = e
      BY <3>1 DEF CInv, TypeInv, ServerInv, LogGapless
    <3> QED BY <1>2, <3>2, <3>4, <3>5 DEF EventsOf
  <2>4. CursorInv'
    <3>1. active' # None /\ cursor' <= Cardinality(EventsOf(r))'
      BY <1>3, <2>1, <2>3, EventLogAssumption
    <3>2. \A q \in Runs : seen'[q] <= cursor'
      BY <1>1, <1>3, <1>4, <2>1 DEF CInv, CursorInv
    <3>3. active' = r
      BY <1>3, <2>2
    <3>4. cursor' <= Cardinality(EventsOf(active))'
      BY <3>1, <3>3
    <3>5. stream'.at = cursor'
      BY <1>4, <1>5, <2>1
    <3> QED BY <1>2, <1>5, <3>1, <3>2, <3>4, <3>5 DEF CursorInv
  <2>5. ASSUME Covers(view) PROVE Covers(view)'
    <3> SUFFICES ASSUME NEW f \in log, f.run = active, f.sequence <= e.sequence
                 PROVE  view'[f.card] >= f.revision
      BY <1>2, <2>1 DEF Covers
    <3>1. f \in Event /\ f \in EventsOf(r) /\ f.card \in Cards /\ f.revision \in Versions
          /\ f.sequence \in Nat
      BY <2>2 DEF CInv, TypeInv, ServerInv, ServerTypeOK, Event, EventsOf, Versions, Revisions
    <3>2. view[e.card] \in Versions /\ view[f.card] \in Versions
      BY <1>4, <3>1 DEF View
    <3>3. /\ view'[e.card] = Newer(view[e.card], e.revision)
          /\ f.card # e.card => view'[f.card] = view[f.card]
      BY <1>4, <2>1, <3>1 DEF View
    <3>4. /\ Newer(view[e.card], e.revision) \in Versions
          /\ Newer(view[e.card], e.revision) >= view[e.card]
          /\ Newer(view[e.card], e.revision) >= e.revision
      BY <1>4, <3>2, NewerIs
    <3>5. CASE f.sequence = e.sequence
      <4>1. f = e
        BY <2>3, <3>1, <3>5
      <4> QED BY <4>1, <3>3, <3>4
    <3>6. CASE f.sequence # e.sequence
      <4>1. f.sequence <= cursor
        BY <1>1, <1>3, <1>4, <3>1, <3>6 DEF Stream
      <4>2. view[f.card] >= f.revision
        BY <2>5, <4>1 DEF Covers
      <4>3. view'[f.card] \in Versions /\ view'[f.card] >= view[f.card]
        <5>1. CASE f.card = e.card
          BY <5>1, <3>3, <3>4
        <5>2. CASE f.card # e.card
          BY <5>2, <3>2, <3>3 DEF Versions
        <5> QED BY <5>1, <5>2
      <4> QED BY <3>1, <3>2, <4>2, <4>3 DEF Versions
    <3> QED BY <3>5, <3>6
  <2> QED BY <1>2, <1>8, <2>4, <2>5 DEF CInv, PageInv
<1> QED BY <1>7

LEMMA ClientStep ==
  ASSUME CInv, Next
  PROVE  CursorInv' /\ PageInv'
<1>1. CASE Publish /\ UNCHANGED clientVars
  BY <1>1, ServerStep, ServerSideStep DEF CInv, TypeInv
<1>2. ASSUME NEW r \in Runs, Post(r) PROVE CursorInv' /\ PageInv'
  BY <1>2, QuietClient DEF Post, StartRun, CInv, PageInv, Within, Overwritten
<1>3. CASE Join
  BY <1>3, JoinStep
<1>4. CASE PostFails
  BY <1>4, QuietClient DEF PostFails, serverVars, CInv, PageInv, Within, Overwritten
<1>5. ASSUME NEW c \in Cards, Update(c) PROVE CursorInv' /\ PageInv'
  <2>1. PICK n \in 1..version[c] : view' = [view EXCEPT ![c] = Newer(@, n)]
    BY <1>5 DEF Update
  <2>2. version[c] \in Versions /\ view \in View
    BY DEF CInv, TypeInv, ServerInv, ServerTypeOK, ClientTypeOK
  <2>3. n \in Versions /\ view[c] \in Versions
    BY <2>1, <2>2 DEF Versions, View
  <2>4. Covers(view) => Covers(view')
    <3> SUFFICES ASSUME Covers(view), NEW e \in log, e.run = active, e.sequence <= cursor
                 PROVE  view'[e.card] >= e.revision
      BY DEF Covers
    <3>1. e.card \in Cards /\ e.revision \in Versions
      BY DEF CInv, TypeInv, ServerInv, ServerTypeOK, Event, Versions, Revisions
    <3>2. view[e.card] >= e.revision /\ view[e.card] \in Versions
      BY <2>2, <3>1 DEF Covers, View
    <3>3. view'[e.card] \in Versions /\ view'[e.card] >= view[e.card]
      <4>1. CASE e.card = c
        BY <4>1, <2>1, <2>2, <2>3, NewerIs DEF View
      <4>2. CASE e.card # c
        BY <4>2, <2>1, <2>2, <3>1, <3>2 DEF View, Versions
      <4> QED BY <4>1, <4>2
    <3> QED BY <3>1, <3>2, <3>3 DEF Versions
  <2> QED BY <1>5, <2>4, QuietClient DEF Update, serverVars, CInv, PageInv, Within, Overwritten
<1>6. CASE Open
  <2>1. stream'.run = stream.run /\ stream'.at = stream.at /\ stream.state # "off"
    BY <1>6 DEF Open, CInv, TypeInv, ClientTypeOK, Stream
  <2> QED BY <1>6, <2>1, QuietClient DEF Open, serverVars, CInv, PageInv, Within, Overwritten
<1>7. CASE Deliver
  BY <1>7, DeliverStep
<1>8. CASE Disconnect
  <2>1. stream'.run = stream.run /\ stream'.at = stream.at /\ stream.state # "off"
    BY <1>8 DEF Disconnect, CInv, TypeInv, ClientTypeOK, Stream
  <2> QED BY <1>8, <2>1, QuietClient DEF Disconnect, serverVars, CInv, PageInv, Within, Overwritten
<1>9. CASE Reload
  BY <1>9, QuietClient DEF Reload, Asked, serverVars, Within, Overwritten
<1>10. CASE Refresh
  BY <1>10, QuietClient DEF Refresh, Asked, serverVars, CInv, PageInv, Within, Overwritten
<1>11. CASE SnapshotEvents
  <2>1. Covers([c \in Cards |-> Announced(c)])
    BY AnnouncedIs DEF Covers, CInv, TypeInv, ServerInv, ServerTypeOK, Event
  <2>2. UNCHANGED <<serverVars, active, view, seen, cursor, stream, restored, gap>>
        /\ fetch'.cards = [c \in Cards |-> Announced(c)]
        /\ fetch'.late = IF Passed THEN "joined" ELSE "none"
    BY <1>11 DEF SnapshotEvents
  <2>3. active # None /\ fetch'.late # "joined" => cursor <= Cardinality(EventsOf(active))
    <3> SUFFICES ASSUME active # None, fetch'.late # "joined"
                 PROVE  cursor <= Cardinality(EventsOf(active))
      OBVIOUS
    <3>1. PICK r \in Runs : r = active
      BY DEF CInv, TypeInv, ClientTypeOK
    <3>2. LastSequence(r) = Cardinality(EventsOf(r)) /\ Cardinality(EventsOf(r)) \in Nat
      BY LastIsCount DEF CInv, TypeInv
    <3>3. ~(LastSequence(r) < cursor)
      BY <2>2, <3>1 DEF Passed
    <3>4. cursor \in Nat
      BY DEF CInv, TypeInv, ClientTypeOK
    <3> QED BY <3>1, <3>2, <3>3, <3>4
  <2>4. Within' => Within \/ fetch'.late # "joined"
    BY <2>2 DEF Within
  <2>5. restored' /\ gap' = "none" => Covers(view')
    BY <2>2 DEF CInv, PageInv
  <2>6. Covers(fetch'.cards)
    BY <2>1, <2>2
  <2>7. UNCHANGED <<log, active, cursor>> /\ stream' = stream /\ seen' = seen
    BY <2>2 DEF serverVars
  <2> QED BY <2>3, <2>4, <2>5, <2>6, <2>7, QuietClient
<1>12. CASE SnapshotRest
  <2> DEFINE w == [c \in Cards |-> Newer(Pending(c), Latest(c))]
             v == Merged(fetch.cards, w)
  <2>1. fetch.cards \in View /\ w \in View
    BY RestIs DEF CInv, TypeInv, ServerInv, ClientTypeOK, Fetch
  <2>2. v \in View /\ \A c \in Cards : v[c] >= fetch.cards[c]
    <3> HIDE DEF w
    <3> QED BY <2>1, MergedIs
  <2>0. UNCHANGED <<serverVars, active, view, seen, cursor, stream, restored, gap>>
        /\ Overwritten /\ Overwritten' /\ fetch'.cards = v /\ fetch'.late = fetch.late
    BY <1>12 DEF SnapshotRest, Overwritten, CInv, TypeInv, ClientTypeOK, Fetch
  <2>3. ASSUME fetch.late = "none" PROVE Covers(v)
    <3> HIDE DEF v
    <3> SUFFICES ASSUME NEW e \in log, e.run = active, e.sequence <= cursor
                 PROVE  v[e.card] >= e.revision
      BY DEF Covers
    <3>1. e.card \in Cards /\ e.revision \in Versions
      BY DEF CInv, TypeInv, ServerInv, ServerTypeOK, Event, Versions, Revisions
    <3>2. fetch.cards[e.card] >= e.revision
      BY <2>0, <2>3 DEF CInv, PageInv, Covers
    <3>3. fetch.cards[e.card] \in Versions /\ v[e.card] \in Versions
      BY <2>1, <2>2, <3>1 DEF View
    <3> QED BY <2>2, <3>1, <3>2, <3>3 DEF Versions
  <2>4. Within' = Within
    BY <2>0 DEF Within
  <2>5. Overwritten' /\ fetch'.late = "none" => Covers(fetch'.cards)
    <3> HIDE DEF v
    <3> QED BY <2>0, <2>3
  <2>6. restored' /\ gap' = "none" => Covers(view')
    BY <2>0 DEF CInv, PageInv
  <2>7. UNCHANGED <<log, active, cursor>> /\ stream' = stream /\ seen' = seen
    BY <2>0 DEF serverVars
  <2> QED BY <2>4, <2>5, <2>6, <2>7, QuietClient
<1>13. CASE Restore
  BY <1>13, QuietClient DEF Restore, NoFetch, serverVars, CInv, PageInv, Within, Overwritten
<1>14. CASE RecoverFails
  BY <1>14, QuietClient DEF RecoverFails, NoFetch, serverVars, CInv, PageInv, Within, Overwritten
<1> QED
  BY <1>1, <1>2, <1>3, <1>4, <1>5, <1>6, <1>7, <1>8, <1>9, <1>10, <1>11, <1>12,
     <1>13, <1>14
  DEF Next

\* The cursor gets ahead of the page only where a run was joined with the
\* cursor of another one or an event overtook a snapshot, and until a snapshot
\* that read the log up to the cursor is shown; with any number of runs, cards
\* and publishers.
THEOREM NothingIsSkipped == Spec => []NothingSkipped
<1>1. CInv /\ [Next]_vars => CInv'
  <2> SUFFICES ASSUME CInv, [Next]_vars PROVE CInv'
    OBVIOUS
  <2>1. CASE Next
    BY <2>1, ClientStep, ServerStep, ClientTypes DEF CInv, TypeInv
  <2>2. CASE UNCHANGED vars
    <3>1. TypeInv'
      BY <2>2, SameServer
      DEF vars, clientVars, CInv, TypeInv, ClientTypeOK, StreamInv
    <3>2. UNCHANGED log /\ UNCHANGED clientVars
      BY <2>2 DEF vars, serverVars
    <3> QED
      BY <3>1, <3>2 DEF clientVars, CInv, CursorInv, PageInv, Covers, EventsOf, Within, Overwritten
  <2> QED BY <2>1, <2>2
<1>2. CInv => NothingSkipped
  BY DEF CInv, PageInv, Covers, NothingSkipped, Complete
<1> QED BY <1>1, <1>2, InitCInv, PTL DEF Spec
=============================================================================
