------------------------------ MODULE EventLog ------------------------------
(***************************************************************************)
(* How the workflow runtime publishes cards: DefaultWorkflowRuntime        *)
(* .publish_card over SQLiteAggregateRepository and SQLiteEventStore.  An  *)
(* interaction changes first (HitlService commits it); its card is then    *)
(* saved as the next version of an aggregate, and announced as the next    *)
(* event of the run, each after a read of its own.  Several handlers       *)
(* publish at once and each may stop anywhere.  A store's SELECT and       *)
(* INSERT are one step: a unique index refuses the second of two equal     *)
(* versions or numbers.                                                    *)
(*                                                                         *)
(* Events without a card (run.started, message.created) are left out: they *)
(* only move the numbers.                                                  *)
(***************************************************************************)
EXTENDS Integers, Sequences, SequencesExt, FiniteSets, FiniteSetsExt

CONSTANTS Runs,       \* the runs of one thread
          Cards,      \* of interactions, notices and artifacts
          Notices,    \* those that are published once, without an interaction
          RunOf,      \* the run a card belongs to
          Publishers, \* handlers that publish
          None

ASSUME EventLogAssumption ==
  /\ RunOf \in [Cards -> Runs]
  /\ Notices \subseteq Cards
  /\ None \notin Cards \cup Runs

VARIABLES
  started, \* the runs that exist
  version, \* of what a card shows: 0 absent, 1 pending, 2 decided
  saved,   \* table aggregate_records: the revisions saved, oldest first
  log,     \* table run_events
  task     \* what each publisher is doing

serverVars == <<started, version, saved, log, task>>

Versions == 0..2
Revisions == 1..2
Event == [run : Runs, sequence : Nat \ {0}, card : Cards, revision : Revisions]
Task ==
  [ step     : {"idle", "read", "save", "count", "append"},
    card     : Cards \cup {None},
    revision : Versions,
    base     : Nat ]

NoTask == [step |-> "idle", card |-> None, revision |-> 0, base |-> 0]

ServerTypeOK ==
  /\ started \subseteq Runs
  /\ version \in [Cards -> Versions]
  /\ saved \in [Cards -> Seq(Revisions)]
  /\ log \subseteq Event
  /\ task \in [Publishers -> Task]

ServerInit ==
  /\ started = {}
  /\ version = [c \in Cards |-> 0]
  /\ saved = [c \in Cards |-> <<>>]
  /\ log = {}
  /\ task = [p \in Publishers |-> NoTask]

EventsOf(r) == {e \in log : e.run = r}

\* SELECT max(sequence) of a run.
LastSequence(r) == Max({0} \cup {e.sequence : e \in EventsOf(r)})

-----------------------------------------------------------------------------

\* start_run.
StartRun(r) ==
  /\ r \notin started
  /\ started' = started \cup {r}
  /\ UNCHANGED <<version, saved, log, task>>

\* Variant of Fresh: an interaction that is decided is decided again.
AlwaysFresh(c) == TRUE

\* An interaction is created and decided once, a notice composed once.
Fresh(c) == version[c] < (IF c \in Notices THEN 1 ELSE 2)

\* A handler creates or decides an interaction, or composes a notice, and
\* goes on to publish it.  The revision of the card is the version.
Change(p, c) ==
  /\ task[p] = NoTask
  /\ RunOf[c] \in started
  /\ Fresh(c)
  /\ version' = [version EXCEPT ![c] = @ + 1]
  /\ task' = [task EXCEPT ![p] =
       [step |-> "read", card |-> c, revision |-> version[c] + 1, base |-> 0]]
  /\ UNCHANGED <<started, saved, log>>

\* publish_card, repository.get: the version the next one is to follow.
ReadCard(p) ==
  /\ task[p].step = "read"
  /\ task' = [task EXCEPT ![p].step = "save", ![p].base = Len(saved[task[p].card])]
  /\ UNCHANGED <<started, version, saved, log>>

\* Variant of SaveCard that goes on to announce what it could not save.
SaveCardOrNot(p) ==
  LET c == task[p].card IN
  /\ task[p].step = "save"
  /\ saved' = IF Len(saved[c]) = task[p].base
              THEN [saved EXCEPT ![c] = Append(@, task[p].revision)]
              ELSE saved
  /\ task' = [task EXCEPT ![p].step = "count"]
  /\ UNCHANGED <<started, version, log>>

\* publish_card, repository.save, or ConcurrentWriteError.
SaveCard(p) ==
  LET c == task[p].card IN
  /\ task[p].step = "save"
  /\ IF Len(saved[c]) = task[p].base
     THEN /\ saved' = [saved EXCEPT ![c] = Append(@, task[p].revision)]
          /\ task' = [task EXCEPT ![p].step = "count"]
     ELSE /\ task' = [task EXCEPT ![p] = NoTask]
          /\ UNCHANGED saved
  /\ UNCHANGED <<started, version, log>>

\* append_event: the number of the next event is one more than the events
\* that replay returns.
CountEvents(p) ==
  /\ task[p].step = "count"
  /\ task' = [task EXCEPT ![p].step = "append",
                          ![p].base = Cardinality(EventsOf(RunOf[task[p].card]))]
  /\ UNCHANGED <<started, version, saved, log>>

\* Variant of FollowsOn: the store takes the number it is given.
FollowsAnything(r, base) == TRUE

\* The store's own check of the number.
FollowsOn(r, base) == LastSequence(r) = base

\* SQLiteEventStore.append, or EventSequenceError.
AppendEvent(p) ==
  LET c == task[p].card
      r == RunOf[c]
  IN
  /\ task[p].step = "append"
  /\ log' = IF FollowsOn(r, task[p].base)
            THEN log \cup {[ run |-> r, sequence |-> task[p].base + 1,
                             card |-> c, revision |-> task[p].revision ]}
            ELSE log
  /\ task' = [task EXCEPT ![p] = NoTask]
  /\ UNCHANGED <<started, version, saved>>

\* The handler fails or its process crashes before it has published.
Stop(p) ==
  /\ task[p].step # "idle"
  /\ task' = [task EXCEPT ![p] = NoTask]
  /\ UNCHANGED <<started, version, saved, log>>

Publish ==
  \E p \in Publishers :
    \/ \E c \in Cards : Change(p, c)
    \/ ReadCard(p) \/ SaveCard(p) \/ CountEvents(p) \/ AppendEvent(p)
    \/ Stop(p)

-----------------------------------------------------------------------------

\* However many handlers publish in one run, its events are numbered without
\* gaps and no number is used twice: a client that resumes after number n
\* misses nothing (SQLiteEventStore.append).
LogGapless ==
  \A r \in Runs :
    /\ {e.sequence : e \in EventsOf(r)} = 1..Cardinality(EventsOf(r))
    /\ \A e, f \in EventsOf(r) : e.sequence = f.sequence => e = f

\* A card that was announced is stored, so a page that is loaded later finds
\* it, and it shows something its interaction has been (publish_card).
AnnouncedSaved ==
  \A e \in log :
    /\ \E n \in DOMAIN saved[e.card] : saved[e.card][n] = e.revision
    /\ e.revision <= version[e.card]
=============================================================================
