-------------------------------- MODULE Hitl --------------------------------
(***************************************************************************)
(* The human-interaction protocol: DefaultHitlService over the SQLite HITL *)
(* repository.  Callers are the threads (and processes) that answer or     *)
(* cancel an interaction, sweepers those that run expire_due.  A call is   *)
(* a sequence of steps that interleave with the other calls:               *)
(*                                                                         *)
(*   respond   get and schema check, clock  ->  SELECT  ->  UPDATE         *)
(*             ->  get after the commit                                    *)
(*   cancel    clock  ->  UPDATE  ->  get after the commit                 *)
(*   sweep     clock, list_pending  ->  one UPDATE per due interaction     *)
(*                                                                         *)
(* The clock is read before the write lock is taken, so it may be stale    *)
(* by any amount when the UPDATE runs.  The write lock belongs to one      *)
(* process and the SELECT of resolve opens no database transaction, so     *)
(* the SELECT and the UPDATE of two processes interleave as well; only     *)
(* the UPDATE is atomic.                                                   *)
(***************************************************************************)
EXTENDS HitlRow

CONSTANTS
  Interactions,
  NoItem,       \* the item of a caller that is not in a call
  Callers,
  Sweepers,
  Accepted,     \* the answers the response schema admits
  MaxSubject,   \* bound: subject versions are 1..MaxSubject
  MaxTime       \* bound: the clock runs from 1 to MaxTime

ASSUME HitlAssumption ==
  /\ NoItem \notin Interactions
  /\ Accepted \subseteq Answers
  /\ MaxSubject \in Nat
  /\ MaxTime \in Nat \ {0}

VARIABLES
  now,      \* the wall clock
  row,      \* hitl_interactions: a row for each interaction
  call,     \* the call each caller is in, with the body of its request
  sweep,    \* the expire_due each sweeper is in
  reply,    \* what the last call of each caller returned
  told      \* how many calls were told that they decided the interaction

vars == <<now, row, call, sweep, reply, told>>

Times == 1 .. MaxTime
Subjects == 1 .. MaxSubject
Versions == {1, 2}      \* the versions a row can have, so clients can know

Idle == [ step |-> "idle", item |-> NoItem, version |-> 0, subject |-> 0,
          payload |-> NoPayload, answer |-> NoAnswer, clock |-> 0 ]

CallSteps == {"select", "expire", "store", "stored", "cancel", "cancelled"}

Call == {Idle} \cup
  [ step    : CallSteps,
    item    : Interactions,
    version : Versions,
    subject : Subjects \cup {0},
    payload : Payloads \cup {NoPayload},
    answer  : Answers \cup {NoAnswer},
    clock   : Times ]

NoSweep == [ clock |-> 0, todo |-> {} ]

Sweep == [ clock : Times \cup {0}, todo : SUBSET Interactions ]

Outcome == {"resolved", "cancelled", "expired", "conflict", "refused"}

NoReply == [ outcome |-> "none", item |-> NoItem, answer |-> NoAnswer ]

Reply == {NoReply} \cup
  [ outcome : Outcome, item : Interactions, answer : Answers \cup {NoAnswer} ]

TypeOK ==
  /\ now \in Times
  /\ row \in [Interactions -> Row]
  /\ call \in [Callers -> Call]
  /\ sweep \in [Sweepers -> Sweep]
  /\ reply \in [Callers -> Reply]
  /\ told \in [Interactions -> Nat]

Init ==
  /\ now = 1
  /\ row = [i \in Interactions |-> NoRow]
  /\ call = [c \in Callers |-> Idle]
  /\ sweep = [s \in Sweepers |-> NoSweep]
  /\ reply = [c \in Callers |-> NoReply]
  /\ told = [i \in Interactions |-> 0]

\* The call of c ends and returns.
Return(c, outcome, answer) ==
  /\ reply' = [reply EXCEPT ![c] = [ outcome |-> outcome,
                                     item |-> call[c].item,
                                     answer |-> answer ]]
  /\ call' = [call EXCEPT ![c] = Idle]

Goto(c, step) == call' = [call EXCEPT ![c].step = step]

-----------------------------------------------------------------------------
(* The actions.                                                            *)

\* Time passes, whatever the callers are doing.
Tick ==
  /\ now < MaxTime
  /\ now' = now + 1
  /\ UNCHANGED <<row, call, sweep, reply, told>>

\* create: the deadline, if there is one, lies in the future.
Create(i) ==
  /\ row[i] = NoRow
  /\ \E subject \in Subjects, payload \in Payloads,
        deadline \in {NoDeadline} \cup (now + 1 .. MaxTime) :
       row' = [row EXCEPT ![i] = Created(subject, payload, deadline)]
  /\ UNCHANGED <<now, call, sweep, reply, told>>

\* Variant of Admits that trusts the form of the client.
AdmitsAll(answer) == answer \in Answers

\* The response schema, which the service holds and not the client.
Admits(answer) == answer \in Accepted

\* respond up to the repository call: the row exists, the response passes
\* its schema, and resolve has read the clock.
Respond(c, i) ==
  /\ call[c] = Idle
  /\ row[i] # NoRow
  /\ \E version \in Versions, subject \in Subjects,
        payload \in Payloads, answer \in {a \in Answers : Admits(a)} :
       call' = [call EXCEPT ![c] =
                  [ step |-> "select", item |-> i, version |-> version,
                    subject |-> subject, payload |-> payload,
                    answer |-> answer, clock |-> now ]]
  /\ UNCHANGED <<now, row, sweep, reply, told>>

\* respond without a row, or with a response the schema rejects: nothing
\* is written.
RespondRefused(c, i) ==
  /\ call[c] = Idle
  /\ row[i] = NoRow \/ \E answer \in Answers : ~Admits(answer)
  /\ reply' = [reply EXCEPT ![c] = [ outcome |-> "refused", item |-> i,
                                     answer |-> NoAnswer ]]
  /\ UNCHANGED <<now, row, call, sweep, told>>

\* resolve, the SELECT: the deadline is tested before everything else.
Select(c) ==
  LET req == call[c]
      r == row[req.item]
  IN
  /\ req.step = "select"
  /\ \/ /\ Due(r, req.clock)
        /\ Goto(c, "expire")
        /\ UNCHANGED reply
     \/ /\ ~Due(r, req.clock)
        /\ Answerable(r, req.version, req.subject, req.payload)
        /\ Goto(c, "store")
        /\ UNCHANGED reply
     \/ /\ ~Due(r, req.clock)
        /\ ~Answerable(r, req.version, req.subject, req.payload)
        /\ Return(c, "conflict", NoAnswer)
  /\ UNCHANGED <<now, row, sweep, told>>

\* Variant of Expire whose UPDATE does not ask for a pending row.
ExpireUnguarded(c) ==
  /\ call[c].step = "expire"
  /\ row' = [row EXCEPT ![call[c].item] = Closed(@, "expired", call[c].clock)]
  /\ Return(c, "expired", NoAnswer)
  /\ UNCHANGED <<now, sweep, told>>

\* Variant of Expire that raises inside the transaction, rolling it back.
ExpireRolledBack(c) ==
  /\ call[c].step = "expire"
  /\ Return(c, "expired", NoAnswer)
  /\ UNCHANGED <<now, row, sweep, told>>

\* resolve, the UPDATE of the expired branch.  Its row count is not looked
\* at: InteractionExpiredError is raised whether or not it changed the row.
\* The version of the WHERE clause is the one the SELECT read; no version of
\* a pending row is ever another one than that.
Expire(c) ==
  LET req == call[c] IN
  /\ req.step = "expire"
  /\ row' = IF row[req.item].status = "pending"
            THEN [row EXCEPT ![req.item] = Closed(@, "expired", req.clock)]
            ELSE row
  /\ Return(c, "expired", NoAnswer)
  /\ UNCHANGED <<now, sweep, told>>

\* resolve, the UPDATE that stores the answer, conditional on the row count.
Store(c) ==
  LET req == call[c] IN
  /\ req.step = "store"
  /\ \/ /\ Closable(row[req.item], req.version)
        /\ row' = [row EXCEPT ![req.item] =
                     Resolved(@, req.answer, req.clock)]
        /\ Goto(c, "stored")
        /\ UNCHANGED reply
     \/ /\ ~Closable(row[req.item], req.version)
        /\ Return(c, "conflict", NoAnswer)
        /\ UNCHANGED row
  /\ UNCHANGED <<now, sweep, told>>

\* cancel up to the repository call: transition has read the clock.
Cancel(c, i) ==
  /\ call[c] = Idle
  /\ \E version \in Versions :
       call' = [call EXCEPT ![c] =
                  [ step |-> "cancel", item |-> i, version |-> version,
                    subject |-> 0, payload |-> NoPayload,
                    answer |-> NoAnswer, clock |-> now ]]
  /\ UNCHANGED <<now, row, sweep, reply, told>>

\* Variant of CancelUpdate that does not look at the row count.
CancelUpdateUnchecked(c) ==
  LET req == call[c] IN
  /\ req.step = "cancel"
  /\ row' = IF Closable(row[req.item], req.version)
            THEN [row EXCEPT ![req.item] = Closed(@, "cancelled", req.clock)]
            ELSE row
  /\ Goto(c, "cancelled")
  /\ UNCHANGED <<now, sweep, reply, told>>

\* transition: the UPDATE, conditional on the row count.
CancelUpdate(c) ==
  LET req == call[c] IN
  /\ req.step = "cancel"
  /\ \/ /\ Closable(row[req.item], req.version)
        /\ row' = [row EXCEPT ![req.item] =
                     Closed(@, "cancelled", req.clock)]
        /\ Goto(c, "cancelled")
        /\ UNCHANGED reply
     \/ /\ ~Closable(row[req.item], req.version)
        /\ Return(c, "conflict", NoAnswer)
        /\ UNCHANGED row
  /\ UNCHANGED <<now, sweep, told>>

\* resolve and transition, the get after the commit: the caller is handed
\* whatever the row holds by then.
Reread(c) ==
  LET req == call[c]
      r == row[req.item]
  IN
  /\ req.step \in {"stored", "cancelled"}
  /\ Return(c, r.status, r.answer)
  /\ told' = [told EXCEPT ![req.item] = @ + 1]
  /\ UNCHANGED <<now, row, sweep>>

\* Variant of DueItems that waits until the deadline has passed.
DueItemsAfter ==
  {i \in Interactions : row[i].status = "pending" /\ DueAfter(row[i], now)}

\* The pending rows that expire_due goes through.
DueItems ==
  {i \in Interactions : row[i].status = "pending" /\ Due(row[i], now)}

\* expire_due: the clock is read, then the pending rows are listed.
StartSweep(s) ==
  /\ sweep[s] = NoSweep
  /\ DueItems # {}
  /\ sweep' = [sweep EXCEPT ![s] = [clock |-> now, todo |-> DueItems]]
  /\ UNCHANGED <<now, row, call, reply, told>>

\* A sweep with i done.
Without(w, i) ==
  IF w.todo = {i} THEN NoSweep
                  ELSE [clock |-> w.clock, todo |-> w.todo \ {i}]

\* expire_due, one transition: its own clock reading lies between the
\* sweep's and now.  A conflict aborts the rest of the sweep.  The version
\* expected is that of the row when it was listed as pending.
SweepOne(s, i) ==
  /\ i \in sweep[s].todo
  /\ \/ /\ row[i].status = "pending"
        /\ \E t \in sweep[s].clock .. now :
             row' = [row EXCEPT ![i] = Closed(@, "expired", t)]
        /\ told' = [told EXCEPT ![i] = @ + 1]
        /\ sweep' = [sweep EXCEPT ![s] = Without(@, i)]
     \/ /\ row[i].status # "pending"
        /\ sweep' = [sweep EXCEPT ![s] = NoSweep]
        /\ UNCHANGED <<row, told>>
  /\ UNCHANGED <<now, call, reply>>

-----------------------------------------------------------------------------

\* A call that has begun goes on.
CallStep(c) ==
  Select(c) \/ Expire(c) \/ Store(c) \/ CancelUpdate(c) \/ Reread(c)

Next ==
  \/ Tick
  \/ \E i \in Interactions : Create(i)
  \/ \E c \in Callers, i \in Interactions :
       Respond(c, i) \/ RespondRefused(c, i) \/ Cancel(c, i)
  \/ \E c \in Callers :
       Select(c) \/ Expire(c) \/ Store(c) \/ CancelUpdate(c) \/ Reread(c)
  \/ \E s \in Sweepers : StartSweep(s)
  \/ \E s \in Sweepers, i \in Interactions : SweepOne(s, i)

Spec == Init /\ [][Next]_vars

\* A call is straight-line code that runs to its end, and the clock ticks.
\* Nothing makes a client answer; a sweeper, where one is deployed, calls
\* expire_due again and again.
Fairness ==
  /\ WF_vars(Tick)
  /\ \A c \in Callers : WF_vars(CallStep(c))
  /\ \A s \in Sweepers :
       /\ WF_vars(StartSweep(s))
       /\ WF_vars(\E i \in Interactions : SweepOne(s, i))

FairSpec == Spec /\ Fairness

-----------------------------------------------------------------------------
(* Properties.                                                             *)

\* However many clients answer, cancel and sweep at once, at most one call
\* is ever told that it decided an interaction, and a client that was told
\* so finds its own answer in the row (HitlRepository: "an interaction is
\* successfully resolved at most once").
OneDecision ==
  /\ \A i \in Interactions : told[i] <= 1
  /\ \A c \in Callers :
       /\ reply[c].outcome \in {"resolved", "cancelled"} =>
            /\ row[reply[c].item].status = reply[c].outcome
            /\ row[reply[c].item].answer = reply[c].answer
       /\ call[c].step = "stored" =>
            /\ row[call[c].item].status = "resolved"
            /\ row[call[c].item].answer = call[c].answer

\* An answer counts only if it was given before the deadline, expiry only
\* after it, each by the clock its own call had read, although that clock
\* is stale when the row changes and a sweep and a response race.
DecidedOnTime ==
  \A i \in Interactions :
    row[i].deadline # NoDeadline =>
      /\ row[i].status = "resolved" => row[i].decidedAt < row[i].deadline
      /\ row[i].status = "expired"  => row[i].deadline <= row[i].decidedAt

\* A stored answer passed the schema and is recorded with its row only: an
\* expired or cancelled interaction never carries one (an expired
\* interaction is never approved automatically).
AnswerIffResolved ==
  \A i \in Interactions :
    /\ row[i].status = "resolved" => row[i].answer \in Accepted
    /\ row[i].status # "resolved" => row[i].answer = NoAnswer

\* A client that is told its answer came too late was told so for good: the
\* interaction is decided by then (expired, unless another call was first),
\* even when nobody sweeps; the refusal itself must not be rolled back.
ExpiredReplyDecides ==
  \A c \in Callers :
    reply[c].outcome = "expired" => row[reply[c].item].status \in Terminal

\* Every decision is final: no later answer, cancellation, expiry or
\* repeated call changes a row that left pending, and an undecided row
\* changes only by being decided.
DecisionFinal ==
  [][ \A i \in Interactions :
        /\ row[i].status \in Terminal => row'[i] = row[i]
        /\ (row[i].status = "pending" /\ row'[i] # row[i]) =>
             /\ row'[i].status \in Terminal
             /\ row'[i].version = row[i].version + 1 ]_vars

\* What was decided of each interaction: an answer, or how it was closed.
Decision ==
  [i \in Interactions |->
     CASE row[i].status = "resolved" -> row[i].answer
       [] row[i].status \in {"absent", "pending"} -> "open"
       [] OTHER -> row[i].status]

Promise == INSTANCE OneShot WITH
  Items <- Interactions,
  Outcomes <- {"expired", "cancelled"} \cup Accepted,
  Open <- "open",
  outcome <- Decision

\* To the rest of the system a human interaction is one decision, taken once.
ImplementsOneShot == Promise!Spec

\* With a sweeper deployed, an interaction that nobody answers in time is
\* decided in the end.
DueDecided ==
  \A i \in Interactions :
    (row[i].status = "pending" /\ Due(row[i], now))
      ~> (row[i].status \in Terminal)
=============================================================================
