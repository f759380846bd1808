----------------------------- MODULE HitlProofs -----------------------------
(***************************************************************************)
(* Proofs about Hitl, for any number of interactions, callers, sweepers,   *)
(* payloads and answers and for any bound on time.                         *)
(*                                                                         *)
(* None of the safety properties is inductive: that a decision is told     *)
(* once depends on who is between the commit and the return of its call,   *)
(* and that an answer is on time depends on what the SELECT of that call   *)
(* has seen.  IInv says both.                                              *)
(***************************************************************************)
EXTENDS Hitl, TLAPS

\* A row that was not inserted is blank, and an open one carries no answer.
RowInv ==
  \A i \in Interactions :
    /\ row[i].status = "absent" => row[i] = NoRow
    /\ row[i].status = "resolved" =>
         /\ row[i].answer \in Accepted
         /\ row[i].deadline # NoDeadline => row[i].decidedAt < row[i].deadline
    /\ row[i].status # "resolved" => row[i].answer = NoAnswer
    /\ row[i].status = "expired" => row[i].deadline <= row[i].decidedAt

\* What each call knows of its row between its steps: a row is never
\* removed, its deadline never changes, and a decision the call has
\* committed stays as it is.
Knows(req, r) ==
  /\ req.step \in {"select", "store", "expire"} => r.status # "absent"
  /\ req.step \in {"select", "store", "stored"} => req.answer \in Accepted
  /\ req.step = "store" => ~Due(r, req.clock)
  /\ req.step = "expire" => Due(r, req.clock)
  /\ req.step = "stored" => r.status = "resolved" /\ r.answer = req.answer
  /\ req.step = "cancelled" => r.status = "cancelled" /\ r.answer = NoAnswer

CallInv == \A c \in Callers : Knows(call[c], row[call[c].item])

Committed(c, i) == call[c].step \in {"stored", "cancelled"} /\ call[c].item = i

\* The right to tell a decision: nobody has it for an open row, and one
\* caller has it from its commit to its return.
ToldInv ==
  \A i \in Interactions :
    /\ told[i] \in {0, 1}
    /\ row[i].status \in {"absent", "pending"} =>
         told[i] = 0 /\ \A c \in Callers : ~Committed(c, i)
    /\ told[i] = 1 => \A c \in Callers : ~Committed(c, i)
    /\ \A c, d \in Callers : Committed(c, i) /\ Committed(d, i) => c = d

\* What a caller was told stays true.
ReplyInv ==
  \A c \in Callers :
    /\ reply[c].outcome \in {"resolved", "cancelled"} =>
         /\ row[reply[c].item].status = reply[c].outcome
         /\ row[reply[c].item].answer = reply[c].answer
    /\ reply[c].outcome = "expired" => row[reply[c].item].status \in Terminal

\* What a sweep has listed was due when its clock was read.
SweepInv ==
  \A s \in Sweepers : \A i \in sweep[s].todo :
    /\ row[i].status # "absent"
    /\ row[i].deadline <= sweep[s].clock
    /\ sweep[s].clock \in Times

IInv == TypeOK /\ RowInv /\ CallInv /\ ToldInv /\ ReplyInv /\ SweepInv

-----------------------------------------------------------------------------
(* Facts about rows and calls.                                             *)

\* A row that transition closes keeps its deadline and its answer.
LEMMA ClosedRow ==
  ASSUME NEW r \in Row, NEW status \in Terminal, NEW t \in Nat
  PROVE  /\ Closed(r, status, t) \in Row
         /\ Closed(r, status, t).status = status
         /\ Closed(r, status, t).deadline = r.deadline
         /\ Closed(r, status, t).answer = r.answer
         /\ Closed(r, status, t).decidedAt = t
<1>1. r.version + 1 \in Nat /\ status \in Status
  BY DEF Row, Status, Terminal
<1>2. Closed(r, status, t) \in Row
  BY <1>1 DEF Row, Closed
<1>3. Closed(r, status, t).status = status
  BY DEF Row, Closed
<1>4. Closed(r, status, t).deadline = r.deadline
  BY DEF Row, Closed
<1>5. Closed(r, status, t).answer = r.answer
  BY DEF Row, Closed
<1>6. Closed(r, status, t).decidedAt = t
  BY DEF Row, Closed
<1> QED
  BY <1>2, <1>3, <1>4, <1>5, <1>6

\* A row that resolve answers keeps its deadline.
LEMMA ResolvedRow ==
  ASSUME NEW r \in Row, NEW answer \in Answers, NEW t \in Nat
  PROVE  /\ Resolved(r, answer, t) \in Row
         /\ Resolved(r, answer, t).status = "resolved"
         /\ Resolved(r, answer, t).deadline = r.deadline
         /\ Resolved(r, answer, t).answer = answer
         /\ Resolved(r, answer, t).decidedAt = t
<1>1. r.version + 1 \in Nat /\ "resolved" \in Status
  BY DEF Row, Status, Terminal
<1>2. Resolved(r, answer, t) \in Row
  BY <1>1 DEF Row, Resolved
<1>3. Resolved(r, answer, t).status = "resolved"
  BY DEF Row, Resolved
<1>4. Resolved(r, answer, t).deadline = r.deadline
  BY DEF Row, Resolved
<1>5. Resolved(r, answer, t).answer = answer
  BY DEF Row, Resolved
<1>6. Resolved(r, answer, t).decidedAt = t
  BY DEF Row, Resolved
<1> QED
  BY <1>2, <1>3, <1>4, <1>5, <1>6

\* The fields of a call that has begun.
LEMMA CallFields ==
  ASSUME TypeOK, NEW c \in Callers, call[c].step # "idle"
  PROVE  /\ call[c].step \in CallSteps
         /\ call[c].item \in Interactions
         /\ call[c].answer \in Answers \cup {NoAnswer}
         /\ call[c].clock \in Times
         /\ \A step \in CallSteps : [call[c] EXCEPT !.step = step] \in Call
  BY DEF TypeOK, Call, Idle, CallSteps

\* A pending row becomes the terminal row r; all the others stay.
Decides(i, r) ==
  /\ row[i].status = "pending"
  /\ row' = [row EXCEPT ![i] = r]
  /\ r \in Row
  /\ r.status \in Terminal
  /\ r.deadline = row[i].deadline
  /\ r.status = "resolved" =>
       /\ r.answer \in Accepted
       /\ r.deadline # NoDeadline => r.decidedAt < r.deadline
  /\ r.status # "resolved" => r.answer = NoAnswer
  /\ r.status = "expired" => r.deadline <= r.decidedAt

\* What a decision leaves intact, whoever takes it.
LEMMA DecidesRow ==
  ASSUME IInv, NEW i \in Interactions, NEW r, Decides(i, r)
  PROVE  /\ row' \in [Interactions -> Row]
         /\ RowInv'
         /\ \A j \in Interactions :
              /\ row[j].status # "absent" => row'[j].status # "absent"
              /\ row[j].status \in Terminal => row'[j] = row[j]
              /\ row'[j].deadline = row[j].deadline
         /\ row'[i] = r
<1>1. row \in [Interactions -> Row]
  BY DEF IInv, TypeOK
<1>2. \A j \in Interactions : row'[j] = IF j = i THEN r ELSE row[j]
  BY <1>1 DEF Decides
<1>3. row' \in [Interactions -> Row]
  BY <1>1 DEF Decides
<1>4. RowInv'
  <2> USE DEF RowInv
  <2> TAKE j \in Interactions
  <2>1. CASE j = i
    BY <1>2, <2>1 DEF Decides, Terminal
  <2>2. CASE j # i
    BY <1>2, <2>2 DEF IInv, RowInv
  <2> QED BY <2>1, <2>2
<1> QED
  BY <1>2, <1>3, <1>4 DEF Decides, Terminal

\* Parts that a decision leaves true when no call moves: the knowledge of
\* the calls, the replies and the sweeps.
LEMMA DecidesOthers ==
  ASSUME IInv, NEW i \in Interactions, NEW r, Decides(i, r)
  PROVE  /\ UNCHANGED reply => ReplyInv'
         /\ UNCHANGED sweep => SweepInv'
         /\ \A c \in Callers : call'[c] = call[c] => 
              Knows(call[c], row'[call[c].item])
<1> USE DecidesRow
<1>1. ASSUME UNCHANGED reply PROVE ReplyInv'
  BY <1>1 DEF IInv, ReplyInv, TypeOK, Reply, NoReply, Terminal
<1>2. ASSUME UNCHANGED sweep PROVE SweepInv'
  BY <1>2 DEF IInv, SweepInv, TypeOK, Sweep
<1>3. ASSUME NEW c \in Callers
      PROVE  Knows(call[c], row'[call[c].item])
  <2>1. CASE call[c].step = "idle"
    BY <2>1 DEF Knows
  <2>2. CASE call[c].step # "idle"
    <3>1. call[c].item \in Interactions
      BY <2>2, CallFields DEF IInv
    <3> QED
      BY <3>1 DEF IInv, CallInv, Knows, Due, Terminal
  <2> QED BY <2>1, <2>2
<1> QED BY <1>1, <1>2, <1>3

-----------------------------------------------------------------------------
(* The steps that several actions share.                                   *)

\* A call that returns without having decided anything.
LEMMA ReturnStep ==
  ASSUME IInv, NEW c \in Callers, NEW outcome \in {"conflict", "expired"},
         call[c].step # "idle", ~Committed(c, call[c].item),
         outcome = "expired" => row[call[c].item].status \in Terminal,
         Return(c, outcome, NoAnswer), UNCHANGED <<now, row, sweep, told>>
  PROVE  IInv'
<1>1. call[c].item \in Interactions
  BY CallFields DEF IInv
<1>2. TypeOK'
  BY <1>1 DEF IInv, TypeOK, Return, Call, Reply, Outcome
<1>3. call' = [call EXCEPT ![c] = Idle] /\ call \in [Callers -> Call]
  BY DEF IInv, TypeOK, Return
<1>4. \A d \in Callers : call'[d] = IF d = c THEN Idle ELSE call[d]
  BY <1>3
<1>5. RowInv' /\ SweepInv'
  BY DEF IInv, RowInv, SweepInv
<1>6. CallInv'
  BY <1>4 DEF IInv, CallInv, Knows, Idle, Due
<1>7. ToldInv'
  BY <1>4 DEF IInv, ToldInv, Committed, Idle
<1>8. ReplyInv'
  BY DEF IInv, ReplyInv, Return, TypeOK
<1> QED BY <1>2, <1>5, <1>6, <1>7, <1>8 DEF IInv

\* A call that commits its decision of the row and goes on to read it back.
LEMMA CommitStep ==
  ASSUME IInv, NEW c \in Callers, NEW j \in Interactions, NEW r,
         j = call[c].item, NEW step \in {"stored", "cancelled"},
         call[c].step \in {"store", "cancel"},
         Decides(j, r), Goto(c, step),
         step = "stored" => /\ call[c].step = "store"
                            /\ r.status = "resolved"
                            /\ r.answer = call[c].answer,
         step = "cancelled" => r.status = "cancelled",
         UNCHANGED <<now, sweep, reply, told>>
  PROVE  IInv'
<1>1. [call[c] EXCEPT !.step = step] \in Call
  BY CallFields DEF IInv, CallSteps
<1>2. /\ row' \in [Interactions -> Row]
      /\ RowInv'
      /\ row'[j] = r
      /\ \A k \in Interactions : k # j => row'[k] = row[k]
  BY <1>1, DecidesRow DEF IInv, TypeOK, Decides
<1>3. call \in [Callers -> Call] /\ call' = [call EXCEPT ![c].step = step]
  BY DEF IInv, TypeOK, Goto
<1>4. /\ call' \in [Callers -> Call]
      /\ \A d \in Callers : d # c => call'[d] = call[d]
      /\ call'[c] = [call[c] EXCEPT !.step = step]
  BY <1>1, <1>3
<1>5. call'[c].step = step /\ call'[c].item = j /\ call'[c].answer = call[c].answer
  BY <1>1, <1>4 DEF Call, CallSteps, Idle, IInv, TypeOK
<1>6. TypeOK'
  BY <1>2, <1>4 DEF IInv, TypeOK
<1>7. ReplyInv' /\ SweepInv'
  BY <1>1, DecidesOthers
<1>8. CallInv'
  <2> SUFFICES ASSUME NEW d \in Callers
               PROVE  Knows(call'[d], row'[call'[d].item])
    BY DEF CallInv
  <2>1. CASE d = c
    <3>1. call[c].step = "store" => call[c].answer \in Accepted
      BY DEF IInv, CallInv, Knows
    <3> QED BY <1>2, <1>5, <2>1, <3>1 DEF Decides, Knows
  <2>2. CASE d # c
    BY <1>1, <1>4, <2>2, DecidesOthers
  <2> QED BY <2>1, <2>2
<1>9. ToldInv'
  <2>1. told[j] = 0 /\ \A d \in Callers : ~Committed(d, j)
    BY <1>1 DEF IInv, ToldInv, Decides
  <2>2. \A d \in Callers : Committed(d, j)' => d = c
    BY <1>4, <2>1 DEF Committed
  <2>3. \A d \in Callers, k \in Interactions :
          k # j => (Committed(d, k)' <=> Committed(d, k))
    BY <1>4, <1>5 DEF Committed
  <2> SUFFICES ASSUME NEW k \in Interactions
               PROVE  /\ told'[k] \in {0, 1}
                      /\ row'[k].status \in {"absent", "pending"} =>
                           told'[k] = 0 /\ \A d \in Callers : ~Committed(d, k)'
                      /\ told'[k] = 1 => \A d \in Callers : ~Committed(d, k)'
                      /\ \A d, e \in Callers :
                           Committed(d, k)' /\ Committed(e, k)' => d = e
    BY Zenon DEF ToldInv, Committed
  <2>4. CASE k = j
    <3>1. told'[k] = 0 /\ row'[k].status \in Terminal
      BY <1>2, <2>1, <2>4 DEF Decides
    <3>2. \A d, e \in Callers : Committed(d, k)' /\ Committed(e, k)' => d = e
      BY <2>2, <2>4 DEF Committed
    <3> QED BY <3>1, <3>2 DEF Terminal
  <2>5. CASE k # j
    BY <1>1, <1>2, <2>3, <2>5 DEF IInv, ToldInv
  <2> QED BY <2>4, <2>5
<1> QED BY <1>2, <1>6, <1>7, <1>8, <1>9 DEF IInv

-----------------------------------------------------------------------------
(* IInv is inductive.                                                      *)

LEMMA InitInv == Init => IInv
  BY HitlAssumption, RowAssumption
  DEF Init, IInv, TypeOK, RowInv, CallInv, Knows, ToldInv, ReplyInv, SweepInv, Committed,
      NoRow, Row, Status, NoDeadline, Call, Idle, Sweep, NoSweep, Reply, NoReply, Times

LEMMA TickStep ==
  ASSUME IInv, Tick
  PROVE  IInv'
<1>1. TypeOK'
  BY HitlAssumption DEF IInv, TypeOK, Tick, Times
<1>2. RowInv' /\ CallInv' /\ ToldInv' /\ ReplyInv' /\ SweepInv'
  BY DEF IInv, RowInv, CallInv, ToldInv, ReplyInv, SweepInv, Committed, Due, Tick
<1> QED BY <1>1, <1>2 DEF IInv

LEMMA CreateStep ==
  ASSUME IInv, NEW i \in Interactions, Create(i)
  PROVE  IInv'
<1> USE DEF IInv, TypeOK
<1>1. PICK r \in Row : /\ r.status = "pending"
                       /\ r.answer = NoAnswer
                       /\ row' = [row EXCEPT ![i] = r]
  <2>1. PICK subject \in Subjects, payload \in Payloads,
             deadline \in {NoDeadline} \cup (now + 1 .. MaxTime) :
          row' = [row EXCEPT ![i] = Created(subject, payload, deadline)]
    BY DEF Create
  <2>2. subject \in Nat /\ deadline \in Nat
    BY HitlAssumption DEF NoDeadline, Subjects, Times
  <2>3. Created(subject, payload, deadline) \in Row
    BY <2>2 DEF Created, Row, Status
  <2> QED BY <2>1, <2>3 DEF Created
<1>2. row[i].status = "absent" /\ UNCHANGED <<now, call, sweep, reply, told>>
  BY DEF Create, NoRow
<1>3. TypeOK'
  BY <1>1, <1>2
<1>4. RowInv'
  BY <1>1, <1>2 DEF RowInv
<1>5. CallInv'
  BY <1>1, <1>2, CallFields DEF CallInv, Knows, Due
<1>6. ToldInv'
  BY <1>1, <1>2 DEF ToldInv, Committed
<1>7. ReplyInv'
  BY <1>1, <1>2 DEF ReplyInv, Reply, NoReply, Terminal
<1>8. SweepInv'
  BY <1>1, <1>2 DEF SweepInv
<1> QED BY <1>3, <1>4, <1>5, <1>6, <1>7, <1>8

\* A call that begins, with a request of the client.
LEMMA BeginStep ==
  ASSUME IInv, NEW c \in Callers, NEW req \in Call,
         call' = [call EXCEPT ![c] = req],
         req.step \in {"select", "cancel"},
         req.step = "select" =>
           row[req.item].status # "absent" /\ req.answer \in Accepted,
         UNCHANGED <<now, row, sweep, reply, told>>
  PROVE  IInv'
<1>1. TypeOK' /\ RowInv' /\ ReplyInv' /\ SweepInv'
  BY DEF IInv, TypeOK, RowInv, ReplyInv, SweepInv
<1>2. \A d \in Callers : call'[d] = IF d = c THEN req ELSE call[d]
  BY DEF IInv, TypeOK
<1>3. CallInv'
  BY <1>2 DEF IInv, CallInv, Knows, Due
<1>4. ToldInv'
  BY <1>2 DEF IInv, ToldInv, Committed
<1> QED BY <1>1, <1>3, <1>4 DEF IInv

LEMMA RespondStep ==
  ASSUME IInv, NEW c \in Callers, NEW i \in Interactions, Respond(c, i)
  PROVE  IInv'
<1>1. row[i].status # "absent"
  BY DEF Respond, IInv, RowInv
<1>2. PICK version \in Versions, subject \in Subjects, payload \in Payloads,
           answer \in {a \in Answers : Admits(a)} :
        call' = [call EXCEPT ![c] =
                   [ step |-> "select", item |-> i, version |-> version,
                     subject |-> subject, payload |-> payload,
                     answer |-> answer, clock |-> now ]]
  BY DEF Respond
<1> DEFINE req == [ step |-> "select", item |-> i, version |-> version,
                    subject |-> subject, payload |-> payload,
                    answer |-> answer, clock |-> now ]
<1>3. req \in Call /\ answer \in Accepted
  BY HitlAssumption DEF Call, CallSteps, IInv, TypeOK, Admits
<1> QED BY <1>1, <1>2, <1>3, BeginStep DEF Respond

LEMMA CancelStep ==
  ASSUME IInv, NEW c \in Callers, NEW i \in Interactions, Cancel(c, i)
  PROVE  IInv'
<1>1. PICK version \in Versions :
        call' = [call EXCEPT ![c] =
                   [ step |-> "cancel", item |-> i, version |-> version,
                     subject |-> 0, payload |-> NoPayload,
                     answer |-> NoAnswer, clock |-> now ]]
  BY DEF Cancel
<1> DEFINE req == [ step |-> "cancel", item |-> i, version |-> version,
                    subject |-> 0, payload |-> NoPayload,
                    answer |-> NoAnswer, clock |-> now ]
<1>2. req \in Call
  BY DEF Call, CallSteps, IInv, TypeOK
<1> QED BY <1>1, <1>2, BeginStep DEF Cancel

LEMMA RespondRefusedStep ==
  ASSUME IInv, NEW c \in Callers, NEW i \in Interactions, RespondRefused(c, i)
  PROVE  IInv'
<1>1. TypeOK'
  BY DEF IInv, TypeOK, RespondRefused, Reply, Outcome
<1>2. RowInv' /\ CallInv' /\ ToldInv' /\ SweepInv'
  BY DEF IInv, RowInv, CallInv, ToldInv, SweepInv, Committed, Due, RespondRefused
<1>3. ReplyInv'
  BY DEF IInv, TypeOK, ReplyInv, RespondRefused
<1> QED BY <1>1, <1>2, <1>3 DEF IInv

\* The SELECT of resolve: the call learns that its row is due, or that it
\* is not, or it returns.
LEMMA SelectStep ==
  ASSUME IInv, NEW c \in Callers, Select(c)
  PROVE  IInv'
<1>1. /\ call[c].step = "select"
      /\ UNCHANGED <<now, row, sweep, told>>
  BY DEF Select
<1>2. ASSUME Return(c, "conflict", NoAnswer) PROVE IInv'
  BY <1>1, <1>2, ReturnStep DEF Committed
<1>3. ASSUME NEW step \in {"expire", "store"}, Goto(c, step), UNCHANGED reply,
             step = "expire" <=> Due(row[call[c].item], call[c].clock)
      PROVE  IInv'
  <2> DEFINE req == [call[c] EXCEPT !.step = step]
  <2>1. req \in Call
    BY <1>1, CallFields DEF IInv, CallSteps
  <2>2. \A d \in Callers : call'[d] = IF d = c THEN req ELSE call[d]
    BY <1>3 DEF IInv, TypeOK, Goto
  <2>3. /\ req.step = step
        /\ req.item = call[c].item
        /\ req.clock = call[c].clock
        /\ req.answer = call[c].answer
    BY <1>1, CallFields DEF IInv, TypeOK, Call, Idle, CallSteps
  <2> HIDE DEF req
  <2>4. call' \in [Callers -> Call]
    BY <1>3, <2>1 DEF IInv, TypeOK, Goto, req
  <2>5. TypeOK' /\ RowInv' /\ ReplyInv' /\ SweepInv'
    BY <1>1, <1>3, <2>4 DEF IInv, TypeOK, RowInv, ReplyInv, SweepInv
  <2>6. CallInv'
    BY <1>1, <1>3, <2>2, <2>3 DEF IInv, CallInv, Knows, Due
  <2>7. ToldInv'
    BY <1>1, <2>2, <2>3 DEF IInv, ToldInv, Committed
  <2> QED BY <2>5, <2>6, <2>7 DEF IInv
<1> QED BY <1>2, <1>3 DEF Select

\* The UPDATE of the expired branch: its clock has passed the deadline.
LEMMA ExpireStep ==
  ASSUME IInv, NEW c \in Callers, Expire(c)
  PROVE  IInv'
<1>1. PICK i \in Interactions : i = call[c].item
  BY CallFields DEF IInv, Expire
<1>2. /\ call[c].step = "expire"
      /\ UNCHANGED <<now, sweep, told>>
      /\ call[c].clock \in Times
      /\ Due(row[i], call[c].clock)
  BY <1>1, CallFields DEF IInv, CallInv, Knows, Expire
<1>3. CASE row[i].status # "pending"
  <2>1. row[i].status \in Terminal
    BY <1>1, <1>2, <1>3 DEF IInv, TypeOK, CallInv, Knows, Row, Status
  <2> QED BY <1>1, <1>2, <1>3, <2>1, ReturnStep DEF Expire, Committed
<1>4. CASE row[i].status = "pending"
  <2> DEFINE r == Closed(row[i], "expired", call[c].clock)
  <2>1. Decides(i, r)
    <3>1. row[i] \in Row /\ row[i].answer = NoAnswer
      BY <1>4 DEF IInv, TypeOK, RowInv
    <3>2. row' = [row EXCEPT ![i] = r]
      BY <1>1, <1>4 DEF Expire
    <3>3. "expired" \in Terminal /\ call[c].clock \in Nat
      BY <1>2 DEF Terminal, Times
    <3>4. /\ r \in Row
          /\ r.status = "expired"
          /\ r.deadline = row[i].deadline
          /\ r.answer = row[i].answer
          /\ r.decidedAt = call[c].clock
      BY <3>1, <3>3, ClosedRow
    <3> HIDE DEF r
    <3> QED
      BY <1>2, <1>4, <3>1, <3>2, <3>3, <3>4 DEF Decides, Due
  <2>2. call' = [call EXCEPT ![c] = Idle]
    BY DEF Expire, Return
  <2>3. \A d \in Callers : call'[d] = IF d = c THEN Idle ELSE call[d]
    BY <2>2 DEF IInv, TypeOK
  <2> HIDE DEF r
  <2>4. row' \in [Interactions -> Row] /\ RowInv' /\ SweepInv'
    BY <1>2, <2>1, DecidesRow, DecidesOthers
  <2>5. /\ row'[i] = r /\ r.status \in Terminal
        /\ \A k \in Interactions : k # i => row'[k] = row[k]
    BY <2>1 DEF Decides, IInv, TypeOK
  <2>6. TypeOK'
    BY <1>1, <1>2, <2>2, <2>4 DEF IInv, TypeOK, Expire, Return, Call, Reply, Outcome
  <2>7. CallInv'
    <3> SUFFICES ASSUME NEW d \in Callers, d # c
                 PROVE  Knows(call'[d], row'[call'[d].item])
      BY <2>3 DEF CallInv, Knows, Idle
    <3> QED BY <2>1, <2>3, DecidesOthers
  <2>8. ReplyInv'
    <3>1. \A d \in Callers : reply'[d] = IF d = c
                               THEN [outcome |-> "expired", item |-> i, answer |-> NoAnswer]
                               ELSE reply[d]
      BY <1>1 DEF IInv, TypeOK, Expire, Return
    <3>2. \A d \in Callers :
            /\ reply[d].outcome \in {"resolved", "cancelled"} =>
                 /\ reply[d].item \in Interactions
                 /\ row[reply[d].item].status = reply[d].outcome
                 /\ row[reply[d].item].answer = reply[d].answer
            /\ reply[d].outcome = "expired" =>
                 /\ reply[d].item \in Interactions
                 /\ row[reply[d].item].status \in Terminal
      BY DEF IInv, TypeOK, ReplyInv, Reply, NoReply
    <3> QED BY <1>4, <2>5, <3>1, <3>2 DEF ReplyInv
  <2>9. ToldInv'
    BY <1>2, <1>4, <2>3, <2>5 DEF IInv, ToldInv, Committed, Idle, Terminal
  <2> QED BY <2>4, <2>6, <2>7, <2>8, <2>9 DEF IInv
<1> QED BY <1>3, <1>4

\* The UPDATE of resolve: its clock had not reached the deadline.
LEMMA StoreStep ==
  ASSUME IInv, NEW c \in Callers, Store(c)
  PROVE  IInv'
<1>1. PICK i \in Interactions : i = call[c].item
  BY CallFields DEF IInv, Store
<1>2. /\ call[c].step = "store"
      /\ UNCHANGED <<now, sweep, told>>
      /\ call[c].clock \in Nat
      /\ call[c].answer \in Accepted
      /\ ~Due(row[i], call[c].clock)
  BY <1>1, CallFields DEF IInv, CallInv, Knows, Store, Times
<1>3. CASE ~Closable(row[i], call[c].version)
  BY <1>1, <1>2, <1>3, ReturnStep DEF Store, Committed
<1>4. CASE Closable(row[i], call[c].version)
  <2> DEFINE r == Resolved(row[i], call[c].answer, call[c].clock)
  <2>1. /\ row[i] \in Row
        /\ row[i].deadline \in Nat
        /\ row[i].status = "pending"
        /\ row' = [row EXCEPT ![i] = r]
        /\ Goto(c, "stored")
        /\ UNCHANGED reply
    BY <1>1, <1>4 DEF IInv, TypeOK, Row, Store, Closable
  <2>2. /\ r \in Row
        /\ r.status = "resolved"
        /\ r.deadline = row[i].deadline
        /\ r.answer = call[c].answer
        /\ r.decidedAt = call[c].clock
    BY <1>2, <2>1, ResolvedRow, HitlAssumption
  <2> HIDE DEF r
  <2>3. Decides(i, r)
    BY <1>2, <2>1, <2>2 DEF Decides, Due, Terminal
  <2> QED BY <1>1, <1>2, <2>1, <2>2, <2>3, CommitStep
<1> QED BY <1>3, <1>4

\* The UPDATE of transition for a cancellation.
LEMMA CancelUpdateStep ==
  ASSUME IInv, NEW c \in Callers, CancelUpdate(c)
  PROVE  IInv'
<1>1. PICK i \in Interactions : i = call[c].item
  BY CallFields DEF IInv, CancelUpdate
<1>2. /\ call[c].step = "cancel"
      /\ UNCHANGED <<now, sweep, told>>
      /\ call[c].clock \in Nat
  BY <1>1, CallFields DEF IInv, CancelUpdate, Times
<1>3. CASE ~Closable(row[i], call[c].version)
  BY <1>1, <1>2, <1>3, ReturnStep DEF CancelUpdate, Committed
<1>4. CASE Closable(row[i], call[c].version)
  <2> DEFINE r == Closed(row[i], "cancelled", call[c].clock)
  <2>1. /\ row[i] \in Row
        /\ row[i].status = "pending"
        /\ row[i].answer = NoAnswer
        /\ row' = [row EXCEPT ![i] = r]
        /\ Goto(c, "cancelled")
        /\ UNCHANGED reply
    BY <1>1, <1>4 DEF IInv, TypeOK, RowInv, CancelUpdate, Closable
  <2>2. /\ r \in Row
        /\ r.status = "cancelled"
        /\ r.deadline = row[i].deadline
        /\ r.answer = row[i].answer
    <3>1. "cancelled" \in Terminal
      BY DEF Terminal
    <3> QED BY <1>2, <2>1, <3>1, ClosedRow
  <2> HIDE DEF r
  <2>3. Decides(i, r)
    BY <2>1, <2>2 DEF Decides, Terminal
  <2> QED BY <1>1, <1>2, <2>1, <2>2, <2>3, CommitStep
<1> QED BY <1>3, <1>4

LEMMA RereadStep ==
  ASSUME IInv, NEW c \in Callers, Reread(c)
  PROVE  IInv'
<1>1. PICK i \in Interactions : i = call[c].item
  BY CallFields DEF IInv, Reread
<1>2. /\ call[c].step \in {"stored", "cancelled"}
      /\ UNCHANGED <<now, row, sweep>>
      /\ call' = [call EXCEPT ![c] = Idle]
      /\ reply' = [reply EXCEPT ![c] = [ outcome |-> row[i].status, item |-> i,
                                         answer |-> row[i].answer ]]
      /\ told' = [told EXCEPT ![i] = @ + 1]
  BY <1>1 DEF Reread, Return
<1>3. /\ row[i].status \in {"resolved", "cancelled"}
      /\ row[i].answer \in Answers \cup {NoAnswer}
      /\ told[i] = 0
      /\ Committed(c, i)
  BY <1>1, <1>2 DEF IInv, TypeOK, CallInv, Knows, ToldInv, Committed, Row
<1>4. \A d \in Callers : call'[d] = IF d = c THEN Idle ELSE call[d]
  BY <1>2 DEF IInv, TypeOK
<1>5. TypeOK'
  BY <1>2, <1>3 DEF IInv, TypeOK, Call, Reply, Outcome
<1>6. RowInv' /\ SweepInv'
  BY <1>2 DEF IInv, RowInv, SweepInv
<1>7. CallInv'
  BY <1>2, <1>4 DEF IInv, CallInv, Knows, Due, Idle
<1>8. ReplyInv'
  BY <1>2, <1>3 DEF IInv, TypeOK, ReplyInv
<1>9. ToldInv'
  <2>1. \A d \in Callers, k \in Interactions : Committed(d, k)' => Committed(d, k) /\ d # c
    BY <1>4 DEF Committed, Idle
  <2>2. /\ told'[i] = 1
        /\ \A k \in Interactions : k # i => told'[k] = told[k]
    BY <1>2, <1>3 DEF IInv, TypeOK
  <2>3. \A d \in Callers : Committed(d, i) => d = c
    BY <1>3 DEF IInv, ToldInv
  <2> QED BY <1>2, <1>3, <2>1, <2>2, <2>3 DEF IInv, ToldInv
<1> QED BY <1>5, <1>6, <1>7, <1>8, <1>9 DEF IInv

LEMMA StartSweepStep ==
  ASSUME IInv, NEW s \in Sweepers, StartSweep(s)
  PROVE  IInv'
<1>1. TypeOK'
  BY DEF IInv, TypeOK, StartSweep, DueItems, Sweep
<1>2. RowInv' /\ CallInv' /\ ToldInv' /\ ReplyInv'
  BY DEF IInv, RowInv, CallInv, ToldInv, ReplyInv, Committed, Due, StartSweep
<1>3. SweepInv'
  BY DEF IInv, TypeOK, SweepInv, StartSweep, DueItems, Due
<1> QED BY <1>1, <1>2, <1>3 DEF IInv

LEMMA SweepOneStep ==
  ASSUME IInv, NEW s \in Sweepers, NEW i \in Interactions, SweepOne(s, i)
  PROVE  IInv'
<1>1. UNCHANGED <<now, call, reply>> /\ i \in sweep[s].todo
  BY DEF SweepOne
<1>2. CASE row[i].status # "pending"
  <2>1. sweep' = [sweep EXCEPT ![s] = NoSweep] /\ UNCHANGED <<row, told>>
    BY <1>2 DEF SweepOne
  <2>2. TypeOK'
    BY <1>1, <2>1 DEF IInv, TypeOK, Sweep, NoSweep
  <2>3. RowInv' /\ CallInv' /\ ToldInv' /\ ReplyInv'
    BY <1>1, <2>1 DEF IInv, RowInv, CallInv, ToldInv, ReplyInv, Committed, Due
  <2>4. SweepInv'
    BY <1>1, <2>1 DEF IInv, TypeOK, SweepInv, NoSweep
  <2> QED BY <2>2, <2>3, <2>4 DEF IInv
<1>3. CASE row[i].status = "pending"
  <2>1. PICK t \in sweep[s].clock .. now :
          row' = [row EXCEPT ![i] = Closed(row[i], "expired", t)]
    BY <1>3 DEF SweepOne, IInv, TypeOK
  <2>2. /\ told' = [told EXCEPT ![i] = @ + 1]
        /\ sweep' = [sweep EXCEPT ![s] = Without(@, i)]
    BY <1>3 DEF SweepOne
  <2> DEFINE r == Closed(row[i], "expired", t)
  <2>3. /\ row[i] \in Row
        /\ row[i].answer = NoAnswer
        /\ row[i].deadline \in Nat
        /\ row[i].deadline <= sweep[s].clock
        /\ sweep[s].clock \in Nat
        /\ t \in Nat
        /\ sweep[s].clock <= t
    BY <1>1, <1>3, <2>1 DEF IInv, TypeOK, RowInv, SweepInv, Row, Times
  <2>4. /\ r \in Row
        /\ r.status = "expired"
        /\ r.deadline = row[i].deadline
        /\ r.answer = row[i].answer
        /\ r.decidedAt = t
    <3>1. "expired" \in Terminal
      BY DEF Terminal
    <3> QED BY <2>3, <3>1, ClosedRow
  <2>5. row' = [row EXCEPT ![i] = r]
    BY <2>1
  <2> HIDE DEF r
  <2>6. Decides(i, r)
    BY <1>3, <2>3, <2>4, <2>5 DEF Decides, Terminal
  <2>7. row' \in [Interactions -> Row] /\ RowInv' /\ ReplyInv'
    BY <1>1, <2>6, DecidesRow, DecidesOthers
  <2>8. /\ row'[i] = r
        /\ \A k \in Interactions : k # i => row'[k] = row[k]
    BY <2>6 DEF Decides, IInv, TypeOK
  <2>9. \A q \in Sweepers :
          /\ sweep'[q] \in Sweep
          /\ sweep'[q].todo \subseteq sweep[q].todo
          /\ sweep'[q].todo # {} => sweep'[q].clock = sweep[q].clock
    <3>1. sweep \in [Sweepers -> Sweep] /\ sweep[s] \in Sweep
      BY DEF IInv, TypeOK
    <3>2. /\ Without(sweep[s], i) \in Sweep
          /\ Without(sweep[s], i).todo \subseteq sweep[s].todo
          /\ Without(sweep[s], i).todo # {} =>
               Without(sweep[s], i).clock = sweep[s].clock
      BY <3>1 DEF Without, NoSweep, Sweep
    <3> QED BY <2>2, <3>1, <3>2
  <2>10. TypeOK'
    <3>1. sweep' \in [Sweepers -> Sweep]
      BY <2>2, <2>9 DEF IInv, TypeOK
    <3>2. told' \in [Interactions -> Nat]
      BY <2>2 DEF IInv, TypeOK
    <3> QED BY <1>1, <2>7, <3>1, <3>2 DEF IInv, TypeOK
  <2>11. CallInv'
    BY <1>1, <2>6, DecidesOthers DEF CallInv
  <2>12. SweepInv'
    <3>1. \A k \in Interactions : row[k].status # "absent" =>
            row'[k].status # "absent" /\ row'[k].deadline = row[k].deadline
      BY <2>6, DecidesRow
    <3> QED BY <2>9, <3>1 DEF IInv, TypeOK, SweepInv, Sweep
  <2>13. ToldInv'
    BY <1>1, <1>3, <2>2, <2>4, <2>8 DEF IInv, TypeOK, ToldInv, Committed
  <2> QED BY <2>7, <2>10, <2>11, <2>12, <2>13 DEF IInv
<1> QED BY <1>2, <1>3

-----------------------------------------------------------------------------
(* The theorems.                                                           *)

\* Every step of the protocol keeps IInv.
LEMMA NextInv == IInv /\ [Next]_vars => IInv'
<1>1. ASSUME IInv, Next PROVE IInv'
  BY <1>1, TickStep, CreateStep, RespondStep, RespondRefusedStep, CancelStep,
     SelectStep, ExpireStep, StoreStep, CancelUpdateStep, RereadStep,
     StartSweepStep, SweepOneStep
  DEF Next
<1>2. ASSUME IInv, UNCHANGED vars PROVE IInv'
  BY <1>2 DEF vars, IInv, TypeOK, RowInv, CallInv, ToldInv, ReplyInv, SweepInv,
              Committed, Due
<1> QED BY <1>1, <1>2

\* The strengthened invariant holds in every reachable state.
THEOREM Invariance == Spec => []IInv
  BY InitInv, NextInv, PTL DEF Spec

\* Type correctness.
THEOREM TypeCorrect == Spec => []TypeOK
<1>1. IInv => TypeOK
  BY DEF IInv
<1> QED BY <1>1, Invariance, PTL

\* At most one call is told that it decided an interaction, and what a
\* client was told stays true: resolve and transition are atomic decisions
\* although the row is read, written and read again in separate steps.
THEOREM DecidedOnce == Spec => []OneDecision
<1>1. IInv => OneDecision
  BY DEF IInv, OneDecision, ToldInv, ReplyInv, CallInv, Knows
<1> QED BY <1>1, Invariance, PTL

\* Whoever was told that the deadline had passed was told so for good: the
\* refusal of resolve commits the expiry, or another call had decided.
THEOREM RefusalDecides == Spec => []ExpiredReplyDecides
<1>1. IInv => ExpiredReplyDecides
  BY DEF IInv, ExpiredReplyDecides, ReplyInv
<1> QED BY <1>1, Invariance, PTL

\* Resolved before the deadline, expired after it.
THEOREM DecidedInTime == Spec => []DecidedOnTime
<1>1. IInv => DecidedOnTime
  BY DEF IInv, DecidedOnTime, RowInv
<1> QED BY <1>1, Invariance, PTL

\* Only a resolved interaction carries an answer, one its schema admits.
THEOREM NoAnswerWithoutResolution == Spec => []AnswerIffResolved
<1>1. IInv => AnswerIffResolved
  BY DEF IInv, AnswerIffResolved, RowInv
<1> QED BY <1>1, Invariance, PTL

\* How one step may change the row of an interaction: create it, decide it,
\* or leave it alone.
RowStep(i) ==
  \/ row'[i] = row[i]
  \/ row[i].status = "absent" /\ row'[i].status = "pending"
  \/ /\ row[i].status = "pending"
     /\ row'[i].status \in Terminal
     /\ row'[i].version = row[i].version + 1
     /\ row'[i].status = "resolved" => row'[i].answer \in Accepted

LEMMA RowSteps ==
  ASSUME IInv, Next, NEW i \in Interactions
  PROVE  RowStep(i)
<1>1. CASE UNCHANGED row
  BY <1>1 DEF RowStep
<1>2. ASSUME NEW j \in Interactions, NEW r, row' = [row EXCEPT ![j] = r],
             row[j].status = "pending" \/ row[j] = NoRow,
             row[j] = NoRow => r.status = "pending",
             row[j].status = "pending" =>
               /\ r.status \in Terminal
               /\ r.version = row[j].version + 1
               /\ r.status = "resolved" => r.answer \in Accepted
      PROVE  RowStep(i)
  BY <1>2 DEF RowStep, IInv, TypeOK, NoRow
<1>3. ASSUME NEW j \in Interactions, Create(j) PROVE RowStep(i)
  <2>1. PICK r : row' = [row EXCEPT ![j] = r] /\ r.status = "pending"
    <3>1. PICK subject \in Subjects, payload \in Payloads,
               deadline \in {NoDeadline} \cup (now + 1 .. MaxTime) :
            row' = [row EXCEPT ![j] = Created(subject, payload, deadline)]
      BY <1>3 DEF Create
    <3>2. Created(subject, payload, deadline).status = "pending"
      BY DEF Created
    <3> QED BY <3>1, <3>2
  <2>2. row[j] = NoRow /\ row[j].status # "pending"
    BY <1>3 DEF Create, NoRow
  <2> QED BY <1>2, <2>1, <2>2
<1>4. \A r \in Row, t \in Nat, status \in Terminal :
        Closed(r, status, t).version = r.version + 1
  BY DEF Closed, Row
<1>5. \A r \in Row, t \in Nat, answer \in Answers :
        Resolved(r, answer, t).version = r.version + 1
  BY DEF Resolved, Row
<1>6. ASSUME NEW c \in Callers, call[c].step # "idle"
      PROVE  /\ call[c].item \in Interactions
             /\ row[call[c].item] \in Row
             /\ call[c].clock \in Nat
  BY <1>6, CallFields DEF IInv, TypeOK, Times
<1>7. ASSUME NEW j \in Interactions, NEW status \in {"expired", "cancelled"}, NEW t \in Nat,
             row[j].status = "pending",
             row' = [row EXCEPT ![j] = Closed(row[j], status, t)]
      PROVE  RowStep(i)
  <2>1. status \in Terminal /\ status # "resolved"
    BY DEF Terminal
  <2>2. row[j] \in Row /\ row[j] # NoRow
    BY <1>7 DEF IInv, TypeOK, NoRow
  <2>3. /\ Closed(row[j], status, t).status = status
        /\ Closed(row[j], status, t).version = row[j].version + 1
    BY <1>4, <2>1, <2>2, ClosedRow
  <2> QED BY <1>2, <1>7, <2>1, <2>2, <2>3
<1>8. ASSUME NEW c \in Callers, Expire(c) PROVE RowStep(i)
  BY <1>1, <1>6, <1>7, <1>8 DEF Expire
<1>9. ASSUME NEW c \in Callers, CancelUpdate(c) PROVE RowStep(i)
  BY <1>1, <1>6, <1>7, <1>9 DEF CancelUpdate, Closable
<1>10. ASSUME NEW c \in Callers, Store(c) PROVE RowStep(i)
  <2>1. call[c].answer \in Accepted /\ call[c].answer \in Answers
    BY <1>10, HitlAssumption DEF IInv, CallInv, Knows, Store
  <2>2. CASE row[call[c].item].status = "pending"
             /\ row' = [row EXCEPT ![call[c].item] =
                          Resolved(row[call[c].item], call[c].answer, call[c].clock)]
    <3>1. call[c].step # "idle"
      BY <1>10 DEF Store
    <3>2. PICK j \in Interactions : j = call[c].item
      BY <1>6, <3>1
    <3>3. PICK r \in Row : r = Resolved(row[j], call[c].answer, call[c].clock)
      BY <1>6, <2>1, <3>1, <3>2, ResolvedRow
    <3>4. /\ r.status = "resolved"
          /\ r.answer \in Accepted
          /\ r.version = row[j].version + 1
      BY <1>5, <1>6, <2>1, <3>1, <3>2, <3>3, ResolvedRow
    <3>5. row[j] # NoRow /\ row' = [row EXCEPT ![j] = r]
      BY <2>2, <3>2, <3>3 DEF NoRow
    <3> QED BY <1>2, <2>2, <3>2, <3>4, <3>5 DEF Terminal
  <2> QED BY <1>1, <1>10, <2>2 DEF Store, Closable
<1>11. ASSUME NEW s \in Sweepers, NEW j \in Interactions, SweepOne(s, j) PROVE RowStep(i)
  <2>1. ASSUME NEW t \in sweep[s].clock .. now PROVE t \in Nat
    BY DEF IInv, TypeOK, Sweep, Times
  <2> QED BY <1>1, <1>7, <1>11, <2>1 DEF SweepOne
<1> QED
  BY <1>1, <1>3, <1>8, <1>9, <1>10, <1>11
  DEF Next, Tick, Respond, RespondRefused, Cancel, Select, Reread, StartSweep

\* A decided interaction never changes again, and an open one changes only
\* by being decided, its version going up by one.
THEOREM DecisionIsFinal == Spec => DecisionFinal
<1>1. IInv /\ [Next]_vars =>
        [ \A i \in Interactions :
            /\ row[i].status \in Terminal => row'[i] = row[i]
            /\ (row[i].status = "pending" /\ row'[i] # row[i]) =>
                 /\ row'[i].status \in Terminal
                 /\ row'[i].version = row[i].version + 1 ]_vars
  BY RowSteps DEF RowStep, Terminal
<1> QED BY <1>1, Invariance, PTL DEF Spec, DecisionFinal

\* The protocol implements OneShot: to the rest of the system a human
\* interaction is one decision, taken once.
THEOREM Implementation == Spec => ImplementsOneShot
<1>1. Init => Promise!Init
  BY DEF Init, Promise!Init, Decision, NoRow
<1>2. IInv /\ [Next]_vars => [Promise!Next]_Decision
  <2> SUFFICES ASSUME IInv, Next PROVE Promise!Next \/ UNCHANGED Decision
    BY DEF vars, Decision
  <2>1. \A i \in Interactions :
          /\ Decision'[i] \in {"expired", "cancelled", "open"} \cup Accepted
          /\ Decision[i] # "open" => Decision'[i] = Decision[i]
    <3> TAKE i \in Interactions
    <3>1. RowStep(i)
      BY RowSteps
    <3>2. row'[i] \in Row /\ row[i] \in Row
      BY NextInv DEF IInv, TypeOK
    <3>3. row'[i].status = "resolved" => row'[i].answer \in Accepted
      BY NextInv DEF IInv, RowInv
    <3> QED BY <3>1, <3>2, <3>3 DEF RowStep, Decision, Terminal, Row, Status
  <2>2. Decision' \in [Interactions -> {"expired", "cancelled", "open"} \cup Accepted]
    BY <2>1 DEF Decision
  <2> QED BY <2>1, <2>2 DEF Promise!Next
<1> QED BY <1>1, <1>2, Invariance, PTL DEF Spec, ImplementsOneShot, Promise!Spec
=============================================================================
