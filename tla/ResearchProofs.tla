---------------------------- MODULE ResearchProofs ----------------------------
(* Theorems about ResearchToPlan, for any number of questions and versions.  *)
EXTENDS ResearchToPlan, FiniteSetTheorems, TLAPS

(* A handler asks at most once, and writes nothing after it has asked.       *)
Plain == {s \in Seq(Step) : \A n \in DOMAIN s : s[n].op # "ask"}
Asking == {s \in Seq(Step) : \A m, n \in DOMAIN s :
  m < n /\ s[m].op = "ask" => s[n].op \notin {"ask", "write"}}
Acts(s) == \E n \in DOMAIN s : s[n].op \in {"ask", "write"}

LEMMA PlainJoins ==
  ASSUME NEW s \in Plain, NEW t \in Plain
  PROVE  s \o t \in Plain
<1>1. s \in Seq(Step) /\ t \in Seq(Step)
  BY DEF Plain
<1>2. s \o t \in Seq(Step) /\ Len(s \o t) = Len(s) + Len(t)
  BY <1>1
<1>3. ASSUME NEW n \in 1..(Len(s) + Len(t)) PROVE (s \o t)[n].op # "ask"
  <2>1. CASE n <= Len(s)
    BY <1>1, <2>1 DEF Plain
  <2>2. CASE n > Len(s)
    BY <1>1, <2>2 DEF Plain
  <2>3. QED
    BY <1>1, <2>1, <2>2
<1>4. DOMAIN (s \o t) = 1..(Len(s) + Len(t))
  BY <1>2
<1>5. \A n \in DOMAIN (s \o t) : (s \o t)[n].op # "ask"
  BY <1>3, <1>4, Zenon
<1>6. QED
  BY <1>2, <1>5, Zenon DEF Plain

LEMMA AskingJoins ==
  ASSUME NEW s \in Plain, NEW t \in Asking
  PROVE  s \o t \in Asking
<1>1. s \in Seq(Step) /\ t \in Seq(Step)
  BY DEF Plain, Asking
<1>2. s \o t \in Seq(Step) /\ Len(s \o t) = Len(s) + Len(t)
  BY <1>1
<1>3. ASSUME NEW m \in 1..(Len(s) + Len(t)), NEW n \in 1..(Len(s) + Len(t)),
             m < n, (s \o t)[m].op = "ask"
      PROVE  (s \o t)[n].op \notin {"ask", "write"}
  <2>1. m > Len(s)
    BY <1>1, <1>3 DEF Plain
  <2>2. /\ m - Len(s) \in 1..Len(t) /\ n - Len(s) \in 1..Len(t)
        /\ (s \o t)[m] = t[m - Len(s)] /\ (s \o t)[n] = t[n - Len(s)]
    BY <1>1, <1>3, <2>1
  <2>3. m - Len(s) < n - Len(s)
    BY <1>1, <1>3
  <2>4. QED
    BY <1>1, <1>3, <2>2, <2>3 DEF Asking
<1>4. DOMAIN (s \o t) = 1..(Len(s) + Len(t))
  BY <1>2
<1>5. \A m, n \in DOMAIN (s \o t) :
        m < n /\ (s \o t)[m].op = "ask" => (s \o t)[n].op \notin {"ask", "write"}
  BY <1>3, <1>4, Zenon
<1>6. QED
  BY <1>2, <1>5, Zenon DEF Asking

LEMMA Pieces ==
  /\ <<>> \in Plain /\ Plain \subseteq Asking
  /\ \A of \in {"prepare", "summarize", "values", "remind"} : Call(of) \in Plain
  /\ \A of \in Artifact : Publish(of) \in Plain
  /\ \A of \in {"create", "revise", "activate", "review"} : Write(of) \in Plain
  /\ Answered \in Plain /\ Save \in Plain /\ Load \in Plain /\ Read \in Plain
  /\ \A kind \in Kind : Ask(kind) \in Asking
<1> USE DEF Plain, Asking
<1>1. <<>> \in Plain
  OBVIOUS
<1>2. Plain \subseteq Asking
  OBVIOUS
<1>3. ASSUME NEW x \in Step, x.op # "ask" PROVE <<x>> \in Plain
  BY <1>3
<1>4. ASSUME NEW x \in Step PROVE <<x>> \in Asking
  OBVIOUS
<1>5. \A of \in {"prepare", "summarize", "values", "remind"} : Call(of) \in Plain
  BY <1>3 DEF Call, Step
<1>6. \A of \in Artifact : Publish(of) \in Plain
  BY <1>3 DEF Publish, Step
<1>7. \A of \in {"create", "revise", "activate", "review"} : Write(of) \in Plain
  BY <1>3 DEF Write, Step
<1>8. Answered \in Plain /\ Save \in Plain /\ Load \in Plain /\ Read \in Plain
  BY <1>3 DEF Answered, Save, Load, Read, Step
<1>9. \A kind \in Kind : Ask(kind) \in Asking
  BY <1>4 DEF Ask, Step
<1>10. QED
  BY <1>1, <1>2, <1>5, <1>6, <1>7, <1>8, <1>9

LEMMA HandlersAsk ==
  /\ Prepare \in Asking
  /\ \A candidates \in 0..2 : Start(candidates) \in Asking
  /\ \A kind \in Kind, action \in Action : Handler(kind, action) \in Asking
<1> USE PlainJoins, AskingJoins, Pieces DEF Artifact, Kind
<1>1. Prepare \in Asking
  <2>1. Call("prepare") \o Publish("research") \o Publish("progress")
          \o Publish("progress") \o Publish("scan_result") \o Save \in Plain
    OBVIOUS
  <2>2. QED
    BY <2>1 DEF Prepare, AskScanReview
<1>2. ASSUME NEW candidates \in 0..2 PROVE Start(candidates) \in Asking
  BY <1>1 DEF Start, AskSecurityChoice
<1>3. ASSUME NEW action \in Action PROVE OnScanReview(action) \in Asking
  <2>1. Load \o Call("summarize") \o Call("values") \o Write("create") \in Plain
    OBVIOUS
  <2>2. Load \o Call("summarize") \o Call("values") \o Write("create") \o AskPlanApproval \in Asking
    BY <2>1 DEF AskPlanApproval
  <2>3. QED
    BY <2>2 DEF OnScanReview
<1>4. OnPlanForm \in Asking
  <2>1. Answered \o Read \o Call("values") \o Write("revise") \in Plain
    OBVIOUS
  <2>2. QED
    BY <2>1 DEF OnPlanForm, AskPlanApproval
<1>5. ASSUME NEW action \in Action PROVE OnPlanApproval(action) \in Asking
  <2>1. Read \o Answered \in Plain /\ Read \o Answered \o Write("revise") \in Plain
    OBVIOUS
  <2>2. Read \o Answered \o Write("activate") \o Publish("plan") \in Plain
    OBVIOUS
  <2>3. QED
    BY <2>1, <2>2 DEF OnPlanApproval, AskPlanForm, AskReminderApproval
<1>6. ASSUME NEW action \in Action PROVE OnReminderApproval(action) \in Asking
  <2>1. Call("remind") \o Publish("reminder") \o Read \in Plain
    OBVIOUS
  <2>2. Call("remind") \o Publish("reminder") \o Read \o AskPlanReview \in Asking
    BY <2>1 DEF AskPlanReview
  <2>3. QED
    BY <2>2 DEF OnReminderApproval
<1>7. ASSUME NEW action \in Action PROVE OnPlanReview(action) \in Asking
  <2>1. Call("values") \o Write("review") \o Publish("review") \o Publish("plan") \in Plain
    OBVIOUS
  <2>2. QED
    BY <2>1 DEF OnPlanReview
<1>8. Answered \o Prepare \in Asking
  BY <1>1
<1>9. QED
  BY <1>1, <1>2, <1>3, <1>4, <1>5, <1>6, <1>7, <1>8 DEF Handler

-----------------------------------------------------------------------------
(* One question is open, or one handler has still something to ask or write. *)

Typed ==
  /\ questions \in Seq(Question)
  /\ handlers \in [0..MaxQuestions -> [todo : Asking, version : 0..MaxVersion]]
  /\ plan.version \in 0..MaxVersion
Unbegun == ~begun => questions = <<>> /\ Acting = {}
OneAtATime ==
  /\ \A i, j \in Open : i = j
  /\ \A i, j \in Acting : i = j
  /\ Open = {} \/ Acting = {}
ForkInv == Typed /\ Unbegun /\ OneAtATime

LEMMA TailKeeps ==
  ASSUME NEW s \in Asking, s # <<>>
  PROVE  /\ Tail(s) \in Asking
         /\ Acts(Tail(s)) => Acts(s)
<1>1. /\ s \in Seq(Step) /\ Tail(s) \in Seq(Step)
      /\ Len(Tail(s)) = Len(s) - 1 /\ DOMAIN Tail(s) = 1..(Len(s) - 1)
      /\ Len(s) \in Nat
  BY DEF Asking
<1>2. \A n \in DOMAIN Tail(s) : n + 1 \in DOMAIN s /\ Tail(s)[n] = s[n + 1]
  BY <1>1
<1>3. \A m, n \in DOMAIN Tail(s) :
        m < n /\ Tail(s)[m].op = "ask" => Tail(s)[n].op \notin {"ask", "write"}
  BY <1>1, <1>2 DEF Asking
<1>4. Tail(s) \in Asking
  BY <1>1, <1>3, Zenon DEF Asking
<1>5. QED
  BY <1>2, <1>4 DEF Acts

\* Once it has asked, a handler has only to show the question.
LEMMA AskedLast ==
  ASSUME NEW s \in Asking, s # <<>>, Head(s).op = "ask"
  PROVE  /\ <<[op |-> "show"]>> \o Tail(s) \in Asking
         /\ ~Acts(<<[op |-> "show"]>> \o Tail(s))
<1> DEFINE show == <<[op |-> "show"]>>
           t == show \o Tail(s)
<1>1. /\ s \in Seq(Step) /\ Tail(s) \in Seq(Step) /\ Len(s) \in Nat /\ 1 \in DOMAIN s
      /\ DOMAIN Tail(s) = 1..(Len(s) - 1) /\ s[1].op = "ask"
  BY DEF Asking
<1>2. \A n \in DOMAIN Tail(s) : n + 1 \in DOMAIN s /\ 1 < n + 1 /\ Tail(s)[n] = s[n + 1]
  BY <1>1
<1>3. \A n \in DOMAIN Tail(s) : Tail(s)[n].op \notin {"ask", "write"}
  BY <1>1, <1>2 DEF Asking
<1>4. show \in Plain /\ ~Acts(show)
  BY DEF Plain, Step, Acts
<1>5. Tail(s) \in Asking
  BY TailKeeps
<1>6. t \in Asking
  BY <1>4, <1>5, AskingJoins
<1>7. ASSUME NEW n \in DOMAIN t PROVE t[n].op \notin {"ask", "write"}
  <2>1. /\ show \in Seq(Step) /\ Len(show) = 1 /\ show[1].op = "show"
        /\ Tail(s) \in Seq(Step) /\ Len(Tail(s)) = Len(s) - 1
    BY <1>1 DEF Step
  <2>2. DOMAIN t = 1..Len(s) /\ t[1] = show[1]
        /\ \A k \in 2..Len(s) : t[k] = Tail(s)[k - 1]
    BY <1>1, <2>1
  <2>3. CASE n = 1
    BY <2>1, <2>2, <2>3
  <2>4. CASE n # 1
    <3>1. n \in 2..Len(s) /\ n - 1 \in DOMAIN Tail(s)
      BY <1>1, <2>2, <2>4
    <3>2. QED
      BY <1>3, <2>2, <3>1
  <2>5. QED
    BY <2>3, <2>4
<1>8. QED
  BY <1>6, <1>7 DEF Acts

LEMMA ActingActs == Acting = {i \in DOMAIN handlers : Acts(handlers[i].todo)}
  BY DEF Acting, Acts

\* A handler goes on with less to do than it had.
LEMMA GoingOn ==
  ASSUME ForkInv, NEW i \in 0..MaxQuestions, NEW todo \in Asking, NEW version \in 0..MaxVersion,
         Acts(todo) => Acts(handlers[i].todo),
         handlers' = [handlers EXCEPT ![i] = [todo |-> todo, version |-> version]],
         UNCHANGED <<begun, questions>>, plan'.version \in 0..MaxVersion
  PROVE  ForkInv'
<1>1. handlers \in [0..MaxQuestions -> [todo : Asking, version : 0..MaxVersion]]
  BY DEF ForkInv, Typed
<1>2. Typed'
  BY <1>1 DEF ForkInv, Typed
<1>3. \A j \in 0..MaxQuestions : Acts(handlers'[j].todo) => Acts(handlers[j].todo)
  BY <1>1
<1>4. Acting = {j \in DOMAIN handlers : Acts(handlers[j].todo)}
      /\ Acting' = {j \in DOMAIN handlers' : Acts(handlers'[j].todo)}
  BY DEF Acting, Acts
<1>5. Acting' \subseteq Acting
  BY <1>1, <1>3, <1>4
<1>6. Open' = Open
  BY DEF Open
<1>7. QED
  BY <1>2, <1>5, <1>6 DEF ForkInv, Unbegun, OneAtATime

LEMMA Empty == <<>> \in Asking /\ ~Acts(<<>>) /\ Ended = [todo |-> <<>>, version |-> 0]
  BY DEF Asking, Acts, Ended

LEMMA GoesKeeps ==
  ASSUME ForkInv, NEW i \in 0..MaxQuestions, NEW todo \in Asking, NEW version \in 0..MaxVersion,
         Acts(todo) => Acts(handlers[i].todo),
         Goes(i, todo, version), UNCHANGED <<begun, questions>>, plan'.version \in 0..MaxVersion
  PROVE  ForkInv'
<1>1. CASE todo = <<>>
  <2>1. handlers' = [handlers EXCEPT ![i] = [todo |-> <<>>, version |-> 0]]
    BY <1>1, Empty DEF Goes
  <2>2. 0 \in 0..MaxVersion
    BY ResearchAssumption
  <2>3. QED
    BY <2>1, <2>2, Empty, GoingOn
<1>2. CASE todo # <<>>
  <2>1. handlers' = [handlers EXCEPT ![i] = [todo |-> todo, version |-> version]]
    BY <1>2 DEF Goes
  <2>2. QED
    BY <2>1, GoingOn
<1>3. QED
  BY <1>1, <1>2

LEMMA BusyTail ==
  ASSUME ForkInv, NEW i \in 0..MaxQuestions, Busy(i)
  PROVE  /\ handlers[i].todo \in Asking /\ handlers[i].version \in 0..MaxVersion
         /\ Tail(handlers[i].todo) \in Asking
         /\ Acts(Tail(handlers[i].todo)) => Acts(handlers[i].todo)
<1>1. handlers[i].todo \in Asking /\ handlers[i].version \in 0..MaxVersion
  BY DEF ForkInv, Typed
<1>2. QED
  BY <1>1, TailKeeps DEF Busy

LEMMA StartKeeps ==
  ASSUME ForkInv, NEW workflow, NEW intent, NEW candidates \in 0..2,
         StartRun(workflow, intent, candidates)
  PROVE  ForkInv'
<1>1. PICK todo \in Asking : handlers' = [handlers EXCEPT ![0].todo = todo]
  <2>1. Publish("notice") \in Asking /\ Start(candidates) \in Asking /\ <<>> \in Asking
    BY Pieces, HandlersAsk DEF Artifact
  <2>2. QED
    BY <2>1 DEF StartRun
<1>2. /\ handlers \in [0..MaxQuestions -> [todo : Asking, version : 0..MaxVersion]]
      /\ questions = <<>> /\ Acting = {}
      /\ UNCHANGED <<questions, plan>> /\ begun' = TRUE
  BY DEF ForkInv, Typed, Unbegun, StartRun
<1>3. Typed'
  BY <1>1, <1>2, ResearchAssumption DEF ForkInv, Typed
<1>4. Acting' \subseteq {0}
  <2>1. Acting = {j \in DOMAIN handlers : Acts(handlers[j].todo)}
        /\ Acting' = {j \in DOMAIN handlers' : Acts(handlers'[j].todo)}
    BY DEF Acting, Acts
  <2>2. \A j \in DOMAIN handlers' : j # 0 => j \in DOMAIN handlers /\ handlers'[j] = handlers[j]
    BY <1>1, <1>2
  <2>3. QED
    BY <1>2, <2>1, <2>2
<1>5. Open' = {}
  BY <1>2 DEF Open
<1>6. QED
  BY <1>2, <1>3, <1>4, <1>5 DEF ForkInv, Unbegun, OneAtATime

\* The question that is answered was the only one, and nothing was acting.
LEMMA RespondKeeps ==
  ASSUME ForkInv, NEW i \in 1..MaxQuestions, NEW action \in Action, Respond(i, action)
  PROVE  ForkInv'
<1>1. /\ questions \in Seq(Question) /\ i \in DOMAIN questions /\ i \in 0..MaxQuestions
      /\ handlers \in [0..MaxQuestions -> [todo : Asking, version : 0..MaxVersion]]
      /\ UNCHANGED <<begun, plan>>
  BY ResearchAssumption DEF ForkInv, Typed, Respond
<1>2. questions[i] \in Question /\ questions[i].kind \in Kind
  <2>1. questions[i] \in Question
    BY <1>1
  <2>2. QED
    BY <2>1 DEF Question
<1>3. PICK todo \in Asking : handlers' = [handlers EXCEPT ![i].todo = todo]
  BY <1>2, HandlersAsk DEF Respond
<1>4. questions' = [questions EXCEPT ![i].status = "resolved", ![i].action = action]
  BY DEF Respond
<1>5. questions' \in Seq(Question)
  <2>1. [questions[i] EXCEPT !.status = "resolved", !.action = action] \in Question
    BY <1>2 DEF Question
  <2>2. questions' = [questions EXCEPT ![i] =
          [questions[i] EXCEPT !.status = "resolved", !.action = action]]
    BY <1>1, <1>4
  <2>3. QED
    BY <1>1, <2>1, <2>2
<1>6. Typed'
  BY <1>1, <1>3, <1>5 DEF ForkInv, Typed
<1>7. i \in Open /\ Open = {i} /\ Acting = {}
  BY <1>1 DEF ForkInv, OneAtATime, Open, Respond
<1>8. Open' = {}
  <2>1. /\ DOMAIN questions' = DOMAIN questions /\ questions'[i].status = "resolved"
        /\ \A j \in DOMAIN questions : j # i => questions'[j] = questions[j]
    BY <1>1, <1>2, <1>4 DEF Question
  <2>2. QED
    BY <1>7, <2>1 DEF Open
<1>9. Acting' \subseteq {i}
  <2>1. Acting = {j \in DOMAIN handlers : Acts(handlers[j].todo)}
        /\ Acting' = {j \in DOMAIN handlers' : Acts(handlers'[j].todo)}
    BY DEF Acting, Acts
  <2>2. \A j \in DOMAIN handlers' : j # i => j \in DOMAIN handlers /\ handlers'[j] = handlers[j]
    BY <1>1, <1>3
  <2>3. QED
    BY <1>7, <2>1, <2>2
<1>10. begun
  BY <1>1 DEF ForkInv, Unbegun
<1>11. QED
  BY <1>1, <1>6, <1>8, <1>9, <1>10 DEF ForkInv, Unbegun, OneAtATime

LEMMA CloseKeeps ==
  ASSUME ForkInv, NEW i \in 1..MaxQuestions, NEW status \in {"cancelled", "expired"},
         Close(i, status)
  PROVE  ForkInv'
<1>1. /\ questions \in Seq(Question) /\ i \in DOMAIN questions /\ questions[i] \in Question
      /\ questions' = [questions EXCEPT ![i].status = status]
      /\ UNCHANGED <<begun, plan, handlers>> /\ begun
  BY DEF ForkInv, Typed, Unbegun, Close
<1>2. questions' \in Seq(Question)
  <2>1. [questions[i] EXCEPT !.status = status] \in Question
    BY <1>1 DEF Question
  <2>2. QED
    BY <1>1, <2>1
<1>3. Open' \subseteq Open
  <2>1. /\ DOMAIN questions' = DOMAIN questions /\ questions'[i].status = status
        /\ \A j \in DOMAIN questions : j # i => questions'[j] = questions[j]
    BY <1>1 DEF Question
  <2>2. QED
    BY <2>1 DEF Open
<1>4. Acting' = Acting
  BY <1>1 DEF Acting
<1>5. QED
  BY <1>1, <1>2, <1>3, <1>4 DEF ForkInv, Typed, Unbegun, OneAtATime

\* The handler that asks was the only one acting, no question was open, and it
\* has nothing left to ask or to write.
LEMMA AskKeeps ==
  ASSUME ForkInv, NEW i \in 0..MaxQuestions, AskNext(i)
  PROVE  ForkInv'
<1> DEFINE s == handlers[i].todo
           rest == <<[op |-> "show"]>> \o Tail(s)
           new == [kind |-> Next1(i).of, status |-> "pending",
                   action |-> "none", version |-> handlers[i].version]
<1>1. /\ s \in Asking /\ s # <<>> /\ Head(s).op = "ask" /\ handlers[i].version \in 0..MaxVersion
      /\ handlers \in [0..MaxQuestions -> [todo : Asking, version : 0..MaxVersion]]
      /\ questions \in Seq(Question)
      /\ UNCHANGED <<begun, plan>> /\ questions' = Append(questions, new)
  BY DEF ForkInv, Typed, AskNext, Doing, Busy, Next1
<1>2. rest \in Asking /\ ~Acts(rest)
  BY <1>1, AskedLast
<1>3. rest # <<>>
  <2>1. Tail(s) \in Seq(Step)
    BY <1>1, TailKeeps DEF Asking
  <2>2. QED
    BY <2>1
<1>4. handlers' = [handlers EXCEPT ![i] = [todo |-> rest, version |-> handlers[i].version]]
  BY <1>3 DEF AskNext, Goes
<1>5. s \in Seq(Step) /\ s[1] \in Step /\ s[1] = Head(s) /\ 1 \in DOMAIN s
  BY <1>1 DEF Asking
<1>6. Next1(i).of \in Kind
  BY <1>1, <1>5 DEF Step, Next1
<1>7. new \in Question
  BY <1>1, <1>6 DEF Question
<1>8. Typed'
  BY <1>1, <1>2, <1>4, <1>7 DEF ForkInv, Typed
<1>9. Acting = {j \in DOMAIN handlers : Acts(handlers[j].todo)}
      /\ Acting' = {j \in DOMAIN handlers' : Acts(handlers'[j].todo)}
  BY DEF Acting, Acts
<1>10. Acting = {i} /\ Open = {} /\ begun
  <2>1. Acts(s)
    BY <1>1, <1>5 DEF Acts
  <2>2. i \in Acting
    BY <1>1, <1>9, <2>1
  <2>3. QED
    BY <2>2 DEF ForkInv, Unbegun, OneAtATime
<1>11. Acting' = {}
  <2>1. handlers'[i].todo = rest
        /\ \A j \in DOMAIN handlers' : j # i => j \in DOMAIN handlers /\ handlers'[j] = handlers[j]
    BY <1>1, <1>4
  <2>2. QED
    BY <1>2, <1>9, <1>10, <2>1
<1>12. Open' \subseteq {Len(questions) + 1}
  <2>1. /\ DOMAIN questions' = DOMAIN questions \cup {Len(questions) + 1}
        /\ \A j \in DOMAIN questions : questions'[j] = questions[j]
    BY <1>1, <1>7
  <2>2. QED
    BY <1>10, <2>1 DEF Open
<1>13. QED
  BY <1>1, <1>8, <1>10, <1>11, <1>12 DEF ForkInv, Unbegun, OneAtATime

\* A step of a handler that asks nothing, and a step that raises.
LEMMA StepKeeps ==
  ASSUME ForkInv, NEW i \in 0..MaxQuestions,
         CallBackend(i) \/ PublishCard(i) \/ SaveContext(i) \/ LoadContext(i)
           \/ ReadPlan(i) \/ WritePlan(i) \/ Raises(i)
  PROVE  ForkInv'
<1>1. /\ Busy(i) /\ UNCHANGED <<begun, questions>>
      /\ plan.version \in 0..MaxVersion /\ MaxVersion \in Nat
  BY ResearchAssumption DEF ForkInv, Typed, CallBackend, PublishCard, SaveContext, LoadContext,
     ReadPlan, WritePlan, Raises, Doing
<1>2. plan'.version \in 0..MaxVersion
  <2>1. CASE UNCHANGED plan
    BY <1>1, <2>1
  <2>2. CASE WritePlan(i)
    <3>1. plan'.version = plan.version + 1 /\ plan.version < MaxVersion
      BY <2>2 DEF WritePlan
    <3>2. QED
      BY <1>1, <3>1
  <2>3. QED
    BY <2>1, <2>2 DEF CallBackend, PublishCard, SaveContext, LoadContext, ReadPlan, Raises
<1>3. /\ handlers[i].version \in 0..MaxVersion
      /\ Tail(handlers[i].todo) \in Asking
      /\ Acts(Tail(handlers[i].todo)) => Acts(handlers[i].todo)
  BY <1>1, BusyTail
<1>4. CASE CallBackend(i) \/ PublishCard(i) \/ SaveContext(i) \/ LoadContext(i)
  <2>1. Goes(i, Tail(handlers[i].todo), handlers[i].version)
    BY <1>4 DEF CallBackend, PublishCard, SaveContext, LoadContext, Done
  <2>2. QED
    BY <1>1, <1>2, <1>3, <2>1, GoesKeeps
<1>5. CASE ReadPlan(i)
  <2>1. Goes(i, Tail(handlers[i].todo), plan.version)
    BY <1>5 DEF ReadPlan
  <2>2. QED
    BY <1>1, <1>2, <1>3, <2>1, GoesKeeps
<1>6. CASE WritePlan(i)
  <2>1. Goes(i, Tail(handlers[i].todo), plan.version + 1) /\ plan.version < MaxVersion
    BY <1>6 DEF WritePlan
  <2>2. plan.version + 1 \in 0..MaxVersion
    BY <1>1, <2>1
  <2>3. QED
    BY <1>1, <1>2, <1>3, <2>1, <2>2, GoesKeeps
<1>7. CASE Raises(i)
  <2>1. handlers' = [handlers EXCEPT ![i] = [todo |-> <<>>, version |-> 0]]
    BY <1>7, Empty DEF Raises
  <2>2. 0 \in 0..MaxVersion
    BY <1>1
  <2>3. QED
    BY <1>1, <1>2, <2>1, <2>2, Empty, GoingOn
<1>8. QED
  BY <1>4, <1>5, <1>6, <1>7

LEMMA AgentsKeep ==
  ASSUME ForkInv, NEW status \in PlanState, AgentMoves(status)
  PROVE  ForkInv'
<1>1. /\ UNCHANGED <<begun, questions, handlers>>
      /\ plan.version \in 1..(MaxVersion - 1) /\ plan'.version = plan.version + 1
      /\ MaxVersion \in Nat
  BY ResearchAssumption DEF AgentMoves
<1>2. plan'.version \in 0..MaxVersion
  BY <1>1
<1>3. Open' = Open /\ Acting' = Acting
  BY <1>1 DEF Open, Acting
<1>4. QED
  BY <1>1, <1>2, <1>3 DEF ForkInv, Typed, Unbegun, OneAtATime

LEMMA CrashKeeps ==
  ASSUME ForkInv, Crash
  PROVE  ForkInv'
<1>1. /\ UNCHANGED questions /\ begun /\ begun'
      /\ handlers \in [0..MaxQuestions -> [todo : Asking, version : 0..MaxVersion]]
      /\ handlers' = [i \in DOMAIN handlers |-> [todo |-> <<>>, version |-> 0]]
      /\ plan'.version = 0 /\ 0 \in 0..MaxVersion
  BY Empty, ResearchAssumption DEF ForkInv, Typed, Crash, NoPlan
<1>2. Typed'
  BY <1>1, Empty DEF ForkInv, Typed
<1>3. Open' = Open
  BY <1>1 DEF Open
<1>4. Acting' = {}
  <2>1. Acting' = {j \in DOMAIN handlers' : Acts(handlers'[j].todo)}
    BY DEF Acting, Acts
  <2>2. QED
    BY <1>1, <2>1, Empty
<1>5. QED
  BY <1>1, <1>2, <1>3, <1>4 DEF ForkInv, Unbegun, OneAtATime

\* However the handlers overlap and wherever one fails, at most one question
\* is open or one handler acting, and a handler asks last.
THEOREM Invariance == Spec => []ForkInv
<1>1. Init => ForkInv
  <2> SUFFICES ASSUME Init PROVE ForkInv
    OBVIOUS
  <2>1. /\ questions = <<>> /\ plan.version = 0 /\ 0 \in 0..MaxVersion
        /\ handlers = [i \in 0..MaxQuestions |-> [todo |-> <<>>, version |-> 0]]
    BY Empty, ResearchAssumption DEF Init, NoPlan
  <2>2. Typed
    BY <2>1, Empty DEF Typed
  <2>3. Open = {}
    BY <2>1 DEF Open
  <2>4. Acting = {}
    BY <2>1, Empty, ActingActs
  <2>5. QED
    BY <2>1, <2>2, <2>3, <2>4 DEF ForkInv, Unbegun, OneAtATime
<1>2. ForkInv /\ [Next]_vars => ForkInv'
  <2> SUFFICES ASSUME ForkInv, [Next]_vars PROVE ForkInv'
    OBVIOUS
  <2>1. ASSUME NEW workflow, NEW intent, NEW candidates \in 0..2,
               StartRun(workflow, intent, candidates)
        PROVE  ForkInv'
    BY <2>1, StartKeeps
  <2>2. ASSUME NEW i \in 1..MaxQuestions, NEW action \in Action, Respond(i, action)
        PROVE  ForkInv'
    BY <2>2, RespondKeeps
  <2>3. ASSUME NEW i \in 1..MaxQuestions, Close(i, "cancelled") \/ Close(i, "expired")
        PROVE  ForkInv'
    BY <2>3, CloseKeeps
  <2>4. ASSUME NEW status \in PlanState, AgentMoves(status)
        PROVE  ForkInv'
    BY <2>4, AgentsKeep
  <2>5. ASSUME NEW i \in 0..MaxQuestions,
               CallBackend(i) \/ PublishCard(i) \/ SaveContext(i) \/ LoadContext(i)
                 \/ ReadPlan(i) \/ WritePlan(i) \/ Raises(i)
        PROVE  ForkInv'
    BY <2>5, StepKeeps
  <2>6. ASSUME NEW i \in 0..MaxQuestions, AskNext(i)
        PROVE  ForkInv'
    BY <2>6, AskKeeps
  <2>7. CASE Crash
    BY <2>7, CrashKeeps
  <2>8. CASE UNCHANGED vars
    BY <2>8 DEF vars, ForkInv, Typed, Unbegun, OneAtATime, Open, Acting
  <2>9. QED
    BY <2>1, <2>2, <2>3, <2>4, <2>5, <2>6, <2>7, <2>8, Zenon DEF Next
<1>3. QED
  BY <1>1, <1>2, PTL DEF Spec

\* A run never forks: one question is open, or one handler has still something
\* to ask or to write, and never both or two of them.
THEOREM OneBranch == Spec => []NeverForks
<1>1. ForkInv => NeverForks
  <2> SUFFICES ASSUME ForkInv PROVE Cardinality(Open) + Cardinality(Acting) <= 1
    BY DEF NeverForks
  <2>1. ASSUME NEW S, \A i, j \in S : i = j
        PROVE  (S = {} /\ Cardinality(S) = 0) \/ Cardinality(S) = 1
    <3>1. CASE S = {}
      BY <3>1, FS_EmptySet
    <3>2. CASE S # {}
      <4>1. PICK x : S = {x}
        BY <2>1, <3>2
      <4>2. QED
        BY <4>1, FS_Singleton
    <3>3. QED
      BY <3>1, <3>2
  <2>2. (Open = {} /\ Cardinality(Open) = 0) \/ Cardinality(Open) = 1
    BY <2>1 DEF ForkInv, OneAtATime
  <2>3. (Acting = {} /\ Cardinality(Acting) = 0) \/ Cardinality(Acting) = 1
    BY <2>1 DEF ForkInv, OneAtATime
  <2>4. Cardinality(Open) = 0 \/ Cardinality(Acting) = 0
    BY FS_EmptySet DEF ForkInv, OneAtATime
  <2>5. QED
    BY <2>2, <2>3, <2>4
<1>2. QED
  BY <1>1, Invariance, PTL

-----------------------------------------------------------------------------
(* A step that needs something comes after the step that gives it, or what   *)
(* it needs was there before.  A handler has one effect, the one it was      *)
(* asked for.                                                                *)

Mark == {"research", "scan_result", "context", "create", "activate", "remind"}
EffectKind == {"create", "revise", "activate", "remind", "review"}
Does(step, x) ==
  /\ step.of = x
  /\ \/ step.op = "write" /\ x \in {"create", "revise", "activate", "review"}
     \/ step.op = "call" /\ x = "remind"
Gives(step, x) ==
  \/ step.op \in {"save", "load"} /\ x = "context"
  \/ step.op = "publish" /\ step.of = x /\ x \in {"research", "scan_result"}
  \/ Does(step, x)

\* What a question of a kind presupposes.
Wants(kind, x) ==
  \/ kind = "scan_review" /\ x \in {"research", "scan_result", "context"}
  \/ kind \in {"plan_form", "plan_approval"} /\ x = "create"
  \/ kind = "reminder_approval" /\ x = "activate"
  \/ kind = "plan_review" /\ x = "remind"
Needs(step, x) ==
  \/ step.op = "ask" /\ Wants(step.of, x)
  \/ step.op = "write" /\ step.of = "create" /\ x = "context"
Stored(s, kept) == \A n \in DOMAIN s : \A x \in Mark : Needs(s[n], x) =>
  x \in kept \/ \E m \in DOMAIN s : m < n /\ Gives(s[m], x)
Got(s) == {x \in Mark : \E m \in DOMAIN s : Gives(s[m], x)}

\* What an answer may do.
May(x, kind, action) ==
  \/ x = "create" /\ kind = "scan_review"
  \/ x = "revise" /\ kind \in {"plan_form", "plan_approval"}
  \/ x = "activate" /\ kind = "plan_approval" /\ action = "confirm"
  \/ x = "remind" /\ kind = "reminder_approval" /\ action = "confirm"
  \/ x = "review" /\ kind = "plan_review"
Effects(step) == \E x \in EffectKind : Does(step, x)
Calm == {s \in Seq(Step) : \A n \in DOMAIN s : ~Effects(s[n])}
Deeds(kind, action) == {s \in Seq(Step) :
  /\ \A m, n \in DOMAIN s : m < n /\ Effects(s[m]) => ~Effects(s[n])
  /\ \A n \in DOMAIN s : \A x \in EffectKind : Does(s[n], x) => May(x, kind, action)}

LEMMA Joined ==
  ASSUME NEW s \in Seq(Step), NEW t \in Seq(Step)
  PROVE  /\ s \o t \in Seq(Step) /\ Len(s) \in Nat
         /\ DOMAIN (s \o t) = 1..(Len(s) + Len(t))
         /\ \A n \in DOMAIN s : n \in DOMAIN (s \o t) /\ n <= Len(s) /\ (s \o t)[n] = s[n]
         /\ \A n \in DOMAIN t : n + Len(s) \in DOMAIN (s \o t) /\ (s \o t)[n + Len(s)] = t[n]
         /\ \A n \in DOMAIN (s \o t) : n \in Nat /\
              \/ n \in DOMAIN s /\ n <= Len(s) /\ (s \o t)[n] = s[n]
              \/ /\ n > Len(s) /\ n - Len(s) \in DOMAIN t
                 /\ (s \o t)[n] = t[n - Len(s)] /\ n - Len(s) \in Nat
<1>1. /\ Len(s) \in Nat /\ Len(t) \in Nat /\ DOMAIN s = 1..Len(s) /\ DOMAIN t = 1..Len(t)
      /\ s \o t \in Seq(Step) /\ Len(s \o t) = Len(s) + Len(t)
  OBVIOUS
<1>2. DOMAIN (s \o t) = 1..(Len(s) + Len(t))
  BY <1>1
<1>3. QED
  BY <1>1, <1>2

LEMMA GotJoins ==
  ASSUME NEW s \in Seq(Step), NEW t \in Seq(Step)
  PROVE  Got(s) \subseteq Got(s \o t) /\ Got(t) \subseteq Got(s \o t)
<1>1. /\ \A n \in DOMAIN s : n \in DOMAIN (s \o t) /\ (s \o t)[n] = s[n]
      /\ \A n \in DOMAIN t : n + Len(s) \in DOMAIN (s \o t) /\ (s \o t)[n + Len(s)] = t[n]
  BY Joined
<1>2. QED
  BY <1>1 DEF Got

LEMMA StoredJoins ==
  ASSUME NEW s \in Seq(Step), NEW t \in Seq(Step), NEW kept,
         Stored(s, kept), Stored(t, kept \cup Got(s))
  PROVE  Stored(s \o t, kept)
<1>1. SUFFICES ASSUME NEW n \in DOMAIN (s \o t), NEW x \in Mark,
                      Needs((s \o t)[n], x), x \notin kept
               PROVE  \E m \in DOMAIN (s \o t) : m < n /\ Gives((s \o t)[m], x)
  BY DEF Stored
<1>2. CASE n \in DOMAIN s /\ (s \o t)[n] = s[n]
  <2>1. PICK m \in DOMAIN s : m < n /\ Gives(s[m], x)
    BY <1>1, <1>2 DEF Stored
  <2>2. m \in DOMAIN (s \o t) /\ (s \o t)[m] = s[m]
    BY <2>1, Joined
  <2>3. QED
    BY <2>1, <2>2
<1>3. CASE n > Len(s) /\ n - Len(s) \in DOMAIN t /\ (s \o t)[n] = t[n - Len(s)]
  <2>1. x \in Got(s) \/ \E m \in DOMAIN t : m < n - Len(s) /\ Gives(t[m], x)
    BY <1>1, <1>3 DEF Stored
  <2>2. CASE x \in Got(s)
    <3>1. PICK m \in DOMAIN s : Gives(s[m], x)
      BY <2>2 DEF Got
    <3>2. m \in DOMAIN (s \o t) /\ (s \o t)[m] = s[m] /\ m <= Len(s)
      BY <3>1, Joined
    <3>3. m < n
      BY <1>3, <3>2, Joined
    <3>4. QED
      BY <3>1, <3>2, <3>3
  <2>3. CASE \E m \in DOMAIN t : m < n - Len(s) /\ Gives(t[m], x)
    <3>1. PICK m \in DOMAIN t : m < n - Len(s) /\ Gives(t[m], x)
      BY <2>3
    <3>2. m + Len(s) \in DOMAIN (s \o t) /\ (s \o t)[m + Len(s)] = t[m] /\ m \in Nat
      BY <3>1, Joined
    <3>3. m + Len(s) < n
      BY <3>1, <3>2, Joined
    <3>4. QED
      BY <3>1, <3>2, <3>3
  <2>4. QED
    BY <2>1, <2>2, <2>3
<1>4. QED
  BY <1>1, <1>2, <1>3, Joined

LEMMA StoredTail ==
  ASSUME NEW s \in Seq(Step), s # <<>>, NEW kept, NEW more,
         Stored(s, kept), kept \subseteq more,
         \A x \in Mark : Gives(Head(s), x) => x \in more
  PROVE  Stored(Tail(s), more)
<1>1. /\ Len(s) \in Nat /\ DOMAIN s = 1..Len(s) /\ DOMAIN Tail(s) = 1..(Len(s) - 1)
      /\ Head(s) = s[1]
  BY DEF Step
<1>2. \A n \in DOMAIN Tail(s) : n + 1 \in DOMAIN s /\ Tail(s)[n] = s[n + 1]
  BY <1>1
<1>3. SUFFICES ASSUME NEW n \in DOMAIN Tail(s), NEW x \in Mark, Needs(Tail(s)[n], x), x \notin more
               PROVE  \E m \in DOMAIN Tail(s) : m < n /\ Gives(Tail(s)[m], x)
  BY DEF Stored
<1>4. PICK m \in DOMAIN s : m < n + 1 /\ Gives(s[m], x)
  BY <1>2, <1>3 DEF Stored
<1>5. m # 1
  BY <1>1, <1>3, <1>4
<1>6. m - 1 \in DOMAIN Tail(s) /\ m - 1 < n /\ Tail(s)[m - 1] = s[m]
  BY <1>1, <1>3, <1>4, <1>5
<1>7. QED
  BY <1>4, <1>6

LEMMA StoredMore ==
  ASSUME NEW s, NEW kept, NEW more, Stored(s, kept), kept \subseteq more
  PROVE  Stored(s, more)
  BY DEF Stored

LEMMA CalmJoins ==
  ASSUME NEW s \in Calm, NEW t \in Calm
  PROVE  s \o t \in Calm
<1>1. s \in Seq(Step) /\ t \in Seq(Step) /\ s \o t \in Seq(Step)
  BY DEF Calm
<1>2. ASSUME NEW n \in DOMAIN (s \o t) PROVE ~Effects((s \o t)[n])
  BY <1>1, Joined DEF Calm
<1>3. QED
  BY <1>1, <1>2 DEF Calm

LEMMA CalmIsDeed ==
  ASSUME NEW s \in Calm, NEW kind, NEW action
  PROVE  s \in Deeds(kind, action)
  BY DEF Calm, Deeds, Effects

LEMMA DeedsJoin ==
  ASSUME NEW kind, NEW action, NEW s \in Deeds(kind, action), NEW t \in Deeds(kind, action),
         s \in Calm \/ t \in Calm
  PROVE  s \o t \in Deeds(kind, action)
<1>1. s \in Seq(Step) /\ t \in Seq(Step) /\ s \o t \in Seq(Step)
  BY Joined DEF Deeds
<1>2. ASSUME NEW n \in DOMAIN (s \o t), NEW x \in EffectKind, Does((s \o t)[n], x)
      PROVE  May(x, kind, action)
  BY <1>1, <1>2, Joined DEF Deeds
<1>3. ASSUME NEW m \in DOMAIN (s \o t), NEW n \in DOMAIN (s \o t), m < n,
             Effects((s \o t)[m]), Effects((s \o t)[n])
      PROVE  FALSE
  <2>1. CASE n <= Len(s)
    <3>1. m \in DOMAIN s /\ n \in DOMAIN s /\ (s \o t)[m] = s[m] /\ (s \o t)[n] = s[n]
      BY <1>1, <1>3, <2>1, Joined
    <3>2. QED
      BY <1>3, <3>1 DEF Deeds
  <2>2. CASE m > Len(s)
    <3>1. /\ m - Len(s) \in DOMAIN t /\ n - Len(s) \in DOMAIN t /\ m - Len(s) < n - Len(s)
          /\ (s \o t)[m] = t[m - Len(s)] /\ (s \o t)[n] = t[n - Len(s)]
      BY <1>1, <1>3, <2>2, Joined
    <3>2. QED
      BY <1>3, <3>1 DEF Deeds
  <2>3. CASE m <= Len(s) /\ n > Len(s)
    <3>1. /\ m \in DOMAIN s /\ n - Len(s) \in DOMAIN t
          /\ (s \o t)[m] = s[m] /\ (s \o t)[n] = t[n - Len(s)]
      BY <1>1, <1>3, <2>3, Joined
    <3>2. QED
      BY <1>3, <3>1 DEF Calm
  <2>4. QED
    BY <1>1, <2>1, <2>2, <2>3, Joined
<1>4. QED
  BY <1>1, <1>2, <1>3, Zenon DEF Deeds

LEMMA DeedsTail ==
  ASSUME NEW kind, NEW action, NEW s \in Deeds(kind, action), s # <<>>
  PROVE  /\ Tail(s) \in Deeds(kind, action)
         /\ Effects(Head(s)) => Tail(s) \in Calm
         /\ s \in Calm => Tail(s) \in Calm /\ ~Effects(Head(s))
         /\ \A x \in EffectKind : Does(Head(s), x) => May(x, kind, action)
<1>1. /\ s \in Seq(Step) /\ Tail(s) \in Seq(Step) /\ Len(s) \in Nat /\ 1 \in DOMAIN s
      /\ DOMAIN Tail(s) = 1..(Len(s) - 1) /\ Head(s) = s[1]
  BY DEF Deeds
<1>2. \A n \in DOMAIN Tail(s) : n \in Nat /\ n + 1 \in DOMAIN s /\ 1 < n + 1 /\ Tail(s)[n] = s[n + 1]
  BY <1>1
<1>3. Tail(s) \in Deeds(kind, action)
  <2>1. \A m, n \in DOMAIN Tail(s) : m < n /\ Effects(Tail(s)[m]) => ~Effects(Tail(s)[n])
    BY <1>2 DEF Deeds
  <2>2. \A n \in DOMAIN Tail(s) : \A x \in EffectKind : Does(Tail(s)[n], x) => May(x, kind, action)
    BY <1>2 DEF Deeds
  <2>3. QED
    BY <1>1, <2>1, <2>2, Zenon DEF Deeds
<1>4. Effects(Head(s)) => Tail(s) \in Calm
  BY <1>1, <1>2 DEF Deeds, Calm
<1>5. s \in Calm => Tail(s) \in Calm /\ ~Effects(Head(s))
  BY <1>1, <1>2 DEF Calm
<1>6. QED
  BY <1>1, <1>3, <1>4, <1>5 DEF Deeds

LEMMA Singles ==
  ASSUME NEW x \in Step
  PROVE  /\ <<x>> \in Seq(Step)
         /\ ~Effects(x) => <<x>> \in Calm
         /\ \A kind, action : (\A y \in EffectKind : Does(x, y) => May(y, kind, action))
                => <<x>> \in Deeds(kind, action)
         /\ \A kept : (\A y \in Mark : Needs(x, y) => y \in kept) => Stored(<<x>>, kept)
         /\ \A y \in Mark : Gives(x, y) => y \in Got(<<x>>)
<1>1. <<x>> \in Seq(Step) /\ DOMAIN <<x>> = {1} /\ <<x>>[1] = x
  OBVIOUS
<1>2. ~Effects(x) => <<x>> \in Calm
  BY <1>1 DEF Calm
<1>3. \A kind, action : (\A y \in EffectKind : Does(x, y) => May(y, kind, action))
        => <<x>> \in Deeds(kind, action)
  BY <1>1 DEF Deeds
<1>4. \A kept : (\A y \in Mark : Needs(x, y) => y \in kept) => Stored(<<x>>, kept)
  BY <1>1 DEF Stored
<1>5. \A y \in Mark : Gives(x, y) => y \in Got(<<x>>)
  BY <1>1 DEF Got
<1>6. QED
  BY <1>1, <1>2, <1>3, <1>4, <1>5

\* The steps that have no effect and need nothing.
Free == {s \in Calm : \A kept : Stored(s, kept)}

LEMMA FreePieces ==
  /\ \A of \in {"prepare", "summarize", "values"} : Call(of) \in Free
  /\ \A of \in Artifact : Publish(of) \in Free
  /\ Answered \in Free /\ Save \in Free /\ Load \in Free /\ Read \in Free
  /\ \A s \in Free : s \in Calm /\ s \in Seq(Step) /\ \A kept : Stored(s, kept)
<1>1. ASSUME NEW x \in Step, ~Effects(x), \A y \in Mark : ~Needs(x, y)
      PROVE  <<x>> \in Free
  BY <1>1, Singles DEF Free
<1>2. \A of \in {"prepare", "summarize", "values"} : Call(of) \in Free
  BY <1>1 DEF Call, Step, Effects, Does, Needs
<1>3. \A of \in Artifact : Publish(of) \in Free
  BY <1>1 DEF Publish, Step, Effects, Does, Needs
<1>4. Answered \in Free /\ Save \in Free /\ Load \in Free /\ Read \in Free
  BY <1>1 DEF Answered, Save, Load, Read, Step, Effects, Does, Needs
<1>5. \A s \in Free : s \in Calm /\ s \in Seq(Step) /\ \A kept : Stored(s, kept)
  BY DEF Free, Calm
<1>6. QED
  BY <1>2, <1>3, <1>4, <1>5

LEMMA FreeJoins ==
  ASSUME NEW s \in Free, NEW t \in Free
  PROVE  s \o t \in Free
<1>1. s \o t \in Calm
  BY CalmJoins, FreePieces
<1>2. ASSUME NEW kept PROVE Stored(s \o t, kept)
  BY FreePieces, StoredJoins
<1>3. QED
  BY <1>1, <1>2 DEF Free

\* Questions, and the one effect of a handler.
LEMMA Questions ==
  ASSUME NEW kind \in Kind
  PROVE  /\ Ask(kind) \in Calm /\ Ask(kind) \in Seq(Step)
         /\ \A kept : (\A x \in Mark : Wants(kind, x) => x \in kept) => Stored(Ask(kind), kept)
<1>1. [op |-> "ask", of |-> kind] \in Step
  BY DEF Step
<1>2. ~Effects([op |-> "ask", of |-> kind])
  BY DEF Effects, Does
<1>3. \A x : Needs([op |-> "ask", of |-> kind], x) => Wants(kind, x)
  BY DEF Needs
<1>4. QED
  BY <1>1, <1>2, <1>3, Singles DEF Ask

LEMMA Deed ==
  ASSUME NEW x \in EffectKind, NEW s, s = IF x = "remind" THEN Call(x) ELSE Write(x)
  PROVE  /\ s \in Seq(Step)
         /\ \A kind, action : May(x, kind, action) => s \in Deeds(kind, action)
         /\ \A kept : (x = "create" => "context" \in kept) => Stored(s, kept)
         /\ x \in Mark => x \in Got(s)
<1> DEFINE step == [op |-> IF x = "remind" THEN "call" ELSE "write", of |-> x]
<1>1. s = <<step>> /\ step \in Step
  BY DEF Call, Write, Step, EffectKind
<1>2. \A y \in EffectKind : Does(step, y) => y = x
  BY DEF Does
<1>3. \A y : Needs(step, y) => y = "context" /\ x = "create"
  BY DEF Needs
<1>4. Gives(step, x)
  BY DEF Gives, Does, EffectKind
<1>5. QED
  BY <1>1, <1>2, <1>3, <1>4, Singles

\* A handler that does x after some free steps, and then asks.
LEMMA Does1 ==
  ASSUME NEW kind, NEW action, NEW before \in Free, NEW deed, NEW x \in EffectKind,
         deed = IF x = "remind" THEN Call(x) ELSE Write(x), May(x, kind, action),
         NEW kept, x = "create" => "context" \in kept
  PROVE  /\ before \o deed \in Deeds(kind, action) /\ Stored(before \o deed, kept)
         /\ before \o deed \in Seq(Step)
         /\ x \in Mark => x \in Got(before \o deed)
<1>1. /\ deed \in Deeds(kind, action) /\ Stored(deed, kept \cup Got(before)) /\ deed \in Seq(Step)
      /\ x \in Mark => x \in Got(deed)
  BY Deed
<1>2. before \in Calm /\ before \in Seq(Step) /\ Stored(before, kept)
  BY FreePieces
<1>3. before \in Deeds(kind, action)
  BY <1>2, CalmIsDeed
<1>4. QED
  BY <1>1, <1>2, <1>3, DeedsJoin, StoredJoins, GotJoins, Joined

LEMMA Then ==
  ASSUME NEW kind, NEW action, NEW kept, NEW s \in Deeds(kind, action), Stored(s, kept),
         NEW t \in Calm, Stored(t, kept \cup Got(s))
  PROVE  s \o t \in Deeds(kind, action) /\ Stored(s \o t, kept) /\ Got(s) \subseteq Got(s \o t)
<1>1. s \in Seq(Step) /\ t \in Seq(Step)
  BY DEF Deeds, Calm
<1>2. t \in Deeds(kind, action)
  BY CalmIsDeed
<1>3. QED
  BY <1>1, <1>2, DeedsJoin, StoredJoins, GotJoins

LEMMA First ==
  ASSUME NEW kind, NEW action, NEW kept, NEW s \in Free,
         NEW t \in Deeds(kind, action), Stored(t, kept)
  PROVE  s \o t \in Deeds(kind, action) /\ Stored(s \o t, kept)
<1>1. s \in Calm /\ s \in Seq(Step) /\ Stored(s, kept) /\ t \in Seq(Step)
  BY FreePieces DEF Deeds
<1>2. s \in Deeds(kind, action)
  BY <1>1, CalmIsDeed
<1>3. Stored(t, kept \cup Got(s))
  BY StoredMore
<1>4. QED
  BY <1>1, <1>2, <1>3, DeedsJoin, StoredJoins

LEMMA Preparing ==
  ASSUME NEW kept
  PROVE  Prepare \in Calm /\ Stored(Prepare, kept)
<1> DEFINE a == Call("prepare") \o Publish("research")
           b == a \o Publish("progress")
           c == b \o Publish("progress")
           d == c \o Publish("scan_result")
           e == d \o Save
<1> USE FreePieces, FreeJoins, GotJoins DEF Artifact
<1>1. a \in Free /\ b \in Free /\ c \in Free /\ d \in Free /\ e \in Free
  OBVIOUS
<1>2. "research" \in Got(Publish("research")) /\ "scan_result" \in Got(Publish("scan_result"))
      /\ "context" \in Got(Save)
  BY DEF Got, Gives, Mark, Publish, Save
<1>3. "research" \in Got(a) /\ "research" \in Got(b) /\ "research" \in Got(c)
  <2>1. Call("prepare") \in Seq(Step) /\ Publish("research") \in Seq(Step)
        /\ Publish("progress") \in Seq(Step)
    OBVIOUS
  <2>2. QED
    BY <1>1, <1>2, <2>1
<1>4. "research" \in Got(d) /\ "scan_result" \in Got(d)
  BY <1>1, <1>2, <1>3
<1>5. {"research", "scan_result", "context"} \subseteq Got(e)
  <2>1. Got(d) \subseteq Got(e) /\ Got(Save) \subseteq Got(e)
    BY <1>1
  <2>2. QED
    BY <1>2, <1>4, <2>1
<1>6. Ask("scan_review") \in Calm /\ Ask("scan_review") \in Seq(Step)
      /\ Stored(Ask("scan_review"), kept \cup Got(e))
  <2>1. "scan_review" \in Kind
    BY DEF Kind
  <2>2. \A x \in Mark : Wants("scan_review", x) => x \in kept \cup Got(e)
    BY <1>5 DEF Wants
  <2>3. QED
    BY <2>1, <2>2, Questions
<1>7. e \o Ask("scan_review") \in Calm /\ Stored(e \o Ask("scan_review"), kept)
  BY <1>1, <1>6, CalmJoins, StoredJoins
<1>8. QED
  BY <1>7 DEF Prepare, AskScanReview

LEMMA Starting ==
  ASSUME NEW kept, NEW candidates \in 0..2
  PROVE  /\ Start(candidates) \in Calm /\ Stored(Start(candidates), kept)
         /\ Publish("notice") \in Calm /\ Stored(Publish("notice"), kept)
         /\ <<>> \in Calm /\ Stored(<<>>, kept)
<1>1. Publish("notice") \in Calm /\ Stored(Publish("notice"), kept)
  BY FreePieces DEF Artifact
<1>2. <<>> \in Calm /\ Stored(<<>>, kept)
  BY DEF Calm, Stored
<1>3. AskSecurityChoice \in Calm /\ Stored(AskSecurityChoice, kept)
  <2>1. "security_choice" \in Kind /\ \A x : ~Wants("security_choice", x)
    BY DEF Kind, Wants
  <2>2. QED
    BY <2>1, Questions DEF AskSecurityChoice
<1>4. QED
  BY <1>1, <1>2, <1>3, Preparing DEF Start

\* What a handler does is what its question was for, once; before it asks the
\* next question it has done or stored what that presupposes.
LEMMA Handling ==
  ASSUME NEW kind \in Kind, NEW action \in Action, NEW kept,
         \A x \in Mark : Wants(kind, x) => x \in kept
  PROVE  Handler(kind, action) \in Deeds(kind, action) /\ Stored(Handler(kind, action), kept)
<1> DEFINE Good(s) == s \in Deeds(kind, action) /\ Stored(s, kept)
<1> USE FreePieces, FreeJoins
<1>1. ASSUME NEW s \in Free PROVE Good(s)
  BY CalmIsDeed
<1>2. <<>> \in Free
  BY DEF Free, Calm, Stored
<1>3. CASE kind = "security_choice"
  <2>1. Prepare \in Deeds(kind, action) /\ Stored(Prepare, kept)
    BY Preparing, CalmIsDeed
  <2>2. Good(Answered \o Prepare)
    BY <2>1, First
  <2>3. QED
    BY <1>3, <2>2 DEF Handler
<1>4. CASE kind = "scan_review"
  <2> DEFINE before == Load \o Call("summarize") \o Call("values")
             deed == before \o Write("create")
  <2>1. "context" \in kept /\ May("create", kind, action)
    BY <1>4 DEF Wants, Mark, May
  <2>2. before \in Free
    OBVIOUS
  <2>3. Good(deed) /\ "create" \in Got(deed)
    BY <2>1, <2>2, Does1 DEF EffectKind, Mark
  <2>4. Ask("plan_approval") \in Calm /\ Stored(Ask("plan_approval"), kept \cup Got(deed))
    BY <2>3, Questions DEF Kind, Wants
  <2>5. Good(deed \o Ask("plan_approval"))
    BY <2>3, <2>4, Then
  <2>6. Good(Answered \o (deed \o Ask("plan_approval"))) /\ Good(Answered \o <<>>)
    BY <1>1, <1>2, <2>5, First
  <2>7. Good(OnScanReview(action))
    BY <2>6 DEF OnScanReview, AskPlanApproval
  <2>8. QED
    BY <1>4, <2>7 DEF Handler
<1>5. CASE kind = "plan_form"
  <2> DEFINE before == Answered \o Read \o Call("values")
             deed == before \o Write("revise")
  <2>1. "create" \in kept /\ May("revise", kind, action)
    BY <1>5 DEF Wants, Mark, May
  <2>2. before \in Free
    OBVIOUS
  <2>3. Good(deed)
    BY <2>1, <2>2, Does1 DEF EffectKind
  <2>4. Ask("plan_approval") \in Calm /\ Stored(Ask("plan_approval"), kept \cup Got(deed))
    BY <2>1, Questions DEF Kind, Wants
  <2>5. Good(deed \o Ask("plan_approval"))
    BY <2>3, <2>4, Then
  <2>6. QED
    BY <1>5, <2>5 DEF Handler, OnPlanForm, AskPlanApproval
<1>6. CASE kind = "plan_approval"
  <2> DEFINE before == Read \o Answered
             edited == before \o Write("revise")
             active == before \o Write("activate")
             shown == active \o Publish("plan")
  <2>1. "create" \in kept /\ May("revise", kind, action)
    BY <1>6 DEF Wants, Mark, May
  <2>2. before \in Free
    OBVIOUS
  <2>3. Good(edited)
    BY <2>1, <2>2, Does1 DEF EffectKind
  <2>4. Ask("plan_form") \in Calm /\ Stored(Ask("plan_form"), kept \cup Got(edited))
    BY <2>1, Questions DEF Kind, Wants
  <2>5. Good(edited \o Ask("plan_form"))
    BY <2>3, <2>4, Then
  <2>6. ASSUME action = "confirm" PROVE Good(shown \o Ask("reminder_approval"))
    <3>1. May("activate", kind, action)
      BY <1>6, <2>6 DEF May
    <3>2. Good(active) /\ "activate" \in Got(active)
      BY <2>2, <3>1, Does1 DEF EffectKind, Mark
    <3>3. Publish("plan") \in Calm /\ Stored(Publish("plan"), kept \cup Got(active))
      BY DEF Artifact
    <3>4. Good(shown) /\ "activate" \in Got(shown)
      BY <3>2, <3>3, Then
    <3>5. Ask("reminder_approval") \in Calm /\ Stored(Ask("reminder_approval"), kept \cup Got(shown))
      BY <3>4, Questions DEF Kind, Wants
    <3>6. QED
      BY <3>4, <3>5, Then
  <2>7. Good(OnPlanApproval(action))
    BY <1>1, <2>2, <2>5, <2>6 DEF OnPlanApproval, AskPlanForm, AskReminderApproval
  <2>8. QED
    BY <1>6, <2>7 DEF Handler
<1>7. CASE kind = "reminder_approval"
  <2> DEFINE shown == Call("remind") \o Publish("reminder")
             read == shown \o Read
  <2>1. ASSUME action = "confirm" PROVE Good(read \o Ask("plan_review"))
    <3>1. May("remind", kind, action)
      BY <1>7, <2>1 DEF May
    <3>2. Good(Call("remind")) /\ "remind" \in Got(Call("remind"))
      BY <3>1, Deed DEF EffectKind, Mark
    <3>3. Publish("reminder") \in Calm /\ Stored(Publish("reminder"), kept \cup Got(Call("remind")))
      BY DEF Artifact
    <3>4. Good(shown) /\ "remind" \in Got(shown)
      BY <3>2, <3>3, Then
    <3>5. Read \in Calm /\ Stored(Read, kept \cup Got(shown))
      OBVIOUS
    <3>6. Good(read) /\ "remind" \in Got(read)
      BY <3>4, <3>5, Then
    <3>7. Ask("plan_review") \in Calm /\ Stored(Ask("plan_review"), kept \cup Got(read))
      BY <3>6, Questions DEF Kind, Wants
    <3>8. QED
      BY <3>6, <3>7, Then
  <2>2. Good(Answered \o <<>>)
    BY <1>1, <1>2
  <2>3. Good(OnReminderApproval(action))
    BY <2>1, <2>2, First DEF OnReminderApproval, AskPlanReview
  <2>4. QED
    BY <1>7, <2>3 DEF Handler
<1>8. CASE kind = "plan_review"
  <2> DEFINE deed == Call("values") \o Write("review")
  <2>1. May("review", kind, action)
    BY <1>8 DEF May
  <2>2. Good(deed)
    BY <2>1, Does1 DEF EffectKind
  <2>3. /\ Publish("review") \in Calm /\ Stored(Publish("review"), kept \cup Got(deed))
        /\ Publish("plan") \in Calm
        /\ Stored(Publish("plan"), kept \cup Got(deed \o Publish("review")))
    BY DEF Artifact
  <2>4. Good(deed \o Publish("review"))
    BY <2>2, <2>3, Then
  <2>5. Good(deed \o Publish("review") \o Publish("plan"))
    BY <2>3, <2>4, Then
  <2>6. Good(Answered \o (deed \o Publish("review") \o Publish("plan"))) /\ Good(Answered \o <<>>)
    BY <1>1, <1>2, <2>5, First
  <2>7. Good(OnPlanReview(action))
    BY <2>6 DEF OnPlanReview
  <2>8. QED
    BY <1>8, <2>7 DEF Handler
<1>9. QED
  BY <1>3, <1>4, <1>5, <1>6, <1>7, <1>8 DEF Kind
-----------------------------------------------------------------------------
(* What the answers up to number i left behind, and what each did.           *)

Kept == [i \in Nat |-> {x \in Mark :
  \/ x = "context" /\ context
  \/ x \in {"research", "scan_result"} /\ x \in cards
  \/ x \in {"create", "activate", "remind"} /\ \E f \in effects : f.of = x /\ f.by <= i}]
Able(i, s, qs, es) ==
  \/ i = 0 /\ s \in Calm
  \/ /\ i \in DOMAIN qs /\ qs[i].status = "resolved"
     /\ s \in Deeds(qs[i].kind, qs[i].action)
     /\ (\E e \in es : e.by = i) => s \in Calm
Justified(e, qs) ==
  /\ e.by \in DOMAIN qs /\ qs[e.by].status = "resolved"
  /\ e.of \in EffectKind /\ May(e.of, qs[e.by].kind, qs[e.by].action)
  /\ e.of = "review" => e.version = qs[e.by].version
Grounded(j, qs, kept) == \A x \in Mark : Wants(qs[j].kind, x) => x \in kept[j - 1]
Stays(qs, after) == \A j \in DOMAIN qs :
  /\ j \in DOMAIN after /\ after[j].kind = qs[j].kind /\ after[j].version = qs[j].version
  /\ qs[j].status = "resolved" => after[j].status = "resolved" /\ after[j].action = qs[j].action

Backed == \A i \in 0..MaxQuestions : Stored(handlers[i].todo, Kept[i])
Founded == \A j \in DOMAIN questions : Grounded(j, questions, Kept)
Working == \A i \in 0..MaxQuestions :
  handlers[i].todo # <<>> => Able(i, handlers[i].todo, questions, effects)
Just ==
  /\ \A e \in effects : Justified(e, questions)
  /\ \A e, f \in effects : e.by = f.by => e = f
  /\ \A e \in effects : e.of = "create" => context
ActInv == Backed /\ Founded /\ Working /\ Just

LEMMA KeptGrows ==
  ASSUME context => context', cards \subseteq cards', effects \subseteq effects'
  PROVE  \A i \in Nat : Kept[i] \subseteq Kept'[i]
<1>1. ASSUME NEW i \in Nat, NEW x \in Kept[i] PROVE x \in Kept'[i]
  <2>1. x \in Mark /\ \/ x = "context" /\ context
                      \/ x \in {"research", "scan_result"} /\ x \in cards
                      \/ x \in {"create", "activate", "remind"}
                           /\ \E f \in effects : f.of = x /\ f.by <= i
    BY <1>1 DEF Kept
  <2>2. \/ x = "context" /\ context'
        \/ x \in {"research", "scan_result"} /\ x \in cards'
        \/ x \in {"create", "activate", "remind"}
             /\ \E f \in effects' : f.of = x /\ f.by <= i
    BY <2>1, Zenon
  <2>3. QED
    BY <2>1, <2>2 DEF Kept
<1>2. QED
  BY <1>1

\* Nothing that was stored, done or asked is taken back.
LEMMA Growing ==
  ASSUME ForkInv, [Next]_vars
  PROVE  /\ \A i \in Nat : Kept[i] \subseteq Kept'[i]
         /\ Stays(questions, questions')
         /\ effects \subseteq effects' /\ (context => context')
<1>1. /\ questions \in Seq(Question)
      /\ \A j \in DOMAIN questions : questions[j] \in Question
  BY DEF ForkInv, Typed
<1>2. (context => context') /\ cards \subseteq cards' /\ effects \subseteq effects'
  <2> DEFINE Grows == (context => context') /\ cards \subseteq cards' /\ effects \subseteq effects'
  <2>1. UNCHANGED <<context, cards, effects>> => Grows
    OBVIOUS
  <2>2. ASSUME NEW i \in 0..MaxQuestions,
               CallBackend(i) \/ WritePlan(i) \/ Raises(i)
        PROVE  Grows
    BY <2>2 DEF CallBackend, WritePlan, Raises
  <2>3. ASSUME NEW i \in 0..MaxQuestions, PublishCard(i)
        PROVE  Grows
    BY <2>3 DEF PublishCard
  <2>4. ASSUME NEW i \in 0..MaxQuestions, SaveContext(i) \/ LoadContext(i) \/ ReadPlan(i) \/ AskNext(i)
        PROVE  Grows
    BY <2>4 DEF SaveContext, LoadContext, ReadPlan, AskNext
  <2>5. ASSUME \/ \E workflow, intent, candidates : StartRun(workflow, intent, candidates)
               \/ \E i, action : Respond(i, action)
               \/ \E i, status : Close(i, status)
               \/ \E status : AgentMoves(status)
               \/ Crash \/ UNCHANGED vars
        PROVE  UNCHANGED <<context, cards, effects>>
    BY <2>5 DEF StartRun, Respond, Close, AgentMoves, Crash, vars
  <2>6. QED
    BY <2>1, <2>2, <2>3, <2>4, <2>5, Zenon DEF Next
<1>3. UNCHANGED questions => Stays(questions, questions')
  BY DEF Stays
<1>4. ASSUME NEW i \in 1..MaxQuestions, NEW action \in Action, Respond(i, action)
      PROVE  Stays(questions, questions')
  <2>1. /\ i \in DOMAIN questions /\ questions[i].status = "pending"
        /\ questions' = [questions EXCEPT ![i].status = "resolved", ![i].action = action]
    BY <1>4 DEF Respond
  <2>2. DOMAIN questions' = DOMAIN questions
        /\ questions'[i].kind = questions[i].kind /\ questions'[i].version = questions[i].version
        /\ \A j \in DOMAIN questions : j # i => questions'[j] = questions[j]
    BY <1>1, <2>1 DEF Question
  <2>3. QED
    BY <2>1, <2>2 DEF Stays
<1>5. ASSUME NEW i \in 1..MaxQuestions, NEW status, Close(i, status)
      PROVE  Stays(questions, questions')
  <2>1. /\ i \in DOMAIN questions /\ questions[i].status = "pending"
        /\ questions' = [questions EXCEPT ![i].status = status]
    BY <1>5 DEF Close
  <2>2. DOMAIN questions' = DOMAIN questions
        /\ questions'[i].kind = questions[i].kind /\ questions'[i].version = questions[i].version
        /\ \A j \in DOMAIN questions : j # i => questions'[j] = questions[j]
    BY <1>1, <2>1 DEF Question
  <2>3. QED
    BY <2>1, <2>2 DEF Stays
<1>6. ASSUME NEW i \in 0..MaxQuestions, AskNext(i)
      PROVE  Stays(questions, questions')
  <2>1. PICK new : questions' = Append(questions, new)
    BY <1>6 DEF AskNext
  <2>2. \A j \in DOMAIN questions : j \in DOMAIN questions' /\ questions'[j] = questions[j]
    BY <1>1, <2>1
  <2>3. QED
    BY <2>2 DEF Stays
<1>7. Stays(questions, questions')
  BY <1>3, <1>4, <1>5, <1>6 DEF Next, vars, StartRun, AgentMoves, CallBackend, PublishCard,
     SaveContext, LoadContext, ReadPlan, WritePlan, Raises, Crash
<1>8. QED
  BY <1>2, <1>7, KeptGrows

\* A step that starts or moves one handler, which may have its effect now.
LEMMA ActStep ==
  ASSUME ForkInv, ActInv, [Next]_vars,
         NEW i \in 0..MaxQuestions, NEW todo, NEW version,
         handlers' = [handlers EXCEPT ![i] = [todo |-> todo, version |-> version]],
         Stored(todo, Kept'[i]),
         todo # <<>> => Able(i, todo, questions', effects'),
         \A e \in effects' \ effects : /\ e.by = i /\ Justified(e, questions')
                                       /\ e.of = "create" => context'
                                       /\ \A f \in effects : f.by # i
                                       /\ \A f \in effects' \ effects : f = e,
         \A j \in DOMAIN questions' \ DOMAIN questions : Grounded(j, questions', Kept')
  PROVE  ActInv'
<1>1. /\ handlers \in [0..MaxQuestions -> [todo : Asking, version : 0..MaxVersion]]
      /\ questions \in Seq(Question) /\ 0..MaxQuestions \subseteq Nat
  BY ResearchAssumption DEF ForkInv, Typed
<1>2. /\ \A j \in Nat : Kept[j] \subseteq Kept'[j]
      /\ Stays(questions, questions') /\ effects \subseteq effects' /\ (context => context')
  BY Growing
<1>3. /\ \A j \in 0..MaxQuestions : j # i => handlers'[j] = handlers[j]
      /\ handlers'[i].todo = todo
  BY <1>1
<1>4. Backed'
  <2>1. ASSUME NEW j \in 0..MaxQuestions PROVE Stored(handlers'[j].todo, Kept'[j])
    BY <1>1, <1>2, <1>3, StoredMore DEF ActInv, Backed
  <2>2. QED
    BY <2>1 DEF Backed
<1>5. Founded'
  <2>1. ASSUME NEW j \in DOMAIN questions PROVE Grounded(j, questions', Kept')
    <3>1. j - 1 \in Nat
      BY <1>1
    <3>2. QED
      BY <1>2, <3>1 DEF ActInv, Founded, Grounded, Stays
  <2>2. QED
    BY <2>1 DEF Founded
<1>6. Working'
  <2>1. ASSUME NEW j \in 0..MaxQuestions, j # i, handlers'[j].todo # <<>>
        PROVE  Able(j, handlers'[j].todo, questions', effects')
    <3>1. Able(j, handlers[j].todo, questions, effects)
      BY <1>3, <2>1 DEF ActInv, Working
    <3>2. (\E e \in effects' : e.by = j) => \E e \in effects : e.by = j
      BY <2>1
    <3>3. QED
      BY <1>2, <1>3, <2>1, <3>1, <3>2 DEF Able, Stays
  <2>2. QED
    BY <1>3, <2>1 DEF Working
<1>7. Just'
  <2>1. ASSUME NEW e \in effects' PROVE Justified(e, questions')
    <3>1. CASE e \in effects
      <4>1. Justified(e, questions)
        BY <3>1 DEF ActInv, Just
      <4>2. QED
        BY <1>2, <4>1 DEF Justified, Stays
    <3>2. QED
      BY <3>1
  <2>2. ASSUME NEW e \in effects', NEW f \in effects', e.by = f.by PROVE e = f
    BY <2>2 DEF ActInv, Just
  <2>3. ASSUME NEW e \in effects', e.of = "create" PROVE context'
    <3>1. CASE e \in effects
      BY <1>2, <2>3, <3>1 DEF ActInv, Just
    <3>2. QED
      BY <2>3, <3>1
  <2>4. QED
    BY <2>1, <2>2, <2>3, Zenon DEF Just
<1>8. QED
  BY <1>4, <1>5, <1>6, <1>7 DEF ActInv

LEMMA TodoSet ==
  ASSUME ForkInv, NEW i \in 0..MaxQuestions, NEW todo
  PROVE  [handlers EXCEPT ![i].todo = todo] =
           [handlers EXCEPT ![i] = [todo |-> todo, version |-> handlers[i].version]]
<1>1. handlers[i] \in [todo : Asking, version : 0..MaxVersion]
  BY DEF ForkInv, Typed
<1>2. [handlers[i] EXCEPT !.todo = todo] = [todo |-> todo, version |-> handlers[i].version]
  BY <1>1
<1>3. [handlers EXCEPT ![i].todo = todo] = [handlers EXCEPT ![i] = [handlers[i] EXCEPT !.todo = todo]]
  OBVIOUS
<1>4. QED
  BY <1>2, <1>3, Zenon

\* What a busy handler has before it, and when it has done its next step.
LEMMA Onward ==
  ASSUME ForkInv, ActInv, NEW i \in 0..MaxQuestions, Busy(i)
  PROVE  LET s == handlers[i].todo IN
         /\ i \in Nat /\ s \in Seq(Step) /\ s # <<>> /\ Head(s) = s[1] /\ 1 \in DOMAIN s
         /\ Head(s) \in Step
         /\ Stored(s, Kept[i]) /\ Able(i, s, questions, effects)
         /\ ~Effects(Head(s)) => Able(i, Tail(s), questions, effects)
<1> DEFINE s == handlers[i].todo
<1>1. /\ s \in Seq(Step) /\ s # <<>> /\ Head(s) = s[1] /\ 1 \in DOMAIN s /\ Head(s) \in Step
      /\ i \in Nat
  <2>1. s \in Asking /\ s # <<>>
    BY DEF ForkInv, Typed, Busy
  <2>2. s \in Seq(Step)
    BY <2>1 DEF Asking
  <2>3. QED
    BY <2>1, <2>2, ResearchAssumption
<1>2. Stored(s, Kept[i]) /\ Able(i, s, questions, effects)
  BY <1>1 DEF ActInv, Backed, Working
<1>3. Able(i, Tail(s), questions, effects)
  <2>1. \A kind, action : s \in Calm => s \in Deeds(kind, action)
    BY CalmIsDeed
  <2>2. \A kind, action : s \in Deeds(kind, action) => Tail(s) \in Deeds(kind, action)
    BY <1>1, DeedsTail
  <2>3. s \in Calm => Tail(s) \in Calm
    BY <1>1, <2>1, DeedsTail
  <2>4. QED
    BY <1>2, <2>2, <2>3 DEF Able
<1>4. QED
  BY <1>1, <1>2, <1>3

LEMMA GoesOn ==
  ASSUME NEW i, NEW todo, NEW version, Goes(i, todo, version)
  PROVE  \E v : handlers' = [handlers EXCEPT ![i] = [todo |-> todo, version |-> v]]
<1>1. CASE todo = <<>>
  <2>1. handlers' = [handlers EXCEPT ![i] = [todo |-> todo, version |-> 0]]
    BY <1>1, Empty DEF Goes
  <2>2. QED
    BY <2>1
<1>2. CASE todo # <<>>
  <2>1. handlers' = [handlers EXCEPT ![i] = [todo |-> todo, version |-> version]]
    BY <1>2 DEF Goes
  <2>2. QED
    BY <2>1
<1>3. QED
  BY <1>1, <1>2

\* A step without an effect.
LEMMA CalmStep ==
  ASSUME ForkInv, ActInv, [Next]_vars, NEW i \in 0..MaxQuestions, Busy(i),
         ~Effects(Next1(i)), NEW version, Goes(i, Tail(handlers[i].todo), version),
         UNCHANGED <<questions, effects>>,
         \A x \in Mark : Gives(Next1(i), x) => x \in Kept'[i]
  PROVE  ActInv'
<1> DEFINE s == handlers[i].todo
<1>1. /\ s \in Seq(Step) /\ s # <<>> /\ Stored(s, Kept[i]) /\ i \in Nat
      /\ Able(i, Tail(s), questions, effects)
  BY Onward DEF Next1
<1>2. Stored(Tail(s), Kept'[i])
  <2>1. Kept[i] \subseteq Kept'[i]
    BY <1>1, Growing
  <2>2. QED
    BY <1>1, <2>1, StoredTail DEF Next1
<1>3. PICK v : handlers' = [handlers EXCEPT ![i] = [todo |-> Tail(s), version |-> v]]
  BY GoesOn
<1>4. QED
  BY <1>1, <1>2, <1>3, ActStep

\* The step that has the effect of its handler.
LEMMA EffectStep ==
  ASSUME ForkInv, ActInv, [Next]_vars, NEW i \in 0..MaxQuestions, Busy(i),
         NEW x \in EffectKind, Does(Next1(i), x), NEW n, NEW todo, NEW version,
         todo = Tail(handlers[i].todo) \/ todo = <<>>,
         handlers' = [handlers EXCEPT ![i] = [todo |-> todo, version |-> version]],
         UNCHANGED <<questions, context>>,
         effects' = effects \cup {[by |-> i, of |-> x, version |-> n]},
         x = "review" => n = questions[i].version
  PROVE  ActInv'
<1> DEFINE s == handlers[i].todo
           new == [by |-> i, of |-> x, version |-> n]
<1>1. /\ s \in Seq(Step) /\ s # <<>> /\ Stored(s, Kept[i]) /\ i \in Nat /\ Effects(Head(s))
      /\ Head(s) = s[1] /\ 1 \in DOMAIN s /\ Able(i, s, questions, effects)
  BY Onward DEF Next1, Effects
<1>2. ~(s \in Calm)
  BY <1>1 DEF Calm
<1>3. /\ i \in DOMAIN questions /\ questions[i].status = "resolved"
      /\ s \in Deeds(questions[i].kind, questions[i].action)
      /\ \A e \in effects : e.by # i
  BY <1>1, <1>2 DEF Able
<1>4. /\ Tail(s) \in Deeds(questions[i].kind, questions[i].action) /\ Tail(s) \in Calm
      /\ May(x, questions[i].kind, questions[i].action)
  BY <1>1, <1>3, DeedsTail DEF Next1
<1>5. Justified(new, questions')
  BY <1>3, <1>4 DEF Justified
<1>6. x = "create" => context
  <2>1. ASSUME x = "create" PROVE "context" \in Kept[i]
    <3>1. Needs(s[1], "context") /\ "context" \in Mark
      BY <1>1, <2>1 DEF Does, Next1, Needs, Mark
    <3>2. \A m \in DOMAIN s : ~(m < 1)
      BY <1>1
    <3>3. QED
      BY <1>1, <3>1, <3>2 DEF Stored
  <2>2. QED
    BY <1>1, <2>1 DEF Kept
<1>7. Kept[i] \subseteq Kept'[i]
  BY <1>1, Growing
<1>8. Stored(todo, Kept'[i])
  <2>1. \A y \in Mark : Gives(Head(s), y) => y \in Kept'[i]
    <3>1. ASSUME NEW y \in Mark, Gives(Head(s), y)
          PROVE  y = x /\ y \in {"create", "activate", "remind"}
      BY <3>1 DEF Gives, Does, Next1, Mark
    <3>2. new \in effects' /\ new.of = x /\ new.by <= i
      BY <1>1
    <3>3. QED
      BY <1>1, <3>1, <3>2 DEF Kept
  <2>2. Stored(Tail(s), Kept'[i])
    BY <1>1, <1>7, <2>1, StoredTail
  <2>3. Stored(<<>>, Kept'[i])
    BY DEF Stored
  <2>4. QED
    BY <2>2, <2>3
<1>9. todo # <<>> => Able(i, todo, questions', effects')
  BY <1>3, <1>4 DEF Able
<1>10. \A e \in effects' \ effects : e = new
  OBVIOUS
<1>11. \A e \in effects' \ effects : /\ e.by = i /\ Justified(e, questions')
                                     /\ e.of = "create" => context'
                                     /\ \A f \in effects : f.by # i
                                     /\ \A f \in effects' \ effects : f = e
  <2>1. new.by = i /\ new.of = x
    OBVIOUS
  <2>2. context => context'
    BY Growing
  <2>3. new.of = "create" => context'
    <3>1. new.of = "create" => x = "create"
      BY <2>1
    <3>2. QED
      BY <1>6, <2>2, <3>1, Zenon
  <2>4. QED
    BY <1>3, <1>5, <1>10, <2>1, <2>3, Zenon
<1>12. QED
  BY <1>8, <1>9, <1>11, ActStep

LEMMA HandlerActs ==
  ASSUME ForkInv, ActInv, [Next]_vars, NEW i \in 0..MaxQuestions,
         CallBackend(i) \/ PublishCard(i) \/ SaveContext(i) \/ LoadContext(i)
           \/ ReadPlan(i) \/ WritePlan(i) \/ Raises(i)
  PROVE  ActInv'
<1>1. i \in Nat /\ Busy(i) /\ Next1(i) \in Step
  <2>1. Busy(i)
    BY DEF CallBackend, PublishCard, SaveContext, LoadContext, ReadPlan, WritePlan, Raises, Doing
  <2>2. QED
    BY <2>1, Onward DEF Next1
<1>2. CASE CallBackend(i) /\ Next1(i).of # "remind"
  <2>1. /\ Next1(i).op = "call" /\ UNCHANGED <<questions, effects>>
        /\ Goes(i, Tail(handlers[i].todo), handlers[i].version)
    BY <1>2 DEF CallBackend, Doing, Done
  <2>2. ~Effects(Next1(i)) /\ \A x \in Mark : ~Gives(Next1(i), x)
    BY <1>2, <2>1 DEF Effects, Does, Gives
  <2>3. QED
    BY <1>1, <2>1, <2>2, CalmStep
<1>3. CASE CallBackend(i) /\ Next1(i).of = "remind"
  <2>1. /\ Next1(i).op = "call" /\ UNCHANGED <<questions, context>>
        /\ effects' = effects \cup {[by |-> i, of |-> "remind", version |-> 0]}
        /\ Goes(i, Tail(handlers[i].todo), handlers[i].version)
    BY <1>3 DEF CallBackend, Doing, Done
  <2>2. "remind" \in EffectKind /\ Does(Next1(i), "remind")
    BY <1>3, <2>1 DEF EffectKind, Does
  <2>3. PICK v : handlers' = [handlers EXCEPT ![i] = [todo |-> Tail(handlers[i].todo), version |-> v]]
    BY <2>1, GoesOn
  <2>4. QED
    BY <1>1, <2>1, <2>2, <2>3, EffectStep
<1>4. CASE PublishCard(i)
  <2>1. /\ Next1(i).op \in {"publish", "answer", "show"} /\ UNCHANGED <<questions, effects>>
        /\ Next1(i).op = "publish" => Next1(i).of \in cards'
        /\ Goes(i, Tail(handlers[i].todo), handlers[i].version)
    BY <1>4 DEF PublishCard, Doing, Done
  <2>2. ~Effects(Next1(i))
    BY <2>1 DEF Effects, Does
  <2>3. \A x \in Mark : Gives(Next1(i), x) => x \in {"research", "scan_result"} /\ x \in cards'
    BY <2>1 DEF Gives, Does
  <2>4. \A x \in Mark : Gives(Next1(i), x) => x \in Kept'[i]
    BY <1>1, <2>3 DEF Kept
  <2>5. QED
    BY <1>1, <2>1, <2>2, <2>4, CalmStep
<1>5. CASE SaveContext(i) \/ LoadContext(i)
  <2>1. /\ Next1(i).op \in {"save", "load"} /\ UNCHANGED <<questions, effects>> /\ context'
        /\ Goes(i, Tail(handlers[i].todo), handlers[i].version)
    BY <1>5 DEF SaveContext, LoadContext, Doing, Done
  <2>2. ~Effects(Next1(i)) /\ \A x \in Mark : Gives(Next1(i), x) => x = "context"
    BY <2>1 DEF Effects, Does, Gives
  <2>3. "context" \in Kept'[i]
    BY <1>1, <2>1 DEF Kept, Mark
  <2>4. QED
    BY <1>1, <2>1, <2>2, <2>3, CalmStep
<1>6. CASE ReadPlan(i)
  <2>1. /\ Next1(i).op = "read" /\ UNCHANGED <<questions, effects>>
        /\ Goes(i, Tail(handlers[i].todo), plan.version)
    BY <1>6 DEF ReadPlan, Doing
  <2>2. ~Effects(Next1(i)) /\ \A x \in Mark : ~Gives(Next1(i), x)
    BY <2>1 DEF Effects, Does, Gives
  <2>3. QED
    BY <1>1, <2>1, <2>2, CalmStep
<1>7. CASE WritePlan(i)
  <2> DEFINE x == Next1(i).of
  <2>1. /\ Next1(i).op = "write" /\ UNCHANGED <<questions, context>> /\ Writes(i, x)
        /\ effects' = effects \cup {[by |-> i, of |-> x, version |-> plan.version]}
        /\ Goes(i, Tail(handlers[i].todo), plan.version + 1)
    BY <1>7 DEF WritePlan, Doing
  <2>2. x \in {"create", "revise", "activate", "review"}
    BY <1>1, <2>1 DEF Step
  <2>3. x \in EffectKind /\ Does(Next1(i), x)
    BY <2>1, <2>2 DEF EffectKind, Does
  <2>4. x = "review" => plan.version = questions[i].version
    BY <2>1 DEF Writes
  <2>5. PICK v : handlers' = [handlers EXCEPT ![i] = [todo |-> Tail(handlers[i].todo), version |-> v]]
    BY <2>1, GoesOn
  <2>6. QED
    BY <1>1, <2>1, <2>3, <2>4, <2>5, EffectStep
<1>8. CASE Raises(i)
  <2>1. /\ UNCHANGED <<questions, context>>
        /\ handlers' = [handlers EXCEPT ![i] = [todo |-> <<>>, version |-> 0]]
    BY <1>8, Empty DEF Raises
  <2>2. CASE UNCHANGED effects
    <3>1. Stored(<<>>, Kept'[i])
      BY DEF Stored
    <3>2. QED
      BY <2>1, <2>2, <3>1, ActStep
  <2>3. CASE /\ Next1(i) = [op |-> "call", of |-> "remind"]
             /\ effects' = effects \cup {[by |-> i, of |-> "remind", version |-> 0]}
    <3>1. "remind" \in EffectKind /\ Does(Next1(i), "remind")
      BY <2>3 DEF EffectKind, Does
    <3>2. QED
      BY <1>1, <2>1, <2>3, <3>1, EffectStep
  <2>4. QED
    BY <1>8, <2>2, <2>3 DEF Raises
<1>9. QED
  BY <1>2, <1>3, <1>4, <1>5, <1>6, <1>7, <1>8

\* What comes first in a handler that is about to ask has been done.
LEMMA AskActs ==
  ASSUME ForkInv, ActInv, [Next]_vars, NEW i \in 0..MaxQuestions, AskNext(i)
  PROVE  ActInv'
<1> DEFINE s == handlers[i].todo
           show == <<[op |-> "show"]>>
           rest == show \o Tail(s)
           new == [kind |-> Next1(i).of, status |-> "pending",
                   action |-> "none", version |-> handlers[i].version]
<1>1. /\ Busy(i) /\ Next1(i).op = "ask" /\ Next1(i) = Head(s)
      /\ questions \in Seq(Question) /\ questions' = Append(questions, new)
      /\ UNCHANGED effects
      /\ Goes(i, rest, handlers[i].version)
  BY DEF ForkInv, Typed, AskNext, Doing, Next1
<1>2. /\ i \in Nat /\ s \in Seq(Step) /\ s # <<>> /\ Head(s) = s[1] /\ 1 \in DOMAIN s
      /\ Head(s) \in Step /\ Stored(s, Kept[i]) /\ Able(i, s, questions, effects)
      /\ Able(i, Tail(s), questions, effects)
  <2>1. ~Effects(Head(s))
    BY <1>1 DEF Effects, Does
  <2>2. QED
    BY <1>1, <2>1, Onward
<1>3. /\ \A j \in Nat : Kept[j] \subseteq Kept'[j]
      /\ Stays(questions, questions')
  BY Growing
<1>4. \A x \in Mark : Wants(Next1(i).of, x) => x \in Kept[i]
  <2>1. \A m \in DOMAIN s : ~(m < 1)
    BY <1>2
  <2>2. \A x \in Mark : Wants(Next1(i).of, x) => Needs(s[1], x)
    BY <1>1, <1>2 DEF Needs
  <2>3. QED
    BY <1>2, <2>1, <2>2 DEF Stored
<1>5. \A j \in DOMAIN questions' \ DOMAIN questions : Grounded(j, questions', Kept')
  <2>1. /\ Len(questions) \in Nat /\ DOMAIN questions = 1..Len(questions)
        /\ DOMAIN questions' = DOMAIN questions \cup {Len(questions) + 1}
        /\ questions'[Len(questions) + 1] = new
    BY <1>1
  <2>2. i <= Len(questions)
    BY <1>2, <2>1 DEF Able
  <2>3. Kept[i] \subseteq Kept'[Len(questions)]
    <3>1. Kept[i] \subseteq Kept[Len(questions)]
      <4>1. ASSUME NEW x \in Mark, NEW f \in effects, f.by <= i PROVE f.by <= Len(questions)
        <5>1. f.by \in DOMAIN questions
          BY DEF ActInv, Just, Justified
        <5>2. QED
          BY <2>1, <5>1
      <4>2. QED
        BY <1>2, <2>1, <4>1 DEF Kept
    <3>2. QED
      BY <1>3, <2>1, <3>1
  <2>4. ASSUME NEW x \in Mark, Wants(new.kind, x)
        PROVE  x \in Kept'[(Len(questions) + 1) - 1]
    <3>1. (Len(questions) + 1) - 1 = Len(questions)
      BY <2>1
    <3>2. new.kind = Next1(i).of
      OBVIOUS
    <3>3. QED
      BY <1>4, <2>3, <2>4, <3>1, <3>2
  <2>5. QED
    BY <2>1, <2>4 DEF Grounded
<1>6. Tail(s) \in Seq(Step) /\ show \in Free
  <2>1. [op |-> "show"] \in Step
    BY DEF Step
  <2>2. ~Effects([op |-> "show"]) /\ \A x : ~Needs([op |-> "show"], x)
    BY DEF Effects, Does, Needs
  <2>3. QED
    BY <1>2, <2>1, <2>2, Singles DEF Free
<1>7. Stored(rest, Kept'[i])
  <2>1. \A x \in Mark : ~Gives(Head(s), x)
    BY <1>1 DEF Gives, Does
  <2>2. Stored(Tail(s), Kept'[i])
    BY <1>2, <1>3, <2>1, StoredTail
  <2>3. Stored(show, Kept'[i]) /\ show \in Seq(Step)
    BY <1>6, FreePieces
  <2>4. Kept'[i] \subseteq Kept'[i] \cup Got(show)
    OBVIOUS
  <2>5. Stored(Tail(s), Kept'[i] \cup Got(show))
    BY <2>2, <2>4, StoredMore
  <2>6. QED
    BY <1>6, <2>3, <2>5, StoredJoins
<1>8. Able(i, rest, questions', effects')
  <2>1. Tail(s) \in Calm => rest \in Calm
    BY <1>6, CalmJoins, FreePieces
  <2>2. \A kind, action : Tail(s) \in Deeds(kind, action) => rest \in Deeds(kind, action)
    BY <1>6, DeedsJoin, CalmIsDeed, FreePieces
  <2>3. Able(i, rest, questions, effects)
    BY <1>2, <2>1, <2>2 DEF Able
  <2>4. QED
    BY <1>1, <1>3, <2>3 DEF Able, Stays
<1>9. PICK v : handlers' = [handlers EXCEPT ![i] = [todo |-> rest, version |-> v]]
  BY <1>1, GoesOn
<1>10. QED
  BY <1>1, <1>5, <1>7, <1>8, <1>9, ActStep

LEMMA StartActs ==
  ASSUME ForkInv, ActInv, [Next]_vars, NEW workflow, NEW intent, NEW candidates \in 0..2,
         StartRun(workflow, intent, candidates)
  PROVE  ActInv'
<1>1. UNCHANGED <<questions, effects>> /\ 0 \in 0..MaxQuestions
  BY ResearchAssumption DEF StartRun
<1>2. PICK todo : /\ todo \in Calm /\ Stored(todo, Kept'[0])
                  /\ handlers' = [handlers EXCEPT ![0].todo = todo]
  <2>1. /\ Publish("notice") \in Calm /\ Stored(Publish("notice"), Kept'[0])
        /\ Start(candidates) \in Calm /\ Stored(Start(candidates), Kept'[0])
        /\ <<>> \in Calm /\ Stored(<<>>, Kept'[0])
    BY Starting
  <2>2. QED
    BY <2>1 DEF StartRun
<1>3. handlers' = [handlers EXCEPT ![0] = [todo |-> todo, version |-> handlers[0].version]]
  BY <1>1, <1>2, TodoSet
<1>4. Able(0, todo, questions', effects')
  BY <1>2 DEF Able
<1>5. QED
  BY <1>1, <1>2, <1>3, <1>4, ActStep

\* The question was open until now, so nothing has been done on its behalf.
LEMMA RespondActs ==
  ASSUME ForkInv, ActInv, [Next]_vars, NEW i \in 1..MaxQuestions, NEW action \in Action,
         Respond(i, action)
  PROVE  ActInv'
<1> DEFINE kind == questions[i].kind
           todo == Handler(kind, action)
<1>1. /\ i \in DOMAIN questions /\ questions[i].status = "pending" /\ UNCHANGED effects
      /\ questions \in Seq(Question) /\ i \in 0..MaxQuestions /\ i \in Nat /\ i - 1 \in Nat
      /\ questions' = [questions EXCEPT ![i].status = "resolved", ![i].action = action]
      /\ handlers' = [handlers EXCEPT ![i].todo = todo]
  BY ResearchAssumption DEF ForkInv, Typed, Respond
<1>2. questions[i] \in Question
  BY <1>1
<1>3. /\ kind \in Kind /\ DOMAIN questions' = DOMAIN questions
      /\ questions'[i].kind = kind /\ questions'[i].status = "resolved"
      /\ questions'[i].action = action
  BY <1>1, <1>2 DEF Question
<1>4. \A x \in Mark : Wants(kind, x) => x \in Kept'[i]
  <2>1. Kept[i - 1] \subseteq Kept[i]
    <3>1. ASSUME NEW f \in effects, f.by <= i - 1 PROVE f.by <= i
      <4>1. f.by \in DOMAIN questions /\ DOMAIN questions \subseteq Nat
        BY <1>1 DEF ActInv, Just, Justified
      <4>2. QED
        BY <1>1, <3>1, <4>1
    <3>2. QED
      BY <1>1, <3>1 DEF Kept
  <2>2. Kept[i] \subseteq Kept'[i]
    BY <1>1, Growing
  <2>3. QED
    BY <1>1, <2>1, <2>2 DEF ActInv, Founded, Grounded
<1>5. todo \in Deeds(kind, action) /\ Stored(todo, Kept'[i])
  BY <1>3, <1>4, Handling
<1>6. \A e \in effects : e.by # i
  BY <1>1 DEF ActInv, Just, Justified
<1>7. Able(i, todo, questions', effects')
  BY <1>1, <1>3, <1>5, <1>6 DEF Able
<1>8. handlers' = [handlers EXCEPT ![i] = [todo |-> todo, version |-> handlers[i].version]]
  BY <1>1, TodoSet
<1>9. QED
  BY <1>1, <1>3, <1>5, <1>7, <1>8, ActStep

\* Steps of the others: nothing is done, and nobody has more to do.
LEMMA OthersAct ==
  ASSUME ForkInv, ActInv, [Next]_vars,
         \/ \E i \in 1..MaxQuestions : Close(i, "cancelled") \/ Close(i, "expired")
         \/ \E status \in PlanState : AgentMoves(status)
         \/ Crash
         \/ UNCHANGED vars
  PROVE  ActInv'
<1>1. /\ handlers \in [0..MaxQuestions -> [todo : Asking, version : 0..MaxVersion]]
      /\ questions \in Seq(Question) /\ 0..MaxQuestions \subseteq Nat
  BY ResearchAssumption DEF ForkInv, Typed
<1>2. /\ \A j \in Nat : Kept[j] \subseteq Kept'[j]
      /\ Stays(questions, questions') /\ (context => context')
  BY Growing
<1>3. UNCHANGED effects /\ DOMAIN questions' = DOMAIN questions
  BY <1>1 DEF Close, AgentMoves, Crash, vars
<1>4. \A i \in 0..MaxQuestions : handlers'[i].todo \in {handlers[i].todo, <<>>}
  <2>1. CASE UNCHANGED handlers
    BY <2>1
  <2>2. CASE Crash
    BY <1>1, <2>2, Empty DEF Crash
  <2>3. QED
    BY <2>1, <2>2 DEF Close, AgentMoves, vars
<1>5. Backed'
  <2>1. ASSUME NEW i \in 0..MaxQuestions PROVE Stored(handlers'[i].todo, Kept'[i])
    <3>1. Stored(handlers[i].todo, Kept'[i])
      BY <1>1, <1>2, StoredMore DEF ActInv, Backed
    <3>2. Stored(<<>>, Kept'[i])
      BY DEF Stored
    <3>3. QED
      BY <1>4, <3>1, <3>2
  <2>2. QED
    BY <2>1 DEF Backed
<1>6. Founded'
  <2>1. ASSUME NEW j \in DOMAIN questions PROVE Grounded(j, questions', Kept')
    <3>1. j - 1 \in Nat
      BY <1>1
    <3>2. QED
      BY <1>2, <3>1 DEF ActInv, Founded, Grounded, Stays
  <2>2. QED
    BY <1>3, <2>1 DEF Founded
<1>7. Working'
  <2>1. ASSUME NEW i \in 0..MaxQuestions, handlers'[i].todo # <<>>
        PROVE  Able(i, handlers'[i].todo, questions', effects')
    <3>1. handlers'[i].todo = handlers[i].todo /\ Able(i, handlers[i].todo, questions, effects)
      BY <1>4, <2>1 DEF ActInv, Working
    <3>2. QED
      BY <1>2, <1>3, <3>1 DEF Able, Stays
  <2>2. QED
    BY <2>1 DEF Working
<1>8. Just'
  <2>1. \A e \in effects' : Justified(e, questions')
    BY <1>2, <1>3 DEF ActInv, Just, Justified, Stays
  <2>2. \A e, f \in effects' : e.by = f.by => e = f
    BY <1>3 DEF ActInv, Just
  <2>3. \A e \in effects' : e.of = "create" => context'
    <3>1. \A e \in effects' : e \in effects
      BY <1>3
    <3>2. \A e \in effects : e.of = "create" => context
      BY DEF ActInv, Just
    <3>3. QED
      BY <1>2, <3>1, <3>2, Zenon
  <2>4. QED
    BY <2>1, <2>2, <2>3, Zenon DEF Just
<1>9. QED
  BY <1>5, <1>6, <1>7, <1>8 DEF ActInv

\* What each answer did is what it was asked for, and each question and each
\* handler stands on what the ones before have done.
THEOREM Grounds == Spec => []ActInv
<1>1. Init => ActInv
  <2> SUFFICES ASSUME Init PROVE ActInv
    OBVIOUS
  <2>1. /\ questions = <<>> /\ effects = {}
        /\ \A i \in 0..MaxQuestions : handlers[i].todo = <<>>
    BY Empty DEF Init
  <2>2. Backed
    BY <2>1 DEF Backed, Stored
  <2>3. QED
    BY <2>1, <2>2 DEF ActInv, Founded, Working, Just
<1>2. ForkInv /\ ActInv /\ [Next]_vars => ActInv'
  <2> SUFFICES ASSUME ForkInv, ActInv, [Next]_vars PROVE ActInv'
    OBVIOUS
  <2>1. ASSUME NEW workflow, NEW intent, NEW candidates \in 0..2,
               StartRun(workflow, intent, candidates)
        PROVE  ActInv'
    BY <2>1, StartActs
  <2>2. ASSUME NEW i \in 1..MaxQuestions, NEW action \in Action, Respond(i, action)
        PROVE  ActInv'
    BY <2>2, RespondActs
  <2>3. ASSUME NEW i \in 0..MaxQuestions,
               CallBackend(i) \/ PublishCard(i) \/ SaveContext(i) \/ LoadContext(i)
                 \/ ReadPlan(i) \/ WritePlan(i) \/ Raises(i)
        PROVE  ActInv'
    BY <2>3, HandlerActs
  <2>4. ASSUME NEW i \in 0..MaxQuestions, AskNext(i)
        PROVE  ActInv'
    BY <2>4, AskActs
  <2>5. QED
    BY <2>1, <2>2, <2>3, <2>4, OthersAct, Zenon DEF Next
<1>3. QED
  BY <1>1, <1>2, Invariance, PTL DEF Spec

\* A person is asked to review a scan only when the research, its result and
\* the context that the rest of the run needs are stored, wherever the
\* handlers before failed.
THEOREM ReviewsWhatIsStored == Spec => []ResearchBeforeReview
<1>1. ForkInv /\ ActInv => ResearchBeforeReview
  <2> SUFFICES ASSUME ForkInv, ActInv, NEW j \in DOMAIN questions,
                      questions[j].kind = "scan_review"
               PROVE  context /\ {"research", "scan_result"} \subseteq cards
    BY DEF ResearchBeforeReview
  <2>1. j - 1 \in Nat
    BY DEF ForkInv, Typed
  <2>2. \A x \in {"context", "research", "scan_result"} : x \in Kept[j - 1]
    BY DEF ActInv, Founded, Grounded, Wants, Mark
  <2>3. "research" \in cards /\ "scan_result" \in cards
    BY <2>1, <2>2 DEF Kept
  <2>4. context
    BY <2>1, <2>2 DEF Kept
  <2>5. QED
    BY <2>3, <2>4
<1>2. QED
  BY <1>1, Invariance, Grounds, PTL

\* What an answer did is what it was asked for, once, and after what it
\* presupposes, although agents and restarts change the plan at any time.
THEOREM DoesAsAsked == Spec => []ActsAsAsked
<1>1. ForkInv /\ ActInv => ActsAsAsked
  <2> SUFFICES ASSUME ForkInv, ActInv, NEW e \in effects
               PROVE  /\ questions[e.by].status = "resolved"
                      /\ \A f \in effects : f.by = e.by => f = e
                      /\ CASE e.of = "create"   -> Asked(e) = "scan_review" /\ context
                           [] e.of = "revise"   -> Before(e, "create")
                           [] e.of = "activate" -> /\ questions[e.by].action = "confirm"
                                                   /\ Asked(e) = "plan_approval" /\ Before(e, "create")
                           [] e.of = "remind"   -> questions[e.by].action = "confirm" /\ Before(e, "activate")
                           [] e.of = "review"   -> /\ e.version = questions[e.by].version
                                                   /\ Before(e, "remind")
    BY DEF ActsAsAsked
  <2>1. /\ Justified(e, questions) /\ \A f \in effects : f.by = e.by => f = e
        /\ e.of = "create" => context
    BY DEF ActInv, Just
  <2>2. /\ e.by \in DOMAIN questions /\ e.by \in Nat /\ e.by - 1 \in Nat
        /\ \A f \in effects : f.by \in Nat
    BY DEF ForkInv, Typed, ActInv, Just, Justified
  <2>3. ASSUME NEW x \in {"create", "activate", "remind"}, Wants(questions[e.by].kind, x)
        PROVE  Before(e, x)
    <3>1. x \in Kept[e.by - 1]
      BY <2>2, <2>3 DEF ActInv, Founded, Grounded, Mark
    <3>2. PICK f \in effects : f.of = x /\ f.by <= e.by - 1
      BY <2>2, <2>3, <3>1 DEF Kept
    <3>3. f.by < e.by
      BY <2>2, <3>2
    <3>4. QED
      BY <3>2, <3>3 DEF Before
  <2>4. e.of = "create" => Asked(e) = "scan_review"
    BY <2>1 DEF Justified, May, Asked
  <2>5. e.of = "revise" => Before(e, "create")
    BY <2>1, <2>3 DEF Justified, May, Wants
  <2>6. e.of = "activate" => /\ questions[e.by].action = "confirm"
                             /\ Asked(e) = "plan_approval" /\ Before(e, "create")
    BY <2>1, <2>3 DEF Justified, May, Wants, Asked
  <2>7. e.of = "remind" => questions[e.by].action = "confirm" /\ Before(e, "activate")
    BY <2>1, <2>3 DEF Justified, May, Wants
  <2>8. e.of = "review" => e.version = questions[e.by].version /\ Before(e, "remind")
    BY <2>1, <2>3 DEF Justified, May, Wants
  <2>9. e.of \in {"create", "revise", "activate", "remind", "review"}
        /\ questions[e.by].status = "resolved"
    BY <2>1 DEF Justified, EffectKind
  <2>10. QED
    BY <2>1, <2>4, <2>5, <2>6, <2>7, <2>8, <2>9
<1>2. QED
  BY <1>1, Invariance, Grounds, PTL
=============================================================================
