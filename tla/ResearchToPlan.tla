--------------------------- MODULE ResearchToPlan ---------------------------
(***************************************************************************)
(* One run of the research conversation: ConversationRunService routes the *)
(* message, ResearchToPlanWorkflow resolves a security, has it researched  *)
(* and scanned, and goes from the review of the scan to a draft, its       *)
(* approval, a reminder and the review of the plan.                        *)
(*                                                                         *)
(* Each answer runs a handler, which is a list of steps: calls of the      *)
(* backend, cards to publish, a command to the planning service, the next  *)
(* question.  Handlers of one run overlap, since a question may be         *)
(* answered before the handler that asked it has returned; a step that     *)
(* raises ends its handler, and nothing runs the rest of it again.  Agents *)
(* change the same plan meanwhile.  What a request does before and after   *)
(* its handler (receipts, the compare-and-set) is in ApprovalFlow, how     *)
(* handlers get in each other's way when they publish in EventLog.         *)
(***************************************************************************)
EXTENDS Naturals, Sequences, FiniteSets

CONSTANTS
  Workflows,     \* registered workflow ids
  AgentOf,       \* the agent each of them belongs to
  Agents,        \* registered agents
  MaxQuestions,  \* bound: questions of one run
  MaxVersion     \* bound: versions of the plan

ASSUME ResearchAssumption ==
  /\ AgentOf \in [Workflows -> Agents \cup {"unregistered"}]
  /\ "research_to_plan" \in Workflows
  /\ "clarification" \notin Agents
  /\ MaxQuestions \in Nat /\ MaxVersion \in Nat \ {0}

VARIABLES
  begun,     \* the run was started
  questions, \* its interactions, oldest first
  handlers,  \* by question answered, 0 for the start of the run
  context,   \* the run context is saved
  cards,     \* what it has published beside the cards of its questions, and
             \* "review" once that is saved as a resource
  plan,      \* the plan of the run, as the planning service has it
  effects    \* history: what each answer did
vars == <<begun, questions, handlers, context, cards, plan, effects>>

Kind == {"security_choice", "scan_review", "plan_form", "plan_approval",
         "reminder_approval", "plan_review"}
Action == {"confirm", "edit", "decline"}
Question == [kind : Kind, status : {"pending", "resolved", "cancelled", "expired"},
             action : Action \cup {"none"}, version : 0..MaxVersion]
PlanState == {"none", "draft", "active", "triggered", "cancelled", "expired", "reviewed"}

Artifact == {"notice", "research", "progress", "scan_result", "plan", "reminder", "review"}
Step == [op : {"call"}, of : {"prepare", "summarize", "values", "remind"}]
  \cup [op : {"publish"}, of : Artifact]
  \cup [op : {"ask"}, of : Kind]
  \cup [op : {"answer", "show", "save", "load", "read"}]
  \cup [op : {"write"}, of : {"create", "revise", "activate", "review"}]
Effect == [by : 1..MaxQuestions, of : {"create", "revise", "activate", "remind", "review"},
           version : 0..MaxVersion]

TypeOK ==
  /\ begun \in BOOLEAN
  /\ questions \in Seq(Question) /\ Len(questions) <= MaxQuestions
  /\ DOMAIN handlers = 0..MaxQuestions
  /\ \A i \in DOMAIN handlers : /\ handlers[i].todo \in Seq(Step)
                                /\ handlers[i].version \in 0..MaxVersion
  /\ context \in BOOLEAN
  /\ cards \subseteq Artifact
  /\ plan \in [version : 0..MaxVersion, status : PlanState]
  /\ effects \subseteq Effect

Ended == [todo |-> <<>>, version |-> 0]
NoPlan == [version |-> 0, status |-> "none"]

Init ==
  /\ begun = FALSE
  /\ questions = <<>>
  /\ handlers = [i \in 0..MaxQuestions |-> Ended]
  /\ context = FALSE
  /\ cards = {}
  /\ plan = NoPlan
  /\ effects = {}

-----------------------------------------------------------------------------
(* The handlers, as lists of steps.                                        *)

Call(of) == <<[op |-> "call", of |-> of]>>
Publish(of) == <<[op |-> "publish", of |-> of]>>
Answered == <<[op |-> "answer"]>>
Ask(kind) == <<[op |-> "ask", of |-> kind]>>
Save == <<[op |-> "save"]>>
Load == <<[op |-> "load"]>>
Read == <<[op |-> "read"]>>
Write(of) == <<[op |-> "write", of |-> of]>>

\* The questions.  The last four are about the plan as the handler has it; any
\* of them may be answered with any of the actions.
AskSecurityChoice == Ask("security_choice")
AskScanReview == Ask("scan_review")
AskPlanForm == Ask("plan_form")
AskPlanApproval == Ask("plan_approval")
AskReminderApproval == Ask("reminder_approval")
AskPlanReview == Ask("plan_review")

\* Variant of Prepare that asks for the review before it saves the context.
PrepareAskFirst ==
  Call("prepare") \o Publish("research")
    \o Publish("progress") \o Publish("progress")
    \o Publish("scan_result") \o AskScanReview \o Save

\* _prepare_research_workflow.
Prepare ==
  Call("prepare") \o Publish("research")
    \o Publish("progress") \o Publish("progress")
    \o Publish("scan_result") \o Save \o AskScanReview

\* The Supervisor graph confirms an agent that is registered, or falls back
\* to clarification; its policy decision is not looked at.
SelectedAgent(intent) == IF intent \in Agents THEN intent ELSE "clarification"
Startable(workflow, intent) ==
  workflow \in Workflows /\ AgentOf[workflow] = SelectedAgent(intent)

\* start: by how many securities the symbol stands for.
Start(candidates) ==
  CASE candidates = 0 -> Publish("notice")
    [] candidates = 1 -> Prepare
    [] OTHER -> AskSecurityChoice

\* resume, by subject type.  Any answer to a choice or a form goes on; a
\* review or an approval that is not confirmed ends the conversation.
OnScanReview(action) ==
  Answered \o
  (IF action = "confirm"
   THEN Load \o Call("summarize") \o Call("values") \o Write("create") \o AskPlanApproval
   ELSE <<>>)

OnPlanForm ==
  Answered \o Read \o Call("values") \o Write("revise") \o AskPlanApproval

\* Variant of OnPlanApproval that asks about the reminder too early.
OnPlanApprovalAskFirst(action) ==
  CASE action = "edit" -> Read \o Answered \o Write("revise") \o AskPlanForm
    [] action = "confirm" -> Read \o Answered \o AskReminderApproval
                               \o Write("activate") \o Publish("plan")
    [] OTHER -> Read \o Answered

OnPlanApproval(action) ==
  CASE action = "edit" -> Read \o Answered \o Write("revise") \o AskPlanForm
    [] action = "confirm" -> Read \o Answered \o Write("activate")
                               \o Publish("plan") \o AskReminderApproval
    [] OTHER -> Read \o Answered

OnReminderApproval(action) ==
  Answered \o
  (IF action = "confirm"
   THEN Call("remind") \o Publish("reminder") \o Read \o AskPlanReview
   ELSE <<>>)

OnPlanReview(action) ==
  Answered \o
  (IF action = "confirm"
   THEN Call("values") \o Write("review") \o Publish("review") \o Publish("plan")
   ELSE <<>>)

Handler(kind, action) ==
  CASE kind = "security_choice"   -> Answered \o Prepare
    [] kind = "scan_review"       -> OnScanReview(action)
    [] kind = "plan_form"         -> OnPlanForm
    [] kind = "plan_approval"     -> OnPlanApproval(action)
    [] kind = "reminder_approval" -> OnReminderApproval(action)
    [] kind = "plan_review"       -> OnPlanReview(action)

-----------------------------------------------------------------------------
(* The clients and the agents.                                             *)

StartRun(workflow, intent, candidates) ==
  /\ ~begun
  /\ begun' = TRUE
  /\ handlers' = [handlers EXCEPT ![0].todo =
       IF Startable(workflow, intent)
       THEN IF workflow = "research_to_plan" THEN Start(candidates) ELSE <<>>
       ELSE Publish("notice")]
  /\ UNCHANGED <<questions, context, cards, plan, effects>>

\* respond, and handle_resolved_interaction up to the workflow's own steps.
\* A pending question can be found and answered before its card is there.
Respond(i, action) ==
  /\ i \in DOMAIN questions /\ questions[i].status = "pending"
  /\ action = "edit" => questions[i].version + 3 <= MaxVersion
  /\ questions' = [questions EXCEPT ![i].status = "resolved", ![i].action = action]
  /\ handlers' = [handlers EXCEPT ![i].todo = Handler(questions[i].kind, action)]
  /\ UNCHANGED <<begun, context, cards, plan, effects>>

Close(i, status) ==
  /\ i \in DOMAIN questions /\ questions[i].status = "pending"
  /\ questions' = [questions EXCEPT ![i].status = status]
  /\ UNCHANGED <<begun, handlers, context, cards, plan, effects>>

\* The planning tools revise a draft and move a plan on.
AgentMoves(status) ==
  /\ plan.version \in 1..(MaxVersion - 1)
  /\ \/ plan.status = "draft" /\ status \in {"draft", "cancelled", "expired"}
     \/ plan.status = "active" /\ status \in {"triggered", "cancelled", "expired", "reviewed"}
     \/ plan.status \in {"triggered", "cancelled", "expired"} /\ status = "reviewed"
  /\ plan' = [version |-> plan.version + 1, status |-> status]
  /\ UNCHANGED <<begun, questions, handlers, context, cards, effects>>

-----------------------------------------------------------------------------
(* The steps of a handler.                                                 *)

Busy(i) == handlers[i].todo # <<>>
Next1(i) == Head(handlers[i].todo)
Doing(i, op) == Busy(i) /\ Next1(i).op = op
Goes(i, todo, version) == handlers' = [handlers EXCEPT ![i] =
  IF todo = <<>> THEN Ended ELSE [todo |-> todo, version |-> version]]
Done(i) == Goes(i, Tail(handlers[i].todo), handlers[i].version)

\* The backend answers; activate_reminder has the effect it is called for.
CallBackend(i) ==
  /\ Doing(i, "call")
  /\ effects' = IF Next1(i).of = "remind"
                THEN effects \cup {[by |-> i, of |-> "remind", version |-> 0]} ELSE effects
  /\ Done(i)
  /\ UNCHANGED <<begun, questions, context, cards, plan>>

\* A card is published, or the review that was recorded is saved.
PublishCard(i) ==
  /\ \/ Doing(i, "publish") /\ cards' = cards \cup {Next1(i).of}
     \/ (Doing(i, "answer") \/ Doing(i, "show")) /\ UNCHANGED cards
  /\ Done(i)
  /\ UNCHANGED <<begun, questions, context, plan, effects>>

\* save_run_context expects that the run has none yet.
SaveContext(i) ==
  /\ Doing(i, "save") /\ ~context
  /\ context' = TRUE
  /\ Done(i)
  /\ UNCHANGED <<begun, questions, cards, plan, effects>>

LoadContext(i) ==
  /\ Doing(i, "load") /\ context
  /\ Done(i)
  /\ UNCHANGED <<begun, questions, context, cards, plan, effects>>

ReadPlan(i) ==
  /\ Doing(i, "read") /\ plan # NoPlan
  /\ Goes(i, Tail(handlers[i].todo), plan.version)
  /\ UNCHANGED <<begun, questions, context, cards, plan, effects>>

\* Variant of Writes: the review does not name the version it was asked for.
WritesAnyReview(i, of) ==
  CASE of = "create" -> plan = NoPlan
    [] of = "review" -> plan.status \in {"active", "triggered", "cancelled", "expired"}
    [] OTHER -> plan.status = "draft" /\ plan.version = handlers[i].version

\* The planning service takes a change of the version it was built from,
\* which for a review is the version its question was about.
Writes(i, of) ==
  CASE of = "create" -> plan = NoPlan
    [] of = "review" -> /\ plan.status \in {"active", "triggered", "cancelled", "expired"}
                        /\ plan.version = questions[i].version
    [] OTHER -> plan.status = "draft" /\ plan.version = handlers[i].version

WritePlan(i) ==
  /\ Doing(i, "write") /\ Writes(i, Next1(i).of) /\ plan.version < MaxVersion
  /\ plan' = [version |-> plan.version + 1,
              status |-> CASE Next1(i).of = "activate" -> "active"
                           [] Next1(i).of = "review" -> "reviewed"
                           [] OTHER -> "draft"]
  /\ effects' = effects \cup {[by |-> i, of |-> Next1(i).of, version |-> plan.version]}
  /\ Goes(i, Tail(handlers[i].todo), plan.version + 1)
  /\ UNCHANGED <<begun, questions, context, cards>>

\* A question is stored, about the version at hand, and then shown.
AskNext(i) ==
  /\ Doing(i, "ask") /\ Len(questions) < MaxQuestions
  /\ questions' = Append(questions, [kind |-> Next1(i).of, status |-> "pending",
       action |-> "none", version |-> handlers[i].version])
  /\ Goes(i, <<[op |-> "show"]>> \o Tail(handlers[i].todo), handlers[i].version)
  /\ UNCHANGED <<begun, context, cards, plan, effects>>

\* Whatever a step does, it may raise instead: a backend or a value fails,
\* the plan or the context is gone or has changed, another handler was
\* quicker to publish.  activate_reminder may have had its effect.
Raises(i) ==
  /\ Busy(i)
  /\ handlers' = [handlers EXCEPT ![i] = Ended]
  /\ \/ UNCHANGED effects
     \/ /\ Next1(i) = [op |-> "call", of |-> "remind"]
        /\ effects' = effects \cup {[by |-> i, of |-> "remind", version |-> 0]}
  /\ UNCHANGED <<begun, questions, context, cards, plan>>

\* The process ends: the handlers and the plans in memory are gone.
Crash ==
  /\ begun
  /\ handlers' = [i \in DOMAIN handlers |-> Ended]
  /\ plan' = NoPlan
  /\ UNCHANGED <<begun, questions, context, cards, effects>>

Next ==
  \/ \E workflow \in Workflows \cup {"none"}, intent \in Agents \cup {"clarification"},
        candidates \in 0..2 : StartRun(workflow, intent, candidates)
  \/ \E i \in 1..MaxQuestions :
       \/ \E action \in Action : Respond(i, action)
       \/ Close(i, "cancelled") \/ Close(i, "expired")
  \/ \E status \in PlanState : AgentMoves(status)
  \/ \E i \in 0..MaxQuestions :
       \/ CallBackend(i) \/ PublishCard(i) \/ SaveContext(i) \/ LoadContext(i)
       \/ ReadPlan(i) \/ WritePlan(i) \/ AskNext(i) \/ Raises(i)
  \/ Crash

Spec == Init /\ [][Next]_vars

-----------------------------------------------------------------------------
(* Properties.                                                             *)

\* A run never forks: at any time one question is open, or one handler still
\* has something to ask or to write, and never both or two of them, however
\* the handlers overlap and wherever one of them fails.
Open == {i \in DOMAIN questions : questions[i].status = "pending"}
Acting == {i \in DOMAIN handlers :
  \E n \in DOMAIN handlers[i].todo : handlers[i].todo[n].op \in {"ask", "write"}}
NeverForks == Cardinality(Open) + Cardinality(Acting) <= 1

\* What an answer did is what it was asked for: the scan was saved before its
\* review became a draft, a plan was activated by its confirmed approval, a
\* reminder set after that, and the version that was reviewed is the one the
\* question was about, although agents and restarts change the plan between
\* any two steps.
Asked(e) == questions[e.by].kind
Before(e, of) == \E f \in effects : f.of = of /\ f.by < e.by
ActsAsAsked == \A e \in effects :
  /\ questions[e.by].status = "resolved"
  /\ \A f \in effects : f.by = e.by => f = e
  /\ CASE e.of = "create"   -> Asked(e) = "scan_review" /\ context
       [] e.of = "revise"   -> Before(e, "create")
       [] e.of = "activate" -> /\ questions[e.by].action = "confirm"
                               /\ Asked(e) = "plan_approval" /\ Before(e, "create")
       [] e.of = "remind"   -> questions[e.by].action = "confirm" /\ Before(e, "activate")
       [] e.of = "review"   -> /\ e.version = questions[e.by].version
                               /\ Before(e, "remind")

\* A person is asked to review a scan only when the research, its result and
\* the context that the rest of the run needs are stored.
ResearchBeforeReview ==
  (\E i \in DOMAIN questions : questions[i].kind = "scan_review") =>
    context /\ {"research", "scan_result"} \subseteq cards
=============================================================================
