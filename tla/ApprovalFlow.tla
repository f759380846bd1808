---------------------------- MODULE ApprovalFlow ----------------------------
(***************************************************************************)
(* From a click to an active plan: the handler of POST /api/hitl/{id}/     *)
(* responses with its command receipts, ConversationRunService, the resume *)
(* receipts, PlanningConversationWorkflow and the in-memory                *)
(* PlanningService, for one planning conversation.                         *)
(*                                                                         *)
(* A conversation is a chain of interactions: the request form, an         *)
(* approval of the draft it led to, and after an edit a form and an        *)
(* approval again.  A request runs through these steps, which interleave   *)
(* with those of other requests and which a crash may cut off:             *)
(*                                                                         *)
(*   begin receipt -> decide -> publish the decided card -> read and write *)
(*   the plan -> create the next interaction -> publish its card           *)
(*   -> save the resume receipt -> complete the command receipt            *)
(*                                                                         *)
(* Module Hitl shows that an interaction is decided in one step, so Decide *)
(* is one step here; it takes in the card checks of the handler, which can *)
(* only refuse what the compare-and-set refuses too.  A pending row has    *)
(* version 1 and a click names the card it saw, so the versions are left   *)
(* out.  Clicks are those whose values pass the response schema.           *)
(*                                                                         *)
(* Publishing is the protocol of module EventLog, of which two things      *)
(* matter here: what has been announced, and that a publisher is refused   *)
(* when another one published between its reads and its writes.            *)
(***************************************************************************)
EXTENDS Naturals, FiniteSets

CONSTANTS
  Interactions,
  Keys,         \* idempotency keys
  Requests,     \* handler threads
  None,
  AgentDrafts,  \* agents revise the draft through planning.create_draft
  BlankForms,   \* clients may fill a form field with blanks
  Crashes,      \* the process may crash and start again
  MaxVersion    \* bound: plan versions a revision may lead to

ASSUME FlowAssumption ==
  /\ None \notin Interactions \cup Keys \cup {"artifact", "own"}
  /\ {"artifact", "own", "form"} \cap Interactions = {}
  /\ Interactions # {}
  /\ AgentDrafts \in BOOLEAN
  /\ BlankForms \in BOOLEAN
  /\ Crashes \in BOOLEAN
  /\ MaxVersion \in Nat

VARIABLES
  ask,          \* hitl_interactions
  log,          \* run_events of the conversation's run
  receipt,      \* command receipts by idempotency key
  resumed,      \* resume receipts: the card each interaction led to
  plan,         \* the current version of the plan, in memory
  req,          \* the request each handler thread is in
  effects,      \* how often an interaction changed the plan
  activations,  \* the approval behind each activation, the draft activated
  answers       \* the results that clients got for each key, and for which card

history == <<effects, activations, answers>>

vars == <<ask, log, receipt, resumed, plan, req, history>>

Kinds == {"request", "form", "approval"}    \* subject_type
Actions == {"continue", "blank", "confirm", "edit", "cancel"}

\* The card that a request answers with: the next interaction, the plan
\* artifact, or the interaction's own card.
Cards == Interactions \cup {"artifact", "own"}

\* The body of a request.  It does not hold the id of the interaction, which
\* is in the path; its payload hash names the card, or is that of the
\* interaction, which is the same for all forms.
Body == [action : Actions, names : Interactions \cup {"form"}]

\* What is announced of a card: that it is there, that it was answered.
Event == [card : Interactions \cup {"artifact"}, event : {"created", "decided"}]

NoAsk == [kind |-> "none", status |-> "absent", subject |-> 0, action |-> "none"]

Ask == {NoAsk} \cup
  [ kind : Kinds,
    status : {"pending", "resolved", "cancelled", "expired"},
    subject : Nat,                      \* subject_version
    action : Actions \cup {"none"} ]    \* resolution

NoReceipt == [status |-> "absent", body |-> None, result |-> None]

Receipt == {NoReceipt}
  \cup [status : {"pending"}, body : Body, result : {None}]
  \cup [status : {"completed"}, body : Body, result : Cards]

NoPlan == [version |-> 0, status |-> "none"]

Plan == {NoPlan} \cup [version : Nat \ {0}, status : {"draft", "active"}]

Idle == [ step |-> "idle", key |-> None, item |-> None, action |-> "none",
          base |-> 0, card |-> None, previous |-> {} ]

Request == {Idle} \cup
  [ step     : {"decide", "resume", "publish", "append", "read", "write",
                "offer", "save", "complete"},
    key      : Keys,
    item     : Interactions,
    action   : Actions,
    base     : Nat,                 \* the plan version read, then the one written
    card     : Cards \cup {None},   \* what the answer led to
    previous : SUBSET Event ]       \* the events that append_event counted

TypeOK ==
  /\ ask \in [Interactions -> Ask]
  /\ log \subseteq Event
  /\ receipt \in [Keys -> Receipt]
  /\ resumed \in [Interactions -> Cards \cup {None}]
  /\ plan \in Plan
  /\ req \in [Requests -> Request]
  /\ effects \in [Interactions -> Nat]
  /\ activations \subseteq [by : Interactions, draft : Nat]
  /\ answers \in [Keys -> SUBSET [item : Interactions, card : Cards]]

Init ==
  /\ ask = [i \in Interactions |-> NoAsk]
  /\ log = {}
  /\ receipt = [k \in Keys |-> NoReceipt]
  /\ resumed = [i \in Interactions |-> None]
  /\ plan = NoPlan
  /\ req = [r \in Requests |-> Idle]
  /\ effects = [i \in Interactions |-> 0]
  /\ activations = {}
  /\ answers = [k \in Keys |-> {}]

Asked(kind, subject) ==
  [kind |-> kind, status |-> "pending", subject |-> subject, action |-> "none"]

-----------------------------------------------------------------------------
(* The clients.                                                            *)

\* uuid4 gives a new interaction an unused id; which one is all the same.
\* Bound: there are as many as Interactions has elements.
Unused == {i \in Interactions : ask[i] = NoAsk}
NewId == CHOOSE i \in Unused : TRUE

\* A conversation begins with the request form.
Start ==
  /\ Unused = Interactions
  /\ ask' = [ask EXCEPT ![NewId] = Asked("request", 1)]
  /\ UNCHANGED <<log, receipt, resumed, plan, req, history>>

\* Its card is announced by the handler that created it, whose own failure
\* stops nobody else.  A list of the open interactions shows it before that.
AnnounceFirst ==
  /\ \E i \in Interactions :
       /\ ask[i].kind = "request"
       /\ log' = log \cup {[card |-> i, event |-> "created"]}
  /\ UNCHANGED <<ask, receipt, resumed, plan, req, history>>

\* The actions of a card.  Any action but cancel resolves a form in the same
\* way; "blank" is such an action with a field of blanks, which the response
\* schema lets pass (minLength counts them).  Bound: an edit leads to two
\* more versions before the next approval.
Offered(i) ==
  IF ask[i].kind # "approval"
  THEN {"continue", "cancel"} \cup (IF BlankForms THEN {"blank"} ELSE {})
  ELSE {a \in Actions \ {"blank"} : a = "edit" => ask[i].subject + 3 <= MaxVersion}

\* The handler takes the hash of the card, as the web client sends it, or
\* that of the interaction's payload.
Names(i) == {i} \cup (IF ask[i].kind # "approval" THEN {"form"} ELSE {})

Clicks(i) ==
  IF ask[i] = NoAsk THEN {} ELSE [action : Offered(i), names : Names(i)]

Received(k, i, action) ==
  [ step |-> "decide", key |-> k, item |-> i, action |-> action,
    base |-> 0, card |-> None, previous |-> {} ]

\* begin with a fresh key: the receipt is inserted.
Begin(r, k) ==
  /\ req[r] = Idle
  /\ receipt[k] = NoReceipt
  /\ \E i \in Interactions : \E body \in Clicks(i) :
       /\ receipt' = [receipt EXCEPT ![k] =
            [status |-> "pending", body |-> body, result |-> None]]
       /\ req' = [req EXCEPT ![r] = Received(k, i, body.action)]
  /\ UNCHANGED <<ask, log, resumed, plan, history>>

\* A key is bound to the body it was first used with, for whatever
\* interaction; another body is answered with IdempotencyConflictError.
SameBody(k, body) == receipt[k].body = body

\* begin with a known key whose command has no result yet: the handler goes
\* on, whether the first request is still under way, was refused or crashed.
Retry(r, k) ==
  /\ req[r] = Idle
  /\ receipt[k].status = "pending"
  /\ \E i \in Interactions : \E body \in Clicks(i) :
       /\ SameBody(k, body)
       /\ req' = [req EXCEPT ![r] = Received(k, i, body.action)]
  /\ UNCHANGED <<ask, log, receipt, resumed, plan, history>>

\* begin with a known key whose command has a result: it is returned.
Replay(k) ==
  /\ receipt[k].status = "completed"
  /\ \E i \in Interactions : \E body \in Clicks(i) :
       /\ SameBody(k, body)
       /\ answers' = [answers EXCEPT ![k] =
            @ \cup {[item |-> i, card |-> receipt[k].result]}]
  /\ UNCHANGED <<ask, log, receipt, resumed, plan, req, effects, activations>>

\* The deadline passes and the interaction expires, or a client uses the
\* cancel endpoint, which needs no receipt and resumes nothing.
Close(i, status) ==
  /\ ask[i].status = "pending"
  /\ ask' = [ask EXCEPT ![i].status = status]
  /\ UNCHANGED <<log, receipt, resumed, plan, req, history>>

\* An agent revises the draft it has read, through the tool gateway.
AgentRevise ==
  /\ AgentDrafts
  /\ plan.status = "draft"
  /\ plan.version < MaxVersion
  /\ plan' = [plan EXCEPT !.version = @ + 1]
  /\ UNCHANGED <<ask, log, receipt, resumed, req, history>>

-----------------------------------------------------------------------------
(* The handler.                                                            *)

Item(r) == req[r].item
Action(r) == req[r].action
Kind(r) == ask[Item(r)].kind

\* The handler ends without a result (409 or an exception); the receipt
\* stays pending.
GiveUp(r) == req' = [req EXCEPT ![r] = Idle]

\* Variant of Decide that decides what the card checks let pass.
DecideUnguarded(r) ==
  LET i == Item(r) IN
  /\ req[r].step = "decide"
  /\ \/ /\ ask[i].status \in {"pending", "resolved"}
        /\ ask' = [ask EXCEPT
             ![i].status = IF Action(r) = "cancel" THEN "cancelled" ELSE "resolved",
             ![i].action = Action(r)]
        /\ req' = [req EXCEPT ![r].step = "resume"]
     \/ /\ ask[i].status \in {"cancelled", "expired"}
        /\ GiveUp(r)
        /\ UNCHANGED ask
  /\ UNCHANGED <<log, receipt, resumed, plan, history>>

\* respond or cancel: a pending interaction is decided, any other answered
\* with a conflict.
Decide(r) ==
  LET i == Item(r) IN
  /\ req[r].step = "decide"
  /\ \/ /\ ask[i].status = "pending"
        /\ ask' = [ask EXCEPT
             ![i].status = IF Action(r) = "cancel" THEN "cancelled" ELSE "resolved",
             ![i].action = Action(r)]
        /\ req' = [req EXCEPT ![r].step = "resume"]
     \/ /\ ask[i].status # "pending"
        /\ GiveUp(r)
        /\ UNCHANGED ask
  /\ UNCHANGED <<log, receipt, resumed, plan, history>>

\* Variant of Resumable that does not look at the status.
ResumableAlways(i) == TRUE

\* handle_resolved_interaction resumes resolved interactions only.
Resumable(i) == ask[i].status = "resolved"

\* The workflow reads the plan that a form or an approval is about; a plan
\* that did not survive a restart is a LookupError.
LosesPlan(r) == Kind(r) # "request" /\ plan = NoPlan

\* A field of blanks is a ValueError of the workflow.
Unusable(r) == LosesPlan(r) \/ Action(r) = "blank"

\* The card of the resume receipt, or else the interaction's own.
Replayed(i) == IF resumed[i] # None THEN resumed[i] ELSE "own"

\* handle_resolved_interaction up to the first change the workflow makes: a
\* resume receipt is looked for before anything else, an approval reads the
\* plan.
Resume(r) ==
  LET resumes == resumed[Item(r)] = None /\ Resumable(Item(r))
      reads == Kind(r) = "approval"
  IN
  /\ req[r].step = "resume"
  /\ \/ /\ ~resumes
        /\ req' = [req EXCEPT ![r].step = "complete", ![r].card = Replayed(Item(r))]
     \/ /\ resumes
        /\ reads /\ LosesPlan(r)
        /\ GiveUp(r)
     \/ /\ resumes
        /\ ~(reads /\ LosesPlan(r))
        /\ req' = [req EXCEPT ![r].step = "publish", ![r].base = plan.version]
  /\ UNCHANGED <<ask, log, receipt, resumed, plan, history>>

\* publish_card: the card is saved and the events of the run are counted.
Publish(r) ==
  /\ req[r].step = "publish"
  /\ req' = [req EXCEPT ![r].step = "append", ![r].previous = log]
  /\ UNCHANGED <<ask, log, receipt, resumed, plan, history>>

\* The interaction's own card is announced first, then the one it led to.
Announced(r) ==
  IF req[r].card = None
  THEN [card |-> Item(r), event |-> "decided"]
  ELSE [card |-> req[r].card, event |-> "created"]

\* What follows on the announcement: an approval acts or, with any other
\* action, is done; a form reads its plan; the last card is kept.
Continued(r) ==
  IF req[r].card # None THEN [req[r] EXCEPT !.step = "save"]
  ELSE IF Kind(r) # "approval" THEN [req[r] EXCEPT !.step = "read"]
  ELSE IF Action(r) \in {"edit", "confirm"} THEN [req[r] EXCEPT !.step = "write"]
  ELSE [req[r] EXCEPT !.step = "save", !.card = "own"]

\* append_event: nobody has appended since the events were counted.
AppendEvent(r) ==
  /\ req[r].step = "append"
  /\ log = req[r].previous
  /\ log' = log \cup {Announced(r)}
  /\ req' = [req EXCEPT ![r] = Continued(r)]
  /\ UNCHANGED <<ask, receipt, resumed, plan, history>>

\* EventSequenceError.  A ConcurrentWriteError of the card's save is no case
\* of its own: the other publisher of that card is between its reads and its
\* writes too, and one of the two is refused either way.
AppendRefused(r) ==
  /\ req[r].step = "append"
  /\ log # req[r].previous
  /\ GiveUp(r)
  /\ UNCHANGED <<ask, log, receipt, resumed, plan, history>>

\* A form is turned into the request for a draft.
ReadForm(r) ==
  /\ req[r].step = "read"
  /\ IF Unusable(r)
     THEN GiveUp(r)
     ELSE req' = [req EXCEPT ![r].step = "write", ![r].base = plan.version]
  /\ UNCHANGED <<ask, log, receipt, resumed, plan, history>>

\* create_draft needs that there is no plan yet; revise_draft and activate
\* that the draft is still the one the workflow read.
Writable(r) ==
  IF Kind(r) = "request"
  THEN plan = NoPlan
  ELSE plan.status = "draft" /\ plan.version = req[r].base

Confirms(r) == Kind(r) = "approval" /\ Action(r) = "confirm"

\* create_draft, revise_draft or activate.
Write(r) ==
  /\ req[r].step = "write"
  /\ Writable(r)
  /\ plan' = [ version |-> plan.version + 1,
               status |-> IF Confirms(r) THEN "active" ELSE "draft" ]
  /\ effects' = [effects EXCEPT ![Item(r)] = @ + 1]
  /\ IF Confirms(r)
     THEN /\ req' = [req EXCEPT ![r].step = "publish", ![r].card = "artifact"]
          /\ activations' = activations \cup
               {[by |-> Item(r), draft |-> plan.version]}
     ELSE /\ req' = [req EXCEPT ![r].step = "offer", ![r].base = plan.version + 1]
          /\ UNCHANGED activations
  /\ UNCHANGED <<ask, log, receipt, resumed, answers>>

\* PlanningConflictError or ValueError: the plan has changed meanwhile.
WriteFails(r) ==
  /\ req[r].step = "write"
  /\ ~Writable(r)
  /\ GiveUp(r)
  /\ UNCHANGED <<ask, log, receipt, resumed, plan, history>>

\* Variant of NextAsk that asks about the version before the change.
NextAskStale(r) ==
  Asked(IF Kind(r) = "approval" THEN "form" ELSE "approval",
        req[r].base - 1)

\* An answered form leads to an approval, an edit to a form.
NextAsk(r) ==
  Asked(IF Kind(r) = "approval" THEN "form" ELSE "approval", req[r].base)

\* hitl.create: from here on the next interaction can be answered.
Offer(r) ==
  /\ req[r].step = "offer"
  /\ Unused # {}
  /\ ask' = [ask EXCEPT ![NewId] = NextAsk(r)]
  /\ req' = [req EXCEPT ![r].step = "publish", ![r].card = NewId]
  /\ UNCHANGED <<log, receipt, resumed, plan, history>>

\* Variant of Save that keeps the cards of interactions only.
SaveInteractionsOnly(r) ==
  /\ req[r].step = "save"
  /\ resumed' = IF req[r].card \in Interactions
                THEN [resumed EXCEPT ![Item(r)] = req[r].card]
                ELSE resumed
  /\ req' = [req EXCEPT ![r].step = "complete"]
  /\ UNCHANGED <<ask, log, receipt, plan, history>>

\* save_resume_card: the first card is kept.
Save(r) ==
  /\ req[r].step = "save"
  /\ resumed' = [resumed EXCEPT ![Item(r)] = IF @ = None THEN req[r].card ELSE @]
  /\ req' = [req EXCEPT ![r].step = "complete"]
  /\ UNCHANGED <<ask, log, receipt, plan, history>>

\* Variant of Completed that keeps no result.
CompletedBare(k, card) ==
  [status |-> "completed", body |-> receipt[k].body, result |-> None]

\* complete: the result of a command is stored once.
Completed(k, card) ==
  IF receipt[k].status = "pending"
  THEN [status |-> "completed", body |-> receipt[k].body, result |-> card]
  ELSE receipt[k]

\* complete, and the answer to the client, which is the handler's own result.
Complete(r) ==
  LET k == req[r].key
      card == req[r].card
  IN
  /\ req[r].step = "complete"
  /\ receipt' = [receipt EXCEPT ![k] = Completed(k, card)]
  /\ answers' = [answers EXCEPT ![k] = @ \cup {[item |-> Item(r), card |-> card]}]
  /\ req' = [req EXCEPT ![r] = Idle]
  /\ UNCHANGED <<ask, log, resumed, plan, effects, activations>>

\* The process crashes and starts again: the database is what is left.
Crash ==
  /\ Crashes
  /\ req' = [r \in Requests |-> Idle]
  /\ plan' = NoPlan
  /\ UNCHANGED <<ask, log, receipt, resumed, history>>

-----------------------------------------------------------------------------

Step(r) ==
  \/ Decide(r) \/ Resume(r) \/ Publish(r) \/ AppendEvent(r) \/ AppendRefused(r)
  \/ ReadForm(r) \/ Write(r) \/ WriteFails(r) \/ Offer(r) \/ Save(r) \/ Complete(r)

Next ==
  \/ Start
  \/ AnnounceFirst
  \/ \E i \in Interactions : Close(i, "expired") \/ Close(i, "cancelled")
  \/ \E k \in Keys : Replay(k)
  \/ \E r \in Requests, k \in Keys : Begin(r, k) \/ Retry(r, k)
  \/ \E r \in Requests :
       \/ Decide(r) \/ Resume(r) \/ Publish(r) \/ AppendEvent(r) \/ AppendRefused(r)
       \/ ReadForm(r) \/ Write(r) \/ WriteFails(r)
       \/ Offer(r) \/ Save(r) \/ Complete(r)
  \/ AgentRevise
  \/ Crash

Spec == Init /\ [][Next]_vars

\* A handler that is not cut off by a crash runs to its end.
Fairness == \A r \in Requests : WF_vars(Step(r))

FairSpec == Spec /\ Fairness

\* A client that got no result repeats its request.  The API is made for it,
\* the web client does not do it: it takes a new key for every click.
Retries == \A k \in Keys : WF_vars(\E r \in Requests : Retry(r, k))

RetrySpec == FairSpec /\ Retries

-----------------------------------------------------------------------------
(* Properties.                                                             *)

\* An answer changes the plan at most once, however often the click is
\* repeated, whichever of two clicks on one card comes first, and wherever
\* a crash cuts the handler off ("the same interaction advances once").
ResumedOnce == \A i \in Interactions : effects[i] <= 1

\* Only answers act: what was cancelled, or has expired, changes no plan,
\* and a plan became active by a confirmed approval.
OnlyAnswersAct ==
  /\ \A i \in Interactions : effects[i] > 0 => ask[i].status = "resolved"
  /\ \A a \in activations :
       ask[a.by].kind = "approval" /\ ask[a.by].action = "confirm"

\* A client that repeats a request never gets two different results, whether
\* they come from the handler or from the receipt, as long as it uses the key
\* for one interaction only (the web client's keys hold the interaction's id).
RepliesAgree ==
  \A k \in Keys :
    (\A a, b \in answers[k] : a.item = b.item) =>
      \A a \in answers[k] : a.card = receipt[k].result

\* One key, one command: whoever sends the key is given the committed result.
\* The code does not keep this: a body does not name its interaction.
OneResultPerKey ==
  \A k \in Keys : \A a, b \in answers[k] : a.card = b.card

\* The chain of one conversation never leaves two interactions open, and an
\* open approval is about the draft that is current (or lost by a restart).
ApprovalCurrent ==
  /\ \A i, j \in Interactions :
       (ask[i].status = "pending" /\ ask[j].status = "pending") => i = j
  /\ \A i \in Interactions :
       (ask[i].kind = "approval" /\ ask[i].status = "pending" /\ plan # NoPlan) =>
         plan.status = "draft" /\ plan.version = ask[i].subject

\* The draft that becomes active is the one the user saw and approved ("...
\* keeps a stale approval card from activating the latest version").
ApprovedIsActivated == \A a \in activations : a.draft = ask[a.by].subject

\* An answer that was accepted moves the conversation on, and the card it
\* led to is kept for repeated requests.
AnswersResume ==
  \A i \in Interactions :
    (ask[i].status = "resolved") ~> (resumed[i] # None)

\* Clients answer a card when it has been announced, and not as soon as a
\* list of the open interactions shows it.
AnswersWait ==
  [](\A r \in Requests :
       req[r].step = "decide" => [card |-> Item(r), event |-> "created"] \in log)

\* Then no two handlers publish at once, and every accepted answer moves the
\* conversation on.
ResolvedResumes == AnswersWait => AnswersResume
=============================================================================
