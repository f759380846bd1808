------------------------- MODULE ApprovalFlowProofs -------------------------
(***************************************************************************)
(* Proofs about ApprovalFlow, for any number of interactions, idempotency  *)
(* keys and handlers, with crashes, blank fields and a second writer or    *)
(* without them, and whatever publications are refused.                    *)
(*                                                                         *)
(* The argument: the compare-and-set lets one request past the decision of *)
(* an interaction, ever.  So a request that is past it is alone with its   *)
(* interaction, and the interaction has not acted yet.  The receipt of its *)
(* key is bound to a body only; if it has a result nevertheless, then the  *)
(* key has been answered for another interaction.                          *)
(***************************************************************************)
EXTENDS ApprovalFlow, TLAPS

Past(q) == q.step \notin {"idle", "decide"}

\* The request is past the decision and has not written the plan.
Acting(q) == Past(q) /\ q.card = None /\ q.step # "offer"

\* What is true of a request q under way, in tables a and c, with effects n
\* and answers w.
Holds(q, a, c, n, w) ==
  q.step # "idle" =>
    /\ a[q.item].status # "absent"
    /\ c[q.key].status # "absent"
    /\ Past(q) =>
         /\ a[q.item].status \in {"resolved", "cancelled"}
         /\ a[q.item].action = q.action
         /\ c[q.key].status = "completed" => \E b \in w[q.key] : b.item # q.item
    /\ Acting(q) => n[q.item] = 0
    /\ q.step \in {"publish", "append", "read", "write", "offer"} =>
         a[q.item].status = "resolved"
    /\ q.step \in {"decide", "resume", "read", "write", "offer"} => q.card = None
    /\ q.step \in {"publish", "append"} => q.card # "own"
    /\ q.step \in {"save", "complete"} => q.card # None

ReqInv == \A r \in Requests : Holds(req[r], ask, receipt, effects, answers)

\* Two requests are not both past the decision of one interaction.
Alone ==
  \A r, s \in Requests :
    (Past(req[r]) /\ Past(req[s]) /\ Item(r) = Item(s)) => r = s

\* An interaction acts only when it was resolved, and once.
AskInv ==
  \A i \in Interactions :
    /\ effects[i] \in {0, 1}
    /\ ask[i].status # "resolved" => effects[i] = 0

\* Results are given out from their receipt on, the first one for an
\* interaction that is decided.
ReceiptInv ==
  \A k \in Keys :
    /\ receipt[k].status = "completed" =>
         \E b \in answers[k] : ask[b.item].status \notin {"absent", "pending"}
    /\ receipt[k].status # "completed" => answers[k] = {}
    /\ (\A a, b \in answers[k] : a.item = b.item) =>
         \A a \in answers[k] : a.card = receipt[k].result

ActivationInv ==
  \A a \in activations :
    /\ ask[a.by].status = "resolved"
    /\ ask[a.by].kind = "approval"
    /\ ask[a.by].action = "confirm"

IInv == TypeOK /\ ReqInv /\ Alone /\ AskInv /\ ReceiptInv /\ ActivationInv

-----------------------------------------------------------------------------
(* Facts about requests and rows.                                          *)

\* A request under way.
Running ==
  [ step     : {"decide", "resume", "publish", "append", "read", "write",
                "offer", "save", "complete"},
    key      : Keys,
    item     : Interactions,
    action   : Actions,
    base     : Nat,
    card     : Cards \cup {None},
    previous : SUBSET Event ]

LEMMA IdleRequest == Idle \in Request /\ Idle.step = "idle" /\ ~Past(Idle)
  BY DEF Idle, Request, Past

LEMMA RequestFields ==
  ASSUME NEW q \in Request
  PROVE  /\ q.step # "idle" => q \in Running
         /\ q = Idle <=> q.step = "idle"
  BY DEF Request, Running, Idle

LEMMA AskFields ==
  ASSUME NEW a \in Ask
  PROVE  /\ a.status \in {"absent", "pending", "resolved", "cancelled", "expired"}
         /\ a # NoAsk <=> a.status # "absent"
  BY DEF Ask, NoAsk

LEMMA ReceiptFields ==
  ASSUME NEW c \in Receipt
  PROVE  /\ c.status \in {"absent", "pending", "completed"}
         /\ c # NoReceipt <=> c.status # "absent"
         /\ c.status # "absent" => c.body \in Body
         /\ c.status = "completed" => c.result \in Cards
  BY DEF Receipt, NoReceipt

LEMMA ClickFields ==
  ASSUME NEW i \in Interactions, NEW body \in Clicks(i)
  PROVE  ask[i] # NoAsk /\ body \in Body /\ body.action \in Actions
<1>1. ask[i] # NoAsk /\ body \in [action : Offered(i), names : Names(i)]
  BY DEF Clicks
<1>2. Offered(i) \subseteq Actions
  BY DEF Offered, Actions
<1>3. Names(i) \subseteq Interactions \cup {"form"}
  BY DEF Names
<1> QED BY <1>1, <1>2, <1>3 DEF Body

\* A request that has just passed begin.
LEMMA ReceivedFields ==
  ASSUME NEW k \in Keys, NEW i \in Interactions, NEW action \in Actions
  PROVE  LET q == Received(k, i, action) IN
         /\ q \in Request
         /\ q.step = "decide" /\ q.key = k /\ q.item = i /\ q.card = None
         /\ ~Past(q)
  BY DEF Received, Request, Past

-----------------------------------------------------------------------------
(* The steps that several actions share.                                   *)

\* One request goes on or ends, and changes no table but the events and the
\* resume receipts.
LEMMA HandlerStep ==
  ASSUME IInv, NEW r \in Requests, NEW q \in Request,
         req' = [req EXCEPT ![r] = q],
         Holds(q, ask, receipt, effects, answers),
         Past(q) => Past(req[r]) /\ q.item = req[r].item,
         log' \subseteq Event,
         resumed' \in [Interactions -> Cards \cup {None}],
         UNCHANGED <<ask, receipt, plan, history>>
  PROVE  IInv'
<1>1. \A s \in Requests : req'[s] = IF s = r THEN q ELSE req[s]
  BY DEF IInv, TypeOK
<1>2. TypeOK'
  BY DEF IInv, TypeOK, history
<1>3. ReqInv'
  BY <1>1 DEF IInv, ReqInv, history
<1>4. Alone'
  BY <1>1 DEF IInv, Alone, Item
<1>5. AskInv' /\ ReceiptInv' /\ ActivationInv'
  BY DEF IInv, AskInv, ReceiptInv, ActivationInv, history
<1> QED BY <1>2, <1>3, <1>4, <1>5 DEF IInv

\* Interactions are created and decided, never changed otherwise.
Grows ==
  \A i \in Interactions :
    \/ ask'[i] = ask[i]
    \/ ask[i].status = "absent" /\ ask'[i].status = "pending"
    \/ ask[i].status = "pending" /\ ask'[i].status \notin {"absent", "pending"}

LEMMA AskStep ==
  ASSUME IInv, ask' \in [Interactions -> Ask], Grows,
         UNCHANGED <<receipt, history>>
  PROVE  /\ AskInv'
         /\ ReceiptInv'
         /\ ActivationInv'
         /\ \A q \in Request :
              Holds(q, ask, receipt, effects, answers) =>
                Holds(q, ask', receipt', effects', answers')
<1> USE DEF history
<1>1. AskInv'
  BY DEF IInv, AskInv, Grows
<1>2. ReceiptInv'
  <2>1. \A k \in Keys : \A b \in answers[k] : b.item \in Interactions
    BY DEF IInv, TypeOK
  <2>2. \A k \in Keys : \A b \in answers[k] :
          ask[b.item].status \notin {"absent", "pending"} =>
            ask'[b.item].status \notin {"absent", "pending"}
    BY <2>1 DEF Grows
  <2> QED BY <2>2 DEF IInv, ReceiptInv
<1>3. ActivationInv'
  BY DEF IInv, TypeOK, ActivationInv, Grows
<1>4. ASSUME NEW q \in Request, Holds(q, ask, receipt, effects, answers)
      PROVE  Holds(q, ask', receipt', effects', answers')
  <2> SUFFICES ASSUME q.step # "idle"
               PROVE  Holds(q, ask', receipt', effects', answers')
    BY DEF Holds
  <2>1. q.item \in Interactions
    BY RequestFields DEF Running
  <2> QED BY <1>4, <2>1 DEF Holds, Grows
<1> QED BY <1>1, <1>2, <1>3, <1>4

-----------------------------------------------------------------------------
(* IInv is inductive.                                                      *)

LEMMA InitInv == Init => IInv
<1> SUFFICES ASSUME Init PROVE IInv
  OBVIOUS
<1>1. TypeOK
  BY IdleRequest DEF Init, TypeOK, Ask, Receipt, NoReceipt, Plan
<1>2. ReqInv /\ Alone
  BY IdleRequest DEF Init, ReqInv, Holds, Alone
<1>3. AskInv /\ ReceiptInv /\ ActivationInv
  BY DEF Init, AskInv, ReceiptInv, ActivationInv, NoReceipt
<1> QED BY <1>1, <1>2, <1>3 DEF IInv

\* A new interaction takes the place of a row that does not exist yet.
LEMMA NewAsk ==
  ASSUME TypeOK, Unused # {}, NEW a \in Ask, a.status = "pending",
         ask' = [ask EXCEPT ![NewId] = a]
  PROVE  /\ NewId \in Interactions
         /\ ask' \in [Interactions -> Ask]
         /\ Grows
<1>1. NewId \in Unused
  BY DEF NewId
<1>2. NewId \in Interactions /\ ask[NewId].status = "absent"
  BY <1>1 DEF Unused, NoAsk
<1> QED BY <1>2 DEF TypeOK, Grows

LEMMA StartStep ==
  ASSUME IInv, Start
  PROVE  IInv'
<1>1. Asked("request", 1) \in Ask /\ Asked("request", 1).status = "pending"
  BY DEF Asked, Ask, Kinds
<1>2. Unused # {}
  BY FlowAssumption DEF Start
<1>3. ask' \in [Interactions -> Ask] /\ Grows
  BY <1>1, <1>2, NewAsk DEF IInv, Start
<1>4. TypeOK'
  BY <1>3 DEF IInv, TypeOK, Start, history
<1>5. /\ AskInv' /\ ReceiptInv' /\ ActivationInv'
      /\ \A q \in Request :
           Holds(q, ask, receipt, effects, answers) =>
             Holds(q, ask', receipt', effects', answers')
  BY <1>3, AskStep DEF Start
<1>6. ReqInv' /\ Alone'
  BY <1>5 DEF IInv, TypeOK, ReqInv, Alone, Item, Start
<1> QED BY <1>4, <1>5, <1>6 DEF IInv

\* Announcements are read by publishers only.
LEMMA AnnounceFirstStep ==
  ASSUME IInv, AnnounceFirst
  PROVE  IInv'
<1>1. log' \subseteq Event
  BY DEF AnnounceFirst, Event, IInv, TypeOK
<1> QED BY <1>1 DEF AnnounceFirst, history, IInv, TypeOK, ReqInv, Alone, Item, AskInv,
                    ReceiptInv, ActivationInv

LEMMA CloseStep ==
  ASSUME IInv, NEW i \in Interactions, NEW status \in {"expired", "cancelled"},
         Close(i, status)
  PROVE  IInv'
<1>1. ask' \in [Interactions -> Ask] /\ Grows
  <2>1. ask[i].status = "pending" /\ ask' = [ask EXCEPT ![i].status = status]
    BY DEF Close
  <2>2. [ask[i] EXCEPT !.status = status] \in Ask
    BY <2>1 DEF IInv, TypeOK, Ask, NoAsk
  <2>3. [ask[i] EXCEPT !.status = status].status = status
    BY <2>1 DEF IInv, TypeOK, Ask, NoAsk
  <2> QED BY <2>1, <2>2, <2>3 DEF IInv, TypeOK, Grows
<1>2. TypeOK'
  BY <1>1 DEF IInv, TypeOK, Close, history
<1>3. /\ AskInv' /\ ReceiptInv' /\ ActivationInv'
      /\ \A q \in Request :
           Holds(q, ask, receipt, effects, answers) =>
             Holds(q, ask', receipt', effects', answers')
  BY <1>1, AskStep DEF Close
<1>4. ReqInv' /\ Alone'
  BY <1>3 DEF IInv, TypeOK, ReqInv, Alone, Item, Close
<1> QED BY <1>2, <1>3, <1>4 DEF IInv

\* Other writers and restarts touch no table.
LEMMA AgentReviseStep ==
  ASSUME IInv, AgentRevise
  PROVE  IInv'
<1>1. plan' \in Plan
  <2>1. plan \in [version : Nat \ {0}, status : {"draft", "active"}]
    BY DEF AgentRevise, IInv, TypeOK, Plan, NoPlan
  <2> QED BY <2>1 DEF AgentRevise, Plan
<1>2. TypeOK'
  BY <1>1 DEF IInv, TypeOK, AgentRevise, history
<1> QED BY <1>2 DEF IInv, AgentRevise, history, ReqInv, Alone, Item, AskInv, ReceiptInv,
                    ActivationInv

LEMMA CrashStep ==
  ASSUME IInv, Crash
  PROVE  IInv'
<1>1. TypeOK'
  BY IdleRequest DEF IInv, TypeOK, Crash, Plan, history
<1>2. ReqInv' /\ Alone'
  BY IdleRequest DEF Crash, ReqInv, Holds, Alone
<1> QED BY <1>1, <1>2 DEF IInv, Crash, history, AskInv, ReceiptInv, ActivationInv

\* Whoever asks, the result is the one of the receipt.
LEMMA ReplayStep ==
  ASSUME IInv, NEW k \in Keys, Replay(k)
  PROVE  IInv'
<1>1. PICK i \in Interactions :
        answers' = [answers EXCEPT ![k] = @ \cup {[item |-> i, card |-> receipt[k].result]}]
  BY DEF Replay
<1> DEFINE w == [item |-> i, card |-> receipt[k].result]
<1>2. receipt[k].status = "completed" /\ receipt[k].result \in Cards
  BY ReceiptFields DEF Replay, IInv, TypeOK
<1>3. w \in [item : Interactions, card : Cards] /\ w.card = receipt[k].result
  BY <1>2
<1>4. answers' = [answers EXCEPT ![k] = @ \cup {w}]
  BY <1>1
<1> HIDE DEF w
<1>5. \A l \in Keys : answers'[l] = IF l = k THEN answers[l] \cup {w} ELSE answers[l]
  BY <1>4 DEF IInv, TypeOK
<1>6. UNCHANGED <<ask, log, receipt, resumed, plan, req, effects, activations>>
  BY DEF Replay
<1>7. TypeOK'
  BY <1>3, <1>4, <1>6 DEF IInv, TypeOK
<1>8. ReqInv'
  <2> SUFFICES ASSUME NEW s \in Requests, req[s].step # "idle"
               PROVE  Holds(req[s], ask, receipt, effects, answers')
    BY <1>6 DEF ReqInv, Holds
  <2>1. req[s].key \in Keys
    BY RequestFields DEF IInv, TypeOK, Running
  <2>2. Holds(req[s], ask, receipt, effects, answers)
    BY DEF IInv, ReqInv
  <2> QED BY <1>5, <2>1, <2>2 DEF Holds
<1>9. ReceiptInv'
  <2> SUFFICES ASSUME NEW l \in Keys
               PROVE  /\ receipt[l].status = "completed" =>
                           \E b \in answers'[l] :
                             ask[b.item].status \notin {"absent", "pending"}
                      /\ receipt[l].status # "completed" => answers'[l] = {}
                      /\ (\A a, b \in answers'[l] : a.item = b.item) =>
                           \A a \in answers'[l] : a.card = receipt[l].result
    BY <1>6 DEF ReceiptInv
  <2>1. CASE l = k
    <3>1. answers'[l] = answers[l] \cup {w} /\ receipt[l].status = "completed"
      BY <1>2, <1>5, <2>1
    <3>2. \E b \in answers[l] : ask[b.item].status \notin {"absent", "pending"}
      BY <3>1 DEF IInv, ReceiptInv
    <3>3. (\A a, b \in answers[l] : a.item = b.item) =>
            \A a \in answers[l] : a.card = receipt[l].result
      BY DEF IInv, ReceiptInv
    <3>4. w.card = receipt[l].result
      BY <1>3, <2>1
    <3> QED BY <3>1, <3>2, <3>3, <3>4
  <2>2. CASE l # k
    BY <1>5, <2>2 DEF IInv, ReceiptInv
  <2> QED BY <2>1, <2>2
<1> QED BY <1>6, <1>7, <1>8, <1>9 DEF IInv, Alone, Item, AskInv, ActivationInv

\* A new command: its receipt is not the one of any request under way.
LEMMA BeginStep ==
  ASSUME IInv, NEW r \in Requests, NEW k \in Keys, Begin(r, k)
  PROVE  IInv'
<1>0. PICK i \in Interactions : \E body \in Clicks(i) :
        /\ receipt' = [receipt EXCEPT ![k] =
             [status |-> "pending", body |-> body, result |-> None]]
        /\ req' = [req EXCEPT ![r] = Received(k, i, body.action)]
  BY DEF Begin
<1>1. PICK body \in Clicks(i) :
        /\ receipt' = [receipt EXCEPT ![k] =
             [status |-> "pending", body |-> body, result |-> None]]
        /\ req' = [req EXCEPT ![r] = Received(k, i, body.action)]
  BY <1>0
<1> DEFINE c == [status |-> "pending", body |-> body, result |-> None]
           q == Received(k, i, body.action)
<1>2. ask[i] # NoAsk /\ body \in Body /\ body.action \in Actions
  BY ClickFields
<1>3. c \in Receipt /\ c.status = "pending"
  BY <1>2 DEF Receipt
<1>4. /\ q \in Request /\ q.step = "decide" /\ q.key = k
      /\ q.item = i /\ q.card = None /\ ~Past(q)
  BY <1>2, ReceivedFields
<1>5. receipt' = [receipt EXCEPT ![k] = c] /\ req' = [req EXCEPT ![r] = q]
  BY <1>1
<1> HIDE DEF c, q
<1>6. receipt[k].status = "absent" /\ ask[i].status # "absent"
  BY <1>2, AskFields DEF Begin, NoReceipt, IInv, TypeOK
<1>7. UNCHANGED <<ask, log, resumed, plan, effects, activations, answers>>
  BY DEF Begin, history
<1>8. TypeOK'
  BY <1>3, <1>4, <1>5, <1>7 DEF IInv, TypeOK
<1>9. /\ \A l \in Keys : receipt'[l] = IF l = k THEN c ELSE receipt[l]
      /\ \A s \in Requests : req'[s] = IF s = r THEN q ELSE req[s]
  BY <1>5 DEF IInv, TypeOK
<1>10. ReqInv'
  <2> SUFFICES ASSUME NEW s \in Requests
               PROVE  Holds(req'[s], ask', receipt', effects', answers')
    BY DEF ReqInv
  <2>1. CASE s = r
    BY <2>1, <1>3, <1>4, <1>6, <1>7, <1>9 DEF Holds, Acting
  <2>2. CASE s # r
    <3>1. Holds(req[s], ask, receipt, effects, answers) /\ req[s] \in Request
      BY DEF IInv, TypeOK, ReqInv
    <3>2. req[s].step # "idle" => req[s].key # k /\ req[s].key \in Keys
      BY <1>6, <3>1, RequestFields DEF Holds, Running
    <3> QED BY <2>2, <3>1, <3>2, <1>7, <1>9 DEF Holds
  <2> QED BY <2>1, <2>2
<1>11. Alone'
  BY <1>4, <1>9 DEF IInv, Alone, Item
<1>12. ReceiptInv'
  <2>1. answers[k] = {}
    BY <1>6 DEF IInv, ReceiptInv
  <2> QED BY <2>1, <1>3, <1>7, <1>9 DEF IInv, ReceiptInv
<1> QED BY <1>7, <1>8, <1>10, <1>11, <1>12 DEF IInv, AskInv, ActivationInv

LEMMA RetryStep ==
  ASSUME IInv, NEW r \in Requests, NEW k \in Keys, Retry(r, k)
  PROVE  IInv'
<1>0. PICK i \in Interactions : \E body \in Clicks(i) :
        req' = [req EXCEPT ![r] = Received(k, i, body.action)]
  BY DEF Retry
<1>1. PICK body \in Clicks(i) :
        req' = [req EXCEPT ![r] = Received(k, i, body.action)]
  BY <1>0
<1> DEFINE q == Received(k, i, body.action)
<1>2. ask[i] # NoAsk /\ body.action \in Actions
  BY ClickFields
<1>3. /\ q \in Request /\ q.step = "decide" /\ q.key = k
      /\ q.item = i /\ q.card = None /\ ~Past(q)
  BY <1>2, ReceivedFields
<1>4. req' = [req EXCEPT ![r] = q]
  BY <1>1
<1>5. ask[i].status # "absent" /\ receipt[k].status = "pending"
  BY <1>2, AskFields DEF Retry, IInv, TypeOK
<1> HIDE DEF q
<1>6. Holds(q, ask, receipt, effects, answers)
  BY <1>3, <1>5 DEF Holds, Acting
<1> QED BY <1>3, <1>4, <1>6, HandlerStep DEF Retry, IInv, TypeOK

LEMMA UnderWay ==
  ASSUME IInv, NEW r \in Requests, req[r].step # "idle"
  PROVE  /\ req[r] \in Running
         /\ Item(r) \in Interactions
         /\ req[r].key \in Keys
         /\ Holds(req[r], ask, receipt, effects, answers)
<1>1. req[r] \in Request
  BY DEF IInv, TypeOK
<1> QED BY <1>1, RequestFields DEF IInv, ReqInv, Item, Running

LEMMA GiveUpStep ==
  ASSUME IInv, NEW r \in Requests, GiveUp(r),
         UNCHANGED <<ask, log, receipt, resumed, plan, history>>
  PROVE  IInv'
<1>1. Holds(Idle, ask, receipt, effects, answers)
  BY IdleRequest DEF Holds
<1> QED BY <1>1, IdleRequest, HandlerStep DEF GiveUp, IInv, TypeOK

\* The request that decides an interaction is the only one past it.  If its
\* key has a result by now, that was given for a decided interaction, which
\* this one is not yet.
LEMMA DecideStep ==
  ASSUME IInv, NEW r \in Requests, Decide(r)
  PROVE  IInv'
<1> DEFINE i == Item(r)
<1>1. CASE ask[i].status # "pending"
  BY <1>1, GiveUpStep DEF Decide
<1>2. CASE ask[i].status = "pending"
  <2> DEFINE status == IF Action(r) = "cancel" THEN "cancelled" ELSE "resolved"
             a == [ask[i] EXCEPT !.status = status, !.action = Action(r)]
             q == [req[r] EXCEPT !.step = "resume"]
  <2>1. /\ req[r].step = "decide"
        /\ ask' = [ask EXCEPT ![i].status = status, ![i].action = Action(r)]
        /\ req' = [req EXCEPT ![r].step = "resume"]
        /\ UNCHANGED <<log, receipt, resumed, plan, history>>
    BY <1>2 DEF Decide
  <2>2. req[r] \in Running /\ i \in Interactions /\ req[r].key \in Keys
    BY <2>1, UnderWay
  <2>3. ask[i] \in Ask /\ ask[i] # NoAsk
    BY <1>2, <2>2 DEF IInv, TypeOK, NoAsk
  <2>4. Action(r) \in Actions
    BY <2>2 DEF Running, Action
  <2>5. a \in Ask /\ a.status = status /\ a.action = Action(r)
    BY <2>3, <2>4 DEF Ask
  <2>6. /\ q \in Request /\ q.step = "resume" /\ q.card = req[r].card
        /\ q.item = i /\ q.action = Action(r) /\ q.key = req[r].key
    BY <2>2 DEF Running, Request, Item, Action
  <2>7. ask' = [ask EXCEPT ![i] = a] /\ req' = [req EXCEPT ![r] = q]
    BY <2>1, <2>2 DEF IInv, TypeOK
  <2> HIDE DEF a, q
  <2>8. /\ \A j \in Interactions : ask'[j] = IF j = i THEN a ELSE ask[j]
        /\ \A s \in Requests : req'[s] = IF s = r THEN q ELSE req[s]
    BY <2>7 DEF IInv, TypeOK
  <2>9. ask' \in [Interactions -> Ask] /\ Grows
    BY <1>2, <2>5, <2>7, <2>8 DEF IInv, TypeOK, Grows
  <2>10. /\ AskInv' /\ ReceiptInv' /\ ActivationInv'
         /\ \A p \in Request :
              Holds(p, ask, receipt, effects, answers) =>
                Holds(p, ask', receipt', effects', answers')
    BY <2>1, <2>9, AskStep
  <2>11. TypeOK'
    BY <2>1, <2>6, <2>7, <2>9 DEF IInv, TypeOK, history
  <2>12. Holds(q, ask', receipt', effects', answers')
    <3>1. /\ receipt[q.key].status # "absent"
          /\ q.card = None
      BY <2>1, <2>6, UnderWay DEF Holds
    <3>2. receipt[q.key].status = "completed" => \E b \in answers[q.key] : b.item # i
      BY <1>2, <2>2, <2>6 DEF IInv, ReceiptInv
    <3>3. effects[i] = 0
      BY <1>2, <2>2 DEF IInv, AskInv
    <3> QED BY <2>1, <2>2, <2>5, <2>6, <2>8, <3>1, <3>2, <3>3
            DEF Holds, Past, Acting, history
  <2>13. ReqInv'
    BY <2>8, <2>10, <2>12 DEF IInv, TypeOK, ReqInv
  <2>14. \A s \in Requests : Past(req[s]) => Item(s) # i
    <3> SUFFICES ASSUME NEW s \in Requests, Past(req[s]), Item(s) = i
                 PROVE  FALSE
      OBVIOUS
    <3>1. req[s].step # "idle"
      BY DEF Past
    <3> QED BY <1>2, <3>1, UnderWay DEF Holds, Item
  <2>15. Alone'
    BY <2>6, <2>8, <2>14 DEF IInv, Alone, Item
  <2> QED BY <2>10, <2>11, <2>13, <2>15 DEF IInv
<1> QED BY <1>1, <1>2

\* A handler goes on from one step to the next and leaves the tables alone.
LEMMA GoOnStep ==
  ASSUME IInv, NEW r \in Requests, NEW q \in Request,
         Past(req[r]), Past(q),
         q.item = req[r].item, q.action = req[r].action, q.key = req[r].key,
         Acting(q) => Acting(req[r]),
         q.step \in {"publish", "append", "read", "write", "offer"} =>
           ask[Item(r)].status = "resolved",
         q.step \in {"resume", "read", "write", "offer"} => q.card = None,
         q.step \in {"publish", "append"} => q.card # "own",
         q.step \in {"save", "complete"} => q.card # None,
         req' = [req EXCEPT ![r] = q],
         log' \subseteq Event,
         resumed' \in [Interactions -> Cards \cup {None}],
         UNCHANGED <<ask, receipt, plan, history>>
  PROVE  IInv'
<1>1. Holds(req[r], ask, receipt, effects, answers)
  BY DEF IInv, ReqInv
<1>2. Holds(q, ask, receipt, effects, answers)
  BY <1>1 DEF Holds, Past, Item
<1> QED BY <1>2, HandlerStep

LEMMA ResumeStep ==
  ASSUME IInv, NEW r \in Requests, Resume(r)
  PROVE  IInv'
<1> DEFINE i == Item(r)
<1>1. /\ req[r].step = "resume"
      /\ UNCHANGED <<ask, log, receipt, resumed, plan, history>>
  BY DEF Resume
<1>2. /\ req[r] \in Running /\ i \in Interactions /\ Past(req[r])
      /\ req[r].card = None /\ Acting(req[r])
  BY <1>1, UnderWay DEF Holds, Past, Acting
<1>3. CASE req' = [req EXCEPT ![r].step = "complete", ![r].card = Replayed(i)]
  <2> DEFINE q == [req[r] EXCEPT !.step = "complete", !.card = Replayed(i)]
  <2>1. Replayed(i) \in Cards /\ Replayed(i) # None
    BY <1>2, FlowAssumption DEF Replayed, Cards, IInv, TypeOK
  <2>2. /\ q \in Request /\ q.step = "complete" /\ q.card # None
        /\ q.item = req[r].item /\ q.action = req[r].action /\ q.key = req[r].key
    BY <1>2, <2>1 DEF Running, Request
  <2>3. req' = [req EXCEPT ![r] = q]
    BY <1>2, <1>3 DEF IInv, TypeOK
  <2> HIDE DEF q
  <2> QED BY <1>1, <1>2, <2>2, <2>3, GoOnStep DEF Past, Acting, IInv, TypeOK
<1>4. CASE GiveUp(r)
  BY <1>1, <1>4, GiveUpStep
<1>5. CASE Resumable(i) /\ req' = [req EXCEPT ![r].step = "publish", ![r].base = plan.version]
  <2> DEFINE q == [req[r] EXCEPT !.step = "publish", !.base = plan.version]
  <2>1. plan.version \in Nat
    BY DEF IInv, TypeOK, Plan, NoPlan
  <2>2. /\ q \in Request /\ q.step = "publish" /\ q.card = None
        /\ q.item = req[r].item /\ q.action = req[r].action /\ q.key = req[r].key
    BY <1>2, <2>1 DEF Running, Request
  <2>3. req' = [req EXCEPT ![r] = q]
    BY <1>2, <1>5 DEF IInv, TypeOK
  <2>4. None # "own"
    BY FlowAssumption
  <2> HIDE DEF q
  <2> QED BY <1>1, <1>2, <1>5, <2>2, <2>3, <2>4, GoOnStep
          DEF Past, Resumable, IInv, TypeOK
<1> QED BY <1>3, <1>4, <1>5 DEF Resume

LEMMA PublishStep ==
  ASSUME IInv, NEW r \in Requests, Publish(r)
  PROVE  IInv'
<1> DEFINE q == [req[r] EXCEPT !.step = "append", !.previous = log]
<1>1. /\ req[r].step = "publish"
      /\ req' = [req EXCEPT ![r].step = "append", ![r].previous = log]
      /\ UNCHANGED <<ask, log, receipt, resumed, plan, history>>
  BY DEF Publish
<1>2. req[r] \in Running /\ Holds(req[r], ask, receipt, effects, answers)
  BY <1>1, UnderWay
<1>3. /\ q \in Request /\ q.step = "append" /\ q.card = req[r].card
      /\ q.item = req[r].item /\ q.action = req[r].action /\ q.key = req[r].key
  BY <1>2 DEF Running, Request, IInv, TypeOK
<1>4. req' = [req EXCEPT ![r] = q]
  BY <1>1, <1>2 DEF IInv, TypeOK
<1>5. ask[Item(r)].status = "resolved" /\ req[r].card # "own"
  BY <1>1, <1>2 DEF Holds, Item
<1> HIDE DEF q
<1>6. Past(req[r]) /\ Past(q) /\ (Acting(q) => Acting(req[r]))
  BY <1>1, <1>3 DEF Past, Acting
<1>7. log' \subseteq Event /\ resumed' \in [Interactions -> Cards \cup {None}]
  BY <1>1 DEF IInv, TypeOK
<1> QED BY <1>1, <1>3, <1>4, <1>5, <1>6, <1>7, GoOnStep

LEMMA AppendEventStep ==
  ASSUME IInv, NEW r \in Requests, AppendEvent(r)
  PROVE  IInv'
<1>1. /\ req[r].step = "append"
      /\ log' = log \cup {Announced(r)}
      /\ req' = [req EXCEPT ![r] = Continued(r)]
      /\ UNCHANGED <<ask, receipt, resumed, plan, history>>
  BY DEF AppendEvent
<1>2. /\ req[r] \in Running /\ Item(r) \in Interactions
      /\ Holds(req[r], ask, receipt, effects, answers)
  BY <1>1, UnderWay
<1>3. ask[Item(r)].status = "resolved" /\ req[r].card # "own"
  BY <1>1, <1>2 DEF Holds, Item
<1>4. log' \subseteq Event
  <2>1. req[r].card # None => req[r].card \in Interactions \cup {"artifact"}
    BY <1>2, <1>3 DEF Running, Cards
  <2>2. Announced(r) \in Event
    BY <1>2, <2>1 DEF Announced, Event
  <2> QED BY <1>1, <2>2 DEF IInv, TypeOK
<1> DEFINE q == Continued(r)
<1>5. /\ q \in Request
      /\ q.item = req[r].item /\ q.action = req[r].action /\ q.key = req[r].key
      /\ q.step \in {"save", "read", "write"}
      /\ q.step = "save" => q.card # None
      /\ q.step \in {"read", "write"} => q.card = None /\ req[r].card = None
  BY <1>2, FlowAssumption DEF Continued, Running, Request, Cards
<1>6. req' = [req EXCEPT ![r] = q]
  BY <1>1
<1> HIDE DEF q
<1>7. Past(req[r]) /\ Past(q) /\ (Acting(q) => Acting(req[r]))
  BY <1>1, <1>5 DEF Past, Acting
<1>8. resumed' \in [Interactions -> Cards \cup {None}]
  BY <1>1 DEF IInv, TypeOK
<1>9. /\ UNCHANGED <<ask, receipt, plan, history>>
      /\ q.step \notin {"resume", "offer", "publish", "append", "complete"}
  BY <1>1, <1>5
<1> QED BY <1>3, <1>4, <1>5, <1>6, <1>7, <1>8, <1>9, GoOnStep

LEMMA AppendRefusedStep ==
  ASSUME IInv, NEW r \in Requests, AppendRefused(r)
  PROVE  IInv'
  BY GiveUpStep DEF AppendRefused

LEMMA ReadFormStep ==
  ASSUME IInv, NEW r \in Requests, ReadForm(r)
  PROVE  IInv'
<1>1. /\ req[r].step = "read"
      /\ UNCHANGED <<ask, log, receipt, resumed, plan, history>>
  BY DEF ReadForm
<1>2. CASE Unusable(r)
  BY <1>1, <1>2, GiveUpStep DEF ReadForm
<1>3. CASE ~Unusable(r)
  <2> DEFINE q == [req[r] EXCEPT !.step = "write", !.base = plan.version]
  <2>1. req[r] \in Running /\ Holds(req[r], ask, receipt, effects, answers)
    BY <1>1, UnderWay
  <2>2. plan.version \in Nat
    BY DEF IInv, TypeOK, Plan, NoPlan
  <2>3. req[r].card = None /\ ask[Item(r)].status = "resolved"
    BY <1>1, <2>1 DEF Holds, Item
  <2>4. /\ q \in Request /\ q.step = "write" /\ q.card = None
        /\ q.item = req[r].item /\ q.action = req[r].action /\ q.key = req[r].key
    BY <2>1, <2>2, <2>3 DEF Running, Request
  <2>5. req' = [req EXCEPT ![r] = q]
    BY <1>3, <2>1 DEF ReadForm, IInv, TypeOK
  <2> HIDE DEF q
  <2> QED BY <1>1, <2>3, <2>4, <2>5, GoOnStep DEF Past, Acting, IInv, TypeOK
<1> QED BY <1>2, <1>3

LEMMA WriteFailsStep ==
  ASSUME IInv, NEW r \in Requests, WriteFails(r)
  PROVE  IInv'
  BY GiveUpStep DEF WriteFails

LEMMA SaveStep ==
  ASSUME IInv, NEW r \in Requests, Save(r)
  PROVE  IInv'
<1> DEFINE q == [req[r] EXCEPT !.step = "complete"]
<1>1. /\ req[r].step = "save"
      /\ UNCHANGED <<ask, log, receipt, plan, history>>
  BY DEF Save
<1>2. /\ req[r] \in Running /\ Item(r) \in Interactions
      /\ Holds(req[r], ask, receipt, effects, answers)
  BY <1>1, UnderWay
<1>3. resumed' \in [Interactions -> Cards \cup {None}]
  <2>1. req[r].card \in Cards \cup {None}
    BY <1>2 DEF Running
  <2> QED BY <1>2, <2>1 DEF Save, IInv, TypeOK
<1>4. /\ q \in Request /\ q.step = "complete" /\ q.card = req[r].card
      /\ q.item = req[r].item /\ q.action = req[r].action /\ q.key = req[r].key
  BY <1>2 DEF Running, Request
<1>5. req' = [req EXCEPT ![r] = q]
  BY <1>2 DEF Save, IInv, TypeOK
<1>6. req[r].card # None
  BY <1>1, <1>2 DEF Holds
<1> HIDE DEF q
<1> QED BY <1>1, <1>3, <1>4, <1>5, <1>6, GoOnStep DEF Past, Acting, IInv, TypeOK

\* The interaction has not acted before, and no other request will act for it.
LEMMA WriteStep ==
  ASSUME IInv, NEW r \in Requests, Write(r)
  PROVE  IInv'
<1> DEFINE i == Item(r)
<1>1. /\ req[r].step = "write"
      /\ plan' = [ version |-> plan.version + 1,
                   status |-> IF Confirms(r) THEN "active" ELSE "draft" ]
      /\ effects' = [effects EXCEPT ![i] = @ + 1]
      /\ UNCHANGED <<ask, log, receipt, resumed, answers>>
  BY DEF Write
<1>2. /\ req[r] \in Running /\ i \in Interactions
      /\ Holds(req[r], ask, receipt, effects, answers)
  BY <1>1, UnderWay
<1>3. /\ effects[i] = 0
      /\ ask[i].status = "resolved"
      /\ ask[i].action = Action(r)
      /\ req[r].card = None
  BY <1>1, <1>2 DEF Holds, Past, Acting, Item, Action
<1>4. plan.version \in Nat /\ plan' \in Plan
  <2>1. plan.version \in Nat
    BY DEF IInv, TypeOK, Plan, NoPlan
  <2> QED BY <1>1, <2>1 DEF Plan
<1>5. \A j \in Interactions : effects'[j] = IF j = i THEN 1 ELSE effects[j]
  BY <1>1, <1>2, <1>3 DEF IInv, TypeOK
<1>6. effects' \in [Interactions -> Nat]
  BY <1>1, <1>2, <1>3 DEF IInv, TypeOK
<1>7. /\ activations' \subseteq [by : Interactions, draft : Nat]
      /\ ActivationInv'
  <2>1. CASE Confirms(r)
    <3>1. activations' = activations \cup {[by |-> i, draft |-> plan.version]}
      BY <2>1 DEF Write
    <3>2. ask[i].kind = "approval" /\ ask[i].action = "confirm"
      BY <1>3, <2>1 DEF Confirms, Kind
    <3> QED BY <1>1, <1>2, <1>3, <1>4, <3>1, <3>2 DEF IInv, TypeOK, ActivationInv
  <2>2. CASE ~Confirms(r)
    BY <1>1, <2>2 DEF Write, IInv, TypeOK, ActivationInv
  <2> QED BY <2>1, <2>2
<1>8. PICK q \in Request :
        /\ req' = [req EXCEPT ![r] = q]
        /\ \/ q.step = "publish" /\ q.card = "artifact"
           \/ q.step = "offer" /\ q.card = None
        /\ q.item = req[r].item /\ q.action = req[r].action /\ q.key = req[r].key
  <2>1. CASE Confirms(r)
    <3> DEFINE q == [req[r] EXCEPT !.step = "publish", !.card = "artifact"]
    <3>1. /\ q \in Request /\ q.step = "publish" /\ q.card = "artifact"
          /\ q.item = req[r].item /\ q.action = req[r].action /\ q.key = req[r].key
      BY <1>2, FlowAssumption DEF Running, Request, Cards
    <3>2. req' = [req EXCEPT ![r] = q]
      BY <1>2, <2>1 DEF Write, IInv, TypeOK
    <3> QED BY <3>1, <3>2
  <2>2. CASE ~Confirms(r)
    <3> DEFINE base == plan.version + 1
               q == [req[r] EXCEPT !.step = "offer", !.base = base]
    <3>1. base \in Nat
      BY <1>4
    <3>2. req' = [req EXCEPT ![r] = q]
      BY <1>2, <2>2 DEF Write, IInv, TypeOK
    <3> HIDE DEF base
    <3>3. /\ q \in Request /\ q.step = "offer" /\ q.card = None
          /\ q.item = req[r].item /\ q.action = req[r].action /\ q.key = req[r].key
      BY <1>2, <1>3, <3>1 DEF Running, Request
    <3> QED BY <3>2, <3>3
  <2> QED BY <2>1, <2>2
<1>9. \A s \in Requests : req'[s] = IF s = r THEN q ELSE req[s]
  BY <1>8 DEF IInv, TypeOK
<1>10. TypeOK'
  BY <1>1, <1>4, <1>6, <1>7, <1>8 DEF IInv, TypeOK
<1>11. Alone'
  BY <1>1, <1>8, <1>9 DEF IInv, Alone, Item, Past
<1>12. ReqInv'
  <2> SUFFICES ASSUME NEW s \in Requests
               PROVE  Holds(req'[s], ask', receipt', effects', answers')
    BY DEF ReqInv
  <2>1. CASE s = r
    <3>1. "artifact" # None /\ "artifact" # "own"
      BY FlowAssumption
    <3> QED BY <1>1, <1>2, <1>3, <1>8, <1>9, <2>1, <3>1 DEF Holds, Past, Acting, Item
  <2>2. CASE s # r
    <3>1. Holds(req[s], ask, receipt, effects, answers)
      BY DEF IInv, ReqInv
    <3>2. Acting(req[s]) => Item(s) \in Interactions /\ Item(s) # i
      BY <1>1, <2>2, UnderWay DEF IInv, Alone, Past, Acting
    <3> QED BY <1>1, <1>5, <1>9, <2>2, <3>1, <3>2 DEF Holds, Item
  <2> QED BY <2>1, <2>2
<1>13. AskInv'
  BY <1>1, <1>3, <1>5 DEF IInv, AskInv
<1>14. ReceiptInv'
  BY <1>1 DEF IInv, ReceiptInv
<1> QED BY <1>7, <1>10, <1>11, <1>12, <1>13, <1>14 DEF IInv

LEMMA OfferStep ==
  ASSUME IInv, NEW r \in Requests, Offer(r)
  PROVE  IInv'
<1>1. /\ req[r].step = "offer"
      /\ Unused # {}
      /\ ask' = [ask EXCEPT ![NewId] = NextAsk(r)]
      /\ req' = [req EXCEPT ![r].step = "publish", ![r].card = NewId]
      /\ UNCHANGED <<log, receipt, resumed, plan, history>>
  BY DEF Offer
<1>2. req[r] \in Running /\ Holds(req[r], ask, receipt, effects, answers)
  BY <1>1, UnderWay
<1>3. NextAsk(r) \in Ask /\ NextAsk(r).status = "pending"
  BY <1>2 DEF NextAsk, Asked, Ask, Kinds, Running
<1>4. NewId \in Interactions /\ ask' \in [Interactions -> Ask] /\ Grows
  BY <1>1, <1>3, NewAsk DEF IInv
<1>5. /\ AskInv' /\ ReceiptInv' /\ ActivationInv'
      /\ \A p \in Request :
           Holds(p, ask, receipt, effects, answers) =>
             Holds(p, ask', receipt', effects', answers')
  BY <1>1, <1>4, AskStep
<1> DEFINE q == [req[r] EXCEPT !.step = "publish", !.card = NewId]
<1>6. /\ q \in Request /\ q.step = "publish" /\ q.card = NewId
      /\ q.item = req[r].item /\ q.action = req[r].action /\ q.key = req[r].key
  BY <1>2, <1>4, FlowAssumption DEF Running, Request, Cards
<1>7. req' = [req EXCEPT ![r] = q]
  BY <1>1, <1>2 DEF IInv, TypeOK
<1> HIDE DEF q
<1>8. \A s \in Requests : req'[s] = IF s = r THEN q ELSE req[s]
  BY <1>7 DEF IInv, TypeOK
<1>9. TypeOK'
  BY <1>1, <1>4, <1>6, <1>7 DEF IInv, TypeOK, history
<1>10. Alone'
  BY <1>1, <1>6, <1>8 DEF IInv, Alone, Item, Past
<1>11. ask[Item(r)].status = "resolved"
  BY <1>1, <1>2 DEF Holds, Past, Item
<1>12. Holds(q, ask, receipt, effects, answers)
  <2>1. NewId # None /\ NewId # "own"
    BY <1>4, FlowAssumption
  <2> QED BY <1>1, <1>2, <1>6, <1>11, <2>1 DEF Holds, Past, Acting, Item
<1>13. ReqInv'
  BY <1>5, <1>6, <1>8, <1>12 DEF IInv, TypeOK, ReqInv
<1> QED BY <1>5, <1>9, <1>10, <1>13 DEF IInv

\* The first answer for a key becomes its result.  A request that finds a
\* result there is not the first: another interaction has been answered under
\* its key.
LEMMA CompleteStep ==
  ASSUME IInv, NEW r \in Requests, Complete(r)
  PROVE  IInv'
<1> DEFINE i == Item(r)
           k == req[r].key
           card == req[r].card
           w == [item |-> i, card |-> card]
           c == Completed(k, card)
<1>1. /\ req[r].step = "complete"
      /\ receipt' = [receipt EXCEPT ![k] = c]
      /\ answers' = [answers EXCEPT ![k] = @ \cup {w}]
      /\ req' = [req EXCEPT ![r] = Idle]
      /\ UNCHANGED <<ask, log, resumed, plan, effects, activations>>
  BY DEF Complete
<1>2. /\ req[r] \in Running /\ k \in Keys /\ i \in Interactions
      /\ Holds(req[r], ask, receipt, effects, answers)
  BY <1>1, UnderWay
<1>3. /\ receipt[k].status \in {"pending", "completed"}
      /\ receipt[k].status = "completed" => \E b \in answers[k] : b.item # i
      /\ ask[i].status \in {"resolved", "cancelled"}
      /\ card \in Cards
  BY <1>1, <1>2, ReceiptFields DEF Holds, Past, Running, Item, IInv, TypeOK
<1>4. /\ c \in Receipt /\ c.status = "completed"
      /\ receipt[k].status = "pending" => c.result = card
      /\ receipt[k].status = "completed" => c = receipt[k]
  <2>1. receipt[k] \in Receipt /\ receipt[k].body \in Body
    BY <1>2, <1>3, ReceiptFields DEF IInv, TypeOK
  <2> QED BY <1>3, <2>1 DEF Completed, Receipt
<1>5. w \in [item : Interactions, card : Cards] /\ w.item = i /\ w.card = card
  BY <1>2, <1>3
<1> HIDE DEF c, w, i, k, card
<1>6. /\ \A l \in Keys : receipt'[l] = IF l = k THEN c ELSE receipt[l]
      /\ \A l \in Keys : answers'[l] = IF l = k THEN answers[l] \cup {w} ELSE answers[l]
      /\ \A s \in Requests : req'[s] = IF s = r THEN Idle ELSE req[s]
  BY <1>1 DEF IInv, TypeOK
<1>7. TypeOK'
  BY <1>1, <1>4, <1>5, IdleRequest DEF IInv, TypeOK
<1>8. ReqInv'
  <2> SUFFICES ASSUME NEW s \in Requests
               PROVE  Holds(req'[s], ask', receipt', effects', answers')
    BY DEF ReqInv
  <2>1. CASE s = r
    BY <1>6, <2>1, IdleRequest DEF Holds
  <2>2. CASE s # r
    <3> SUFFICES ASSUME req[s].step # "idle"
                 PROVE  Holds(req[s], ask, receipt', effects, answers')
      BY <1>1, <1>6, <2>2 DEF Holds
    <3>1. Holds(req[s], ask, receipt, effects, answers) /\ req[s].key \in Keys
      BY UnderWay
    <3>2. Past(req[s]) => req[s].item # i
      BY <1>1, <2>2 DEF IInv, Alone, Past, Item, i
    <3>3. CASE req[s].key = k
      <4>1. w \in answers'[k] /\ w.item = i /\ receipt'[k].status = "completed"
        BY <1>4, <1>5, <1>6, <3>1, <3>3
      <4> QED BY <3>1, <3>2, <3>3, <4>1 DEF Holds
    <3>4. CASE req[s].key # k
      BY <1>6, <3>1, <3>4 DEF Holds
    <3> QED BY <3>3, <3>4
  <2> QED BY <2>1, <2>2
<1>9. Alone'
  BY <1>6, IdleRequest DEF IInv, Alone, Item
<1>10. ReceiptInv'
  <2> SUFFICES ASSUME NEW l \in Keys
               PROVE  /\ receipt'[l].status = "completed" =>
                           \E b \in answers'[l] :
                             ask[b.item].status \notin {"absent", "pending"}
                      /\ receipt'[l].status # "completed" => answers'[l] = {}
                      /\ (\A a, b \in answers'[l] : a.item = b.item) =>
                           \A a \in answers'[l] : a.card = receipt'[l].result
    BY <1>1 DEF ReceiptInv
  <2>1. CASE l # k
    BY <1>6, <2>1 DEF IInv, ReceiptInv
  <2>2. CASE l = k
    <3>1. /\ receipt'[l] = c /\ c.status = "completed"
          /\ answers'[l] = answers[l] \cup {w}
      BY <1>4, <1>6, <2>2
    <3>2. ask[w.item].status \notin {"absent", "pending"}
      BY <1>3, <1>5
    <3>3. CASE receipt[k].status = "pending"
      <4>1. answers[l] = {} /\ c.result = card
        BY <1>4, <2>2, <3>3 DEF IInv, ReceiptInv
      <4> QED BY <1>5, <3>1, <3>2, <4>1
    <3>4. CASE receipt[k].status = "completed"
      <4>1. PICK b \in answers[l] : b.item # w.item
        BY <1>3, <1>5, <2>2, <3>4
      <4>2. ~ \A a, d \in answers'[l] : a.item = d.item
        BY <3>1, <4>1
      <4> QED BY <3>1, <3>2, <4>2
    <3> QED BY <1>3, <3>3, <3>4
  <2> QED BY <2>1, <2>2
<1>11. AskInv' /\ ActivationInv'
  BY <1>1 DEF IInv, AskInv, ActivationInv
<1> QED BY <1>7, <1>8, <1>9, <1>10, <1>11 DEF IInv

LEMMA NextInv == IInv /\ [Next]_vars => IInv'
<1>1. ASSUME IInv, Next PROVE IInv'
  BY <1>1, StartStep, AnnounceFirstStep, CloseStep, ReplayStep, BeginStep, RetryStep,
     DecideStep, ResumeStep, PublishStep, AppendEventStep, AppendRefusedStep,
     ReadFormStep, WriteStep, WriteFailsStep, OfferStep, SaveStep, CompleteStep,
     AgentReviseStep, CrashStep
  DEF Next
<1>2. ASSUME IInv, UNCHANGED vars PROVE IInv'
  BY <1>2 DEF vars, history, IInv, TypeOK, ReqInv, Alone, Item, AskInv, ReceiptInv,
              ActivationInv
<1> QED BY <1>1, <1>2

-----------------------------------------------------------------------------
(* The theorems.                                                           *)

\* The strengthened invariant holds in every reachable state.
THEOREM Invariance == Spec => []IInv
  BY InitInv, NextInv, PTL DEF Spec

\* Tables, memory and requests keep their types.
THEOREM TypeCorrect == Spec => []TypeOK
<1>1. IInv => TypeOK
  BY DEF IInv
<1> QED BY <1>1, Invariance, PTL

\* handle_resolved_interaction carries out an answer at most once, although
\* handlers repeat, race and are cut off, and although its resume receipt is
\* saved long after the fact: the compare-and-set of resolve is enough.
THEOREM ActsOnce == Spec => []ResumedOnce
<1>1. IInv => ResumedOnce
  BY DEF IInv, AskInv, ResumedOnce
<1> QED BY <1>1, Invariance, PTL

\* Neither a cancelled nor an expired interaction changes a plan, and every
\* activation goes back to a confirmed approval.
THEOREM AnswersAct == Spec => []OnlyAnswersAct
<1>1. IInv => OnlyAnswersAct
  BY DEF IInv, TypeOK, AskInv, ActivationInv, OnlyAnswersAct
<1> QED BY <1>1, Invariance, PTL

\* All the results ever returned for an idempotency key are one, whether by
\* the handler that computed it or from the receipt, when they were returned
\* for one interaction; begin does not see to that.
THEOREM OneResult == Spec => []RepliesAgree
<1>1. IInv => RepliesAgree
  BY DEF IInv, ReceiptInv, RepliesAgree
<1> QED BY <1>1, Invariance, PTL

-----------------------------------------------------------------------------
(* What the database promises: an interaction is decided once, a command   *)
(* has one result, and an answer leads to one card.                        *)

\* The rows of hitl_interactions: what was decided, and by which action.
Interaction == INSTANCE OneShot WITH
  Items    <- Interactions,
  Outcomes <- {a \in Ask : a.status \notin {"absent", "pending"}},
  Open     <- NoAsk,
  outcome  <- [i \in Interactions |->
                 IF ask[i].status = "pending" THEN NoAsk ELSE ask[i]]

\* The command receipts: the body that the key is bound to, and the result.
Command == INSTANCE OneShot WITH
  Items    <- Keys,
  Outcomes <- Receipt \ {NoReceipt},
  Open     <- NoReceipt,
  outcome  <- [k \in Keys |->
                 IF receipt[k].status = "pending" THEN NoReceipt ELSE receipt[k]]

\* The resume receipts: the card that the workflow answered with.
Resumption == INSTANCE OneShot WITH
  Items    <- Interactions,
  Outcomes <- Cards,
  Open     <- None,
  outcome  <- resumed

LEMMA RowsGrow ==
  ASSUME IInv, Next
  PROVE  Grows
<1>1. CASE Start
  <2>1. Asked("request", 1) \in Ask /\ Asked("request", 1).status = "pending"
    BY DEF Asked, Ask, Kinds
  <2>2. Unused # {}
    BY <1>1, FlowAssumption DEF Start
  <2> QED BY <1>1, <2>1, <2>2, NewAsk DEF IInv, Start
<1>2. ASSUME NEW i \in Interactions, NEW status \in {"expired", "cancelled"},
             Close(i, status)
      PROVE  Grows
  <2>1. ask[i].status = "pending" /\ ask' = [ask EXCEPT ![i].status = status]
    BY <1>2 DEF Close
  <2>2. [ask[i] EXCEPT !.status = status].status = status
    BY <2>1 DEF IInv, TypeOK, Ask, NoAsk
  <2> QED BY <2>1, <2>2 DEF IInv, TypeOK, Grows
<1>3. ASSUME NEW r \in Requests, Decide(r)
      PROVE  Grows
  <2>1. CASE UNCHANGED ask
    BY <2>1 DEF Grows
  <2> DEFINE i == Item(r)
             status == IF Action(r) = "cancel" THEN "cancelled" ELSE "resolved"
             a == [ask[i] EXCEPT !.status = status, !.action = Action(r)]
  <2>2. CASE /\ ask[i].status = "pending"
             /\ ask' = [ask EXCEPT ![i].status = status, ![i].action = Action(r)]
    <3>1. i \in Interactions
      BY <1>3, UnderWay DEF Decide
    <3>2. ask[i] \in Ask /\ ask[i] # NoAsk
      BY <2>2, <3>1 DEF IInv, TypeOK, NoAsk
    <3>3. a.status = status
      BY <3>2 DEF Ask
    <3>4. ask' = [ask EXCEPT ![i] = a]
      BY <2>2, <3>1 DEF IInv, TypeOK
    <3> HIDE DEF a, i
    <3> QED BY <2>2, <3>1, <3>3, <3>4 DEF IInv, TypeOK, Grows
  <2> QED BY <1>3, <2>1, <2>2 DEF Decide
<1>4. ASSUME NEW r \in Requests, Offer(r)
      PROVE  Grows
  <2>1. req[r] \in Running
    BY <1>4, UnderWay DEF Offer
  <2>2. NextAsk(r) \in Ask /\ NextAsk(r).status = "pending"
    BY <2>1 DEF NextAsk, Asked, Ask, Kinds, Running
  <2> QED BY <1>4, <2>2, NewAsk DEF IInv, Offer
<1>5. CASE UNCHANGED ask
  BY <1>5 DEF Grows
<1> QED BY <1>1, <1>2, <1>3, <1>4, <1>5
    DEF Next, AnnounceFirst, Replay, Begin, Retry, Resume, Publish, AppendEvent,
        AppendRefused, ReadForm, Write, WriteFails, Save, Complete, AgentRevise, Crash

\* A completed receipt is not written again, and no resume receipt is.
LEMMA ReceiptsKept ==
  ASSUME IInv, Next
  PROVE  /\ \A k \in Keys : receipt[k].status = "completed" => receipt'[k] = receipt[k]
         /\ \A i \in Interactions : resumed[i] # None => resumed'[i] = resumed[i]
<1>1. ASSUME NEW r \in Requests, NEW k \in Keys, Begin(r, k)
      PROVE  /\ UNCHANGED resumed
             /\ \A l \in Keys : receipt[l].status = "completed" => receipt'[l] = receipt[l]
  <2>1. receipt[k].status # "completed"
    BY <1>1 DEF Begin, NoReceipt
  <2>2. \A l \in Keys \ {k} : receipt'[l] = receipt[l]
    BY <1>1 DEF Begin, IInv, TypeOK
  <2> QED BY <1>1, <2>1, <2>2 DEF Begin
<1>2. ASSUME NEW r \in Requests, Complete(r)
      PROVE  /\ UNCHANGED resumed
             /\ \A l \in Keys : receipt[l].status = "completed" => receipt'[l] = receipt[l]
  BY <1>2 DEF Complete, Completed, IInv, TypeOK
<1>3. ASSUME NEW r \in Requests, Save(r)
      PROVE  /\ UNCHANGED receipt
             /\ \A i \in Interactions : resumed[i] # None => resumed'[i] = resumed[i]
  BY <1>3 DEF Save, IInv, TypeOK
<1>4. CASE UNCHANGED <<receipt, resumed>>
  BY <1>4
<1> QED BY <1>1, <1>2, <1>3, <1>4
    DEF Next, Start, AnnounceFirst, Close, Replay, Retry, Decide, Resume, Publish,
        AppendEvent, AppendRefused, ReadForm, Write, WriteFails, Offer, AgentRevise, Crash

\* The tables implement OneShot, each of them: whatever is clicked twice,
\* retried, cancelled meanwhile or cut off by a crash, a decision stands with
\* the action that made it, a command keeps its body and its first result,
\* and an answer the first card it led to.
THEOREM Implementation == Spec => Interaction!Spec /\ Command!Spec /\ Resumption!Spec
<1>1. Init => Interaction!Init /\ Command!Init /\ Resumption!Init
  BY DEF Init, Interaction!Init, Command!Init, Resumption!Init, NoAsk, NoReceipt
<1> DEFINE decision == [i \in Interactions |->
                          IF ask[i].status = "pending" THEN NoAsk ELSE ask[i]]
           result == [k \in Keys |->
                        IF receipt[k].status = "pending" THEN NoReceipt ELSE receipt[k]]
<1>2. IInv /\ [Next]_vars => [Interaction!Next]_decision
  <2> SUFFICES ASSUME IInv, Next PROVE Interaction!Next
    BY DEF vars
  <2> DEFINE Decisions == {a \in Ask : a.status \notin {"absent", "pending"}}
  <2>1. \A i \in Interactions :
          /\ decision'[i] \in Decisions \cup {NoAsk}
          /\ decision[i] # NoAsk => decision'[i] = decision[i]
    <3> TAKE i \in Interactions
    <3>1. ask[i] \in Ask /\ ask'[i] \in Ask
      BY NextInv DEF IInv, TypeOK
    <3>2. NoAsk.status = "absent"
      BY DEF NoAsk
    <3> QED BY <3>1, <3>2, RowsGrow, AskFields DEF Grows
  <2>2. decision' \in [Interactions -> Decisions \cup {NoAsk}]
    BY <2>1
  <2> QED BY <2>1, <2>2 DEF Interaction!Next
<1>3. IInv /\ [Next]_vars => [Command!Next]_result
  <2> SUFFICES ASSUME IInv, Next PROVE Command!Next
    BY DEF vars
  <2>1. \A k \in Keys :
          /\ result'[k] \in (Receipt \ {NoReceipt}) \cup {NoReceipt}
          /\ result[k] # NoReceipt => result'[k] = result[k]
    <3> TAKE k \in Keys
    <3>1. receipt[k] \in Receipt /\ receipt'[k] \in Receipt
      BY NextInv DEF IInv, TypeOK
    <3>2. receipt[k].status \in {"absent", "pending", "completed"}
          /\ (receipt[k] # NoReceipt <=> receipt[k].status # "absent")
      BY <3>1, ReceiptFields
    <3> QED BY <3>1, <3>2, ReceiptsKept
  <2>2. result' \in [Keys -> (Receipt \ {NoReceipt}) \cup {NoReceipt}]
    BY <2>1
  <2> QED BY <2>1, <2>2 DEF Command!Next
<1>4. IInv /\ [Next]_vars => [Resumption!Next]_resumed
  <2> SUFFICES ASSUME IInv, Next PROVE Resumption!Next
    BY DEF vars
  <2> QED BY NextInv, ReceiptsKept DEF IInv, TypeOK, Resumption!Next
<1> QED BY <1>1, <1>2, <1>3, <1>4, Invariance, PTL
    DEF Spec, Interaction!Spec, Command!Spec, Resumption!Spec

--------------------------------------------------------------------------
(***************************************************************************)
(* The chain from the draft to its activation.  The workflow activates the *)
(* plan as it finds it and not the draft that was approved; as long as     *)
(* nothing but the conversation itself writes the draft, the two are the   *)
(* same, with crashes and any number of competing requests.                *)
(*                                                                         *)
(* The argument: a conversation has one turn.  Either an interaction is    *)
(* open or one request is between its decision and the next interaction,   *)
(* and whoever has the turn is about the current draft.                    *)
(***************************************************************************)

\* The request r has the turn: it has decided an interaction and has not led
\* to a card yet.
Turn(r) == Past(req[r]) /\ req[r].card = None

TurnInv ==
  /\ \A i, j \in Interactions :
       (ask[i].status = "pending" /\ ask[j].status = "pending") => i = j
  /\ \A r, s \in Requests : (Turn(r) /\ Turn(s)) => r = s
  /\ \A r \in Requests, i \in Interactions : Turn(r) => ask[i].status # "pending"

\* The plan p is the draft with that version, unless a restart has lost it.
IsDraft(p, version) == p # NoPlan => p.status = "draft" /\ p.version = version

DraftInv ==
  /\ \A i \in Interactions :
       (ask[i].status = "pending" /\ ask[i].kind # "request") =>
         IsDraft(plan, ask[i].subject)
  /\ \A r \in Requests :
       /\ (Turn(r) /\ req[r].step # "offer" /\ Kind(r) # "request") =>
            IsDraft(plan, ask[Item(r)].subject)
       /\ (Turn(r) /\ req[r].step = "offer") => IsDraft(plan, req[r].base)

CInv == TurnInv /\ DraftInv /\ ApprovedIsActivated

-----------------------------------------------------------------------------

\* Steps that leave the turn where it is, or end it.
LEMMA QuietStep ==
  ASSUME CInv, UNCHANGED <<ask, plan, activations>>,
         \A s \in Requests :
           \/ req'[s] = req[s]
           \/ ~Turn(s)'
           \/ /\ Turn(s) /\ req[s].step # "offer" /\ req'[s].step # "offer"
              /\ req'[s].item = req[s].item
  PROVE  CInv'
<1>1. \A s \in Requests : Turn(s)' => Turn(s)
  BY DEF Turn
<1>2. TurnInv'
  BY <1>1 DEF CInv, TurnInv
<1>3. DraftInv'
  <2> SUFFICES ASSUME NEW s \in Requests, Turn(s)'
               PROVE  /\ (req'[s].step # "offer" /\ Kind(s)' # "request") =>
                            IsDraft(plan, ask[req'[s].item].subject)
                      /\ req'[s].step = "offer" => IsDraft(plan, req'[s].base)
    BY DEF CInv, DraftInv, Item, IsDraft
  <2> QED BY <1>1 DEF CInv, DraftInv, Item, Kind, Turn
<1>4. ApprovedIsActivated'
  BY DEF CInv, ApprovedIsActivated
<1> QED BY <1>2, <1>3, <1>4 DEF CInv

\* A handler ends.
LEMMA GiveUpChain ==
  ASSUME IInv, CInv, NEW r \in Requests, GiveUp(r), UNCHANGED <<ask, plan, activations>>
  PROVE  CInv'
<1>1. \A s \in Requests : req'[s] = req[s] \/ ~Turn(s)'
  BY IdleRequest DEF GiveUp, Turn, IInv, TypeOK
<1> QED BY <1>1, QuietStep

\* A handler with the turn goes on and keeps it, or ends it.
LEMMA GoOnChain ==
  ASSUME IInv, CInv, NEW r \in Requests, NEW q,
         req' = [req EXCEPT ![r] = q],
         \/ ~Past(q) \/ q.card # None
         \/ /\ Turn(r) /\ req[r].step # "offer" /\ q.step # "offer"
            /\ q.item = req[r].item,
         UNCHANGED <<ask, plan, activations>>
  PROVE  CInv'
<1>1. \A s \in Requests : req'[s] = IF s = r THEN q ELSE req[s]
  BY DEF IInv, TypeOK
<1> QED BY <1>1, QuietStep DEF Turn

LEMMA InitChain == Init => CInv
<1> SUFFICES ASSUME Init PROVE CInv
  OBVIOUS
<1>1. /\ \A i \in Interactions : ask[i].status = "absent"
      /\ \A r \in Requests : req[r].step = "idle"
  BY DEF Init, NoAsk, Idle
<1>2. TurnInv /\ DraftInv
  BY <1>1 DEF TurnInv, Turn, Past, DraftInv
<1>3. ApprovedIsActivated
  BY DEF Init, ApprovedIsActivated
<1> QED BY <1>2, <1>3 DEF CInv

\* Nobody has the turn before the conversation begins.
LEMMA StartChain ==
  ASSUME IInv, CInv, Start
  PROVE  CInv'
<1> DEFINE a == Asked("request", 1)
<1>1. Unused = Interactions /\ ask' = [ask EXCEPT ![NewId] = a]
  BY DEF Start
<1>2. \A i \in Interactions : ask[i].status = "absent"
  BY <1>1 DEF Unused, NoAsk
<1>3. NewId \in Interactions
  BY <1>1, FlowAssumption DEF NewId
<1>4. a.kind = "request" /\ a.status = "pending"
  BY DEF Asked
<1>5. \A i \in Interactions : ask'[i] = IF i = NewId THEN a ELSE ask[i]
  BY <1>1 DEF IInv, TypeOK
<1>6. \A r \in Requests : req'[r].step = "idle"
  BY <1>2, UnderWay DEF Start, Holds, Item
<1>7. TurnInv'
  BY <1>2, <1>5, <1>6 DEF TurnInv, Turn, Past
<1>8. DraftInv'
  BY <1>2, <1>4, <1>5, <1>6 DEF DraftInv, Turn, Past
<1>9. ApprovedIsActivated'
  <2>1. activations = {}
    BY <1>2 DEF IInv, TypeOK, ActivationInv
  <2> QED BY <2>1 DEF Start, history, ApprovedIsActivated
<1> QED BY <1>7, <1>8, <1>9 DEF CInv

LEMMA CloseChain ==
  ASSUME IInv, CInv, NEW i \in Interactions, NEW status \in {"expired", "cancelled"},
         Close(i, status)
  PROVE  CInv'
<1>1. /\ ask[i].status = "pending"
      /\ ask' = [ask EXCEPT ![i].status = status]
      /\ UNCHANGED <<plan, req, activations>>
  BY DEF Close, history
<1>2. ask[i] \in Ask /\ ask[i] # NoAsk
  BY <1>1 DEF IInv, TypeOK, NoAsk
<1>3. \A j \in Interactions :
        /\ j # i => ask'[j] = ask[j]
        /\ ask'[i].status = status
        /\ ask'[j].kind = ask[j].kind /\ ask'[j].subject = ask[j].subject
  BY <1>1, <1>2 DEF IInv, TypeOK, Ask
<1>4. TurnInv'
  BY <1>1, <1>3 DEF CInv, TurnInv, Turn
<1>5. DraftInv'
  <2>1. \A r \in Requests : Turn(r) => Item(r) \in Interactions
    BY UnderWay DEF Turn, Past
  <2> QED BY <1>1, <1>3, <2>1 DEF CInv, DraftInv, Turn, Item, Kind
<1>6. ApprovedIsActivated'
  BY <1>1, <1>3 DEF CInv, IInv, TypeOK, ApprovedIsActivated
<1> QED BY <1>4, <1>5, <1>6 DEF CInv

LEMMA CrashChain ==
  ASSUME CInv, Crash
  PROVE  CInv'
<1>1. /\ \A r \in Requests : req'[r].step = "idle"
      /\ plan' = NoPlan
      /\ UNCHANGED <<ask, activations>>
  BY DEF Crash, Idle, history
<1>2. TurnInv' /\ DraftInv'
  BY <1>1 DEF CInv, TurnInv, Turn, Past, DraftInv, IsDraft
<1> QED BY <1>1, <1>2 DEF CInv, ApprovedIsActivated

\* Announcements change neither the plan nor the chain.
LEMMA AnnounceFirstChain ==
  ASSUME CInv, AnnounceFirst
  PROVE  CInv'
  BY QuietStep DEF AnnounceFirst, history

\* Deciding the open interaction takes over its turn.
LEMMA DecideChain ==
  ASSUME IInv, CInv, NEW r \in Requests, Decide(r)
  PROVE  CInv'
<1> DEFINE i == Item(r)
<1>1. CASE ask[i].status # "pending"
  BY <1>1, GiveUpChain DEF Decide, history
<1>2. CASE ask[i].status = "pending"
  <2>1. req[r].step = "decide" /\ UNCHANGED <<plan, activations>>
    BY <1>2 DEF Decide, history
  <2>2. req[r] \in Running /\ i \in Interactions
    BY <2>1, UnderWay
  <2>3. ask[i] \in Ask /\ ask[i] # NoAsk
    BY <1>2, <2>2 DEF IInv, TypeOK, NoAsk
  <2>4. \A j \in Interactions :
          /\ j # i => ask'[j] = ask[j]
          /\ ask'[i].status # "pending"
          /\ ask'[j].kind = ask[j].kind /\ ask'[j].subject = ask[j].subject
    BY <1>2, <2>2, <2>3 DEF Decide, IInv, TypeOK, Ask
  <2>5. \A s \in Requests :
          /\ s # r => req'[s] = req[s]
          /\ req'[r].step = "resume" /\ req'[r].item = i
    BY <1>2, <2>2 DEF Decide, Running, Item, IInv, TypeOK
  <2>6. \A s \in Requests : ~Turn(s)
    BY <1>2, <2>2 DEF CInv, TurnInv
  <2>7. TurnInv'
    BY <1>2, <2>2, <2>4, <2>5, <2>6 DEF CInv, TurnInv, Turn
  <2>8. DraftInv'
    <3>1. ask[i].kind # "request" => IsDraft(plan, ask[i].subject)
      BY <1>2, <2>2 DEF CInv, DraftInv
    <3>2. \A j \in Interactions : ask'[j].status # "pending"
      BY <1>2, <2>2, <2>4 DEF CInv, TurnInv
    <3>3. \A s \in Requests : Turn(s)' => s = r
      BY <2>5, <2>6 DEF Turn
    <3> QED BY <2>1, <2>2, <2>4, <2>5, <3>1, <3>2, <3>3 DEF DraftInv, IsDraft, Item, Kind
  <2>9. ApprovedIsActivated'
    BY <2>1, <2>4 DEF CInv, IInv, TypeOK, ApprovedIsActivated
  <2> QED BY <2>7, <2>8, <2>9 DEF CInv
<1> QED BY <1>1, <1>2

\* The plan that is written, or activated, is the draft the turn is about.
LEMMA WriteChain ==
  ASSUME IInv, CInv, NEW r \in Requests, Write(r)
  PROVE  CInv'
<1> DEFINE i == Item(r)
<1>1. /\ req[r].step = "write"
      /\ Writable(r)
      /\ plan' = [ version |-> plan.version + 1,
                   status |-> IF Confirms(r) THEN "active" ELSE "draft" ]
      /\ UNCHANGED ask
  BY DEF Write
<1>2. req[r] \in Running /\ i \in Interactions /\ Turn(r)
  BY <1>1, UnderWay DEF Holds, Turn, Past
<1>3. /\ \A s \in Requests : Turn(s) => s = r
      /\ \A j \in Interactions : ask[j].status # "pending"
  BY <1>2 DEF CInv, TurnInv
<1>4. \A s \in Requests :
        /\ s # r => req'[s] = req[s]
        /\ Confirms(r) => req'[r].card = "artifact"
        /\ ~Confirms(r) => req'[r].step = "offer" /\ req'[r].base = plan.version + 1
  BY <1>2 DEF Write, Running, IInv, TypeOK
<1>5. TurnInv'
  BY <1>1, <1>3, <1>4 DEF TurnInv, Turn
<1>6. DraftInv'
  <2>1. "artifact" # None
    BY FlowAssumption
  <2>2. \A s \in Requests : Turn(s)' => s = r /\ ~Confirms(r)
    BY <1>3, <1>4, <2>1 DEF Turn
  <2> QED BY <1>1, <1>3, <1>4, <2>2 DEF DraftInv, IsDraft
<1>7. ApprovedIsActivated'
  <2>1. CASE Confirms(r)
    <3>1. activations' = activations \cup {[by |-> i, draft |-> plan.version]}
      BY <2>1 DEF Write
    <3>2. plan.status = "draft" /\ plan # NoPlan
      BY <1>1, <2>1 DEF Writable, Confirms, NoPlan
    <3>3. plan.version = ask[i].subject
      BY <1>1, <1>2, <2>1, <3>2 DEF CInv, DraftInv, IsDraft, Confirms
    <3> QED BY <1>1, <3>1, <3>3 DEF CInv, ApprovedIsActivated
  <2>2. CASE ~Confirms(r)
    BY <1>1, <2>2 DEF Write, CInv, ApprovedIsActivated
  <2> QED BY <2>1, <2>2
<1> QED BY <1>5, <1>6, <1>7 DEF CInv

\* The next interaction takes the turn, about the draft just written.
LEMMA OfferChain ==
  ASSUME IInv, CInv, NEW r \in Requests, Offer(r)
  PROVE  CInv'
<1> DEFINE n == NewId
<1>1. /\ req[r].step = "offer"
      /\ Unused # {}
      /\ ask' = [ask EXCEPT ![n] = NextAsk(r)]
      /\ req' = [req EXCEPT ![r].step = "publish", ![r].card = n]
      /\ UNCHANGED <<plan, activations>>
  BY DEF Offer, history
<1>2. n \in Interactions /\ ask[n].status = "absent"
  <2>1. n \in Unused
    BY <1>1 DEF NewId
  <2> QED BY <2>1 DEF Unused, NoAsk
<1>3. req[r] \in Running /\ Turn(r)
  BY <1>1, UnderWay DEF Holds, Turn, Past
<1> HIDE DEF n
<1>4. /\ \A s \in Requests : Turn(s) => s = r
      /\ \A j \in Interactions : ask[j].status # "pending"
  BY <1>3 DEF CInv, TurnInv
<1>5. \A s \in Requests : s # r => req'[s] = req[s]
  BY <1>1 DEF IInv, TypeOK
<1>6. req'[r].card = n /\ n # None
  BY <1>1, <1>2, <1>3, FlowAssumption DEF Running, IInv, TypeOK
<1>7. \A j \in Interactions : ask'[j] = IF j = n THEN NextAsk(r) ELSE ask[j]
  BY <1>1 DEF IInv, TypeOK
<1>8. NextAsk(r).subject = req[r].base
  BY DEF NextAsk, Asked
<1>9. TurnInv'
  BY <1>4, <1>5, <1>6, <1>7 DEF TurnInv, Turn
<1>10. DraftInv'
  <2>1. IsDraft(plan, req[r].base)
    BY <1>1, <1>3 DEF CInv, DraftInv
  <2>2. \A s \in Requests : ~Turn(s)'
    BY <1>4, <1>5, <1>6 DEF Turn
  <2>3. \A j \in Interactions : ask'[j].status = "pending" => ask'[j].subject = req[r].base
    BY <1>4, <1>7, <1>8
  <2> QED BY <1>1, <2>1, <2>2, <2>3 DEF DraftInv, IsDraft
<1>11. ApprovedIsActivated'
  <2>1. \A a \in activations : a.by \in Interactions /\ ask[a.by].status = "resolved"
    BY DEF IInv, TypeOK, ActivationInv
  <2> QED BY <1>1, <1>2, <1>7, <2>1 DEF CInv, ApprovedIsActivated
<1> QED BY <1>9, <1>10, <1>11 DEF CInv

\* The steps from the decision to the change, and those after the card.
LEMMA ResumeChain ==
  ASSUME IInv, CInv, NEW r \in Requests, Resume(r)
  PROVE  CInv'
<1>1. req[r].step = "resume" /\ UNCHANGED <<ask, plan, activations>>
  BY DEF Resume, history
<1>2. req[r] \in Running /\ Item(r) \in Interactions /\ Turn(r)
  BY <1>1, UnderWay DEF Holds, Turn, Past
<1>3. CASE GiveUp(r)
  BY <1>1, <1>3, GiveUpChain
<1>4. CASE req' = [req EXCEPT ![r].step = "complete", ![r].card = Replayed(Item(r))]
  <2>1. Replayed(Item(r)) # None
    BY FlowAssumption DEF Replayed
  <2> QED BY <1>1, <1>2, <1>4, <2>1, GoOnChain DEF Running, IInv, TypeOK
<1>5. CASE req' = [req EXCEPT ![r].step = "publish", ![r].base = plan.version]
  <2> DEFINE q == [req[r] EXCEPT !.step = "publish", !.base = plan.version]
  <2>1. q.step = "publish" /\ q.item = req[r].item
    BY <1>2 DEF Running
  <2>2. req' = [req EXCEPT ![r] = q]
    BY <1>2, <1>5 DEF IInv, TypeOK
  <2> HIDE DEF q
  <2> QED BY <1>1, <1>2, <2>1, <2>2, GoOnChain
<1> QED BY <1>3, <1>4, <1>5 DEF Resume

LEMMA PublishChain ==
  ASSUME IInv, CInv, NEW r \in Requests, Publish(r)
  PROVE  CInv'
<1> DEFINE q == [req[r] EXCEPT !.step = "append", !.previous = log]
<1>1. req[r].step = "publish" /\ UNCHANGED <<ask, plan, activations>>
  BY DEF Publish, history
<1>2. req[r] \in Running
  BY <1>1, UnderWay
<1>3. q.step = "append" /\ q.item = req[r].item /\ q.card = req[r].card
  BY <1>2 DEF Running
<1>4. req' = [req EXCEPT ![r] = q]
  BY <1>2 DEF Publish, IInv, TypeOK
<1> HIDE DEF q
<1> QED BY <1>1, <1>3, <1>4, GoOnChain DEF Turn, Past

LEMMA AppendEventChain ==
  ASSUME IInv, CInv, NEW r \in Requests, AppendEvent(r)
  PROVE  CInv'
<1> DEFINE q == Continued(r)
<1>1. /\ req[r].step = "append"
      /\ req' = [req EXCEPT ![r] = q]
      /\ UNCHANGED <<ask, plan, activations>>
  BY DEF AppendEvent, history
<1>2. req[r] \in Running
  BY <1>1, UnderWay
<1>3. /\ q.step # "offer" /\ q.item = req[r].item
      /\ q.card = None => req[r].card = None
  BY <1>2, FlowAssumption DEF Continued, Running
<1> HIDE DEF q
<1> QED BY <1>1, <1>3, GoOnChain DEF Turn, Past

LEMMA ReadFormChain ==
  ASSUME IInv, CInv, NEW r \in Requests, ReadForm(r)
  PROVE  CInv'
<1>1. req[r].step = "read" /\ UNCHANGED <<ask, plan, activations>>
  BY DEF ReadForm, history
<1>2. req[r] \in Running /\ Turn(r)
  BY <1>1, UnderWay DEF Holds, Turn, Past
<1>3. CASE Unusable(r)
  BY <1>1, <1>3, GiveUpChain DEF ReadForm
<1>4. CASE ~Unusable(r)
  <2> DEFINE q == [req[r] EXCEPT !.step = "write", !.base = plan.version]
  <2>1. q.step = "write" /\ q.item = req[r].item
    BY <1>2 DEF Running
  <2>2. req' = [req EXCEPT ![r] = q]
    BY <1>2, <1>4 DEF ReadForm, IInv, TypeOK
  <2> HIDE DEF q
  <2> QED BY <1>1, <1>2, <2>1, <2>2, GoOnChain
<1> QED BY <1>3, <1>4

LEMMA SaveChain ==
  ASSUME IInv, CInv, NEW r \in Requests, Save(r)
  PROVE  CInv'
<1> DEFINE q == [req[r] EXCEPT !.step = "complete"]
<1>1. req[r].step = "save" /\ UNCHANGED <<ask, plan, activations>>
  BY DEF Save, history
<1>2. req[r] \in Running /\ req[r].card # None
  BY <1>1, UnderWay DEF Holds
<1>3. q.card # None
  BY <1>2 DEF Running
<1>4. req' = [req EXCEPT ![r] = q]
  BY <1>2 DEF Save, IInv, TypeOK
<1> HIDE DEF q
<1> QED BY <1>1, <1>3, <1>4, GoOnChain

LEMMA OtherChain ==
  ASSUME IInv, CInv, NEW r \in Requests, NEW k \in Keys,
         \/ Begin(r, k) \/ Retry(r, k)
         \/ AppendRefused(r) \/ WriteFails(r) \/ Complete(r)
  PROVE  CInv'
<1>1. CASE AppendRefused(r) \/ WriteFails(r) \/ Complete(r)
  BY <1>1, GiveUpChain DEF AppendRefused, WriteFails, Complete, GiveUp, history
<1>2. CASE Begin(r, k) \/ Retry(r, k)
  <2>1. PICK i, action : req' = [req EXCEPT ![r] = Received(k, i, action)]
    BY <1>2 DEF Begin, Retry
  <2>2. ~Past(Received(k, i, action))
    BY DEF Received, Past
  <2> QED BY <1>2, <2>1, <2>2, GoOnChain DEF Begin, Retry, history
<1> QED BY <1>1, <1>2

LEMMA NextChain ==
  ASSUME ~AgentDrafts
  PROVE  IInv /\ CInv /\ [Next]_vars => CInv'
<1>1. ASSUME IInv, CInv, Next PROVE CInv'
  <2>1. ~AgentRevise
    BY DEF AgentRevise
  <2>2. CASE \E k \in Keys : Replay(k)
    BY <1>1, <2>2, QuietStep DEF Replay
  <2>3. CASE \E r \in Requests : AppendRefused(r) \/ WriteFails(r) \/ Complete(r)
    <3>1. PICK r \in Requests : AppendRefused(r) \/ WriteFails(r) \/ Complete(r)
      BY <2>3
    <3>2. req[r].key \in Keys
      BY <1>1, <3>1, UnderWay DEF AppendRefused, WriteFails, Complete
    <3> QED BY <1>1, <3>1, <3>2, OtherChain
  <2> QED BY <1>1, <2>1, <2>2, <2>3, StartChain, AnnounceFirstChain, CloseChain,
             CrashChain, DecideChain, ResumeChain, PublishChain, AppendEventChain,
             ReadFormChain, WriteChain, OfferChain, SaveChain, OtherChain
      DEF Next
<1>2. ASSUME CInv, UNCHANGED vars PROVE CInv'
  BY <1>2, QuietStep DEF vars, history
<1> QED BY <1>1, <1>2

-----------------------------------------------------------------------------
(* The theorems.                                                           *)

\* When the conversation is the only writer of its draft, no two of its
\* interactions are open, and an open approval shows the current draft.
THEOREM OpenApprovalIsCurrent ==
  ASSUME ~AgentDrafts
  PROVE  Spec => []ApprovalCurrent
<1>1. IInv /\ CInv => ApprovalCurrent
  BY DEF CInv, TurnInv, DraftInv, IsDraft, ApprovalCurrent
<1> QED BY <1>1, InitInv, InitChain, NextInv, NextChain, PTL DEF Spec

\* When the conversation is the only writer of its draft, the draft that
\* becomes active is the one whose approval was confirmed, although activate
\* is not told which one that was.
THEOREM ApprovedDraftIsActivated ==
  ASSUME ~AgentDrafts
  PROVE  Spec => []ApprovedIsActivated
<1>1. CInv => ApprovedIsActivated
  BY DEF CInv
<1> QED BY <1>1, InitInv, InitChain, NextInv, NextChain, PTL DEF Spec
=============================================================================
