------------------------------- MODULE Plans -------------------------------
(* The planning capability: PlanningService keeps every version of every     *)
(* trading plan, the reviews, and a receipt per command, all in memory and   *)
(* each command under one lock.  Its callers, the tools and the workflows,   *)
(* build a command from the plan as they read it; by the time it is          *)
(* delivered, perhaps twice, the plan may have moved on.  A plan name stands *)
(* for an (owner, plan id) pair and a key for an (owner, key) pair: every    *)
(* table of the service is keyed by the owner.                               *)
EXTENDS Naturals, Sequences, FiniteSets

CONSTANTS
  PlanNames, PlanKeys, ReviewIds,
  Contents,       \* what a plan says: [security, filled, text]
  PlanMaxVersion, \* bound: versions of one plan
  PlanMaxSent,    \* bound: commands callers build
  PlanMaxBoots,   \* bound: restarts of the process
  NoReceipt

VARIABLES
  planVersions,  \* _plans: the versions of each plan, oldest first
  planReviews,   \* _reviews
  planReceipts,  \* the three command tables: what each key did
  planSent,      \* commands built by callers; each may arrive any time, again
  planBoots
planVars == <<planVersions, planReviews, planReceipts, planSent, planBoots>>

PlanStatus == {"draft", "active", "triggered", "cancelled", "expired", "reviewed"}

AllowedTransitions == [s \in PlanStatus |->
  CASE s = "draft"     -> {"active", "cancelled", "expired"}
    [] s = "active"    -> {"triggered", "cancelled", "expired", "reviewed"}
    [] s = "triggered" -> {"cancelled", "expired", "reviewed"}
    [] s = "reviewed"  -> {}
    [] OTHER           -> {"reviewed"}]

TradingPlan == [version : 1..PlanMaxVersion, status : PlanStatus,
                content : Contents, supersedes : 0..PlanMaxVersion]

(* What the tools and the workflows may ask.  expected = 0 asks for a new    *)
(* plan.  `entitled` is the whole permission check: the actor is the owner,  *)
(* an interaction id is there and, to activate, `approved` is true.          *)
DraftCommand == [kind : {"draft"}, key : PlanKeys, plan : PlanNames,
                 expected : 0..PlanMaxVersion, content : Contents]
ActivateCommand == [kind : {"activate"}, key : PlanKeys, plan : PlanNames,
                    expected : 1..PlanMaxVersion, content : Contents,
                    entitled : BOOLEAN]
MoveCommand == [kind : {"move"}, key : PlanKeys, plan : PlanNames,
                expected : 1..PlanMaxVersion, entitled : BOOLEAN,
                target : PlanStatus \ {"draft", "active"}]
ReviewCommand == [kind : {"review"}, key : PlanKeys, plan : PlanNames,
                  expected : 1..PlanMaxVersion, entitled : BOOLEAN,
                  id : ReviewIds, subject : {"plan", "scan_result"}]
PlanCommand == DraftCommand \cup ActivateCommand \cup MoveCommand \cup ReviewCommand

PlanReceipt == [command : PlanCommand, plan : PlanNames, version : 0..PlanMaxVersion]

ASSUME PlansAssumption ==
  /\ PlanMaxVersion \in Nat \ {0} /\ PlanMaxBoots \in Nat
  /\ NoReceipt \notin PlanReceipt \cup ReviewCommand

(* Activations and other moves share one table.                              *)
CommandTable == {"draft", "transition", "review"}
TableOf(c) == IF c.kind \in {"activate", "move"} THEN "transition" ELSE c.kind

PlansTypeOK ==
  /\ planVersions \in [PlanNames -> Seq(TradingPlan)]
  /\ planReviews \in [ReviewIds -> {NoReceipt} \cup ReviewCommand]
  /\ planReceipts \in [CommandTable \X PlanKeys ->
       {NoReceipt} \cup PlanReceipt]
  /\ planSent \in SUBSET PlanCommand
  /\ planBoots \in 0..PlanMaxBoots

Exists(p) == planVersions[p] # <<>>
Current(p) == planVersions[p][Len(planVersions[p])]

(* An unknown key runs the command; a known one returns the stored result    *)
(* for the same request and is a conflict for another one.  Both leave the   *)
(* state alone, as every refusal does.                                       *)
FirstUse(c) == planReceipts[<<TableOf(c), c.key>>] = NoReceipt

EmptyService ==
  <<[p \in PlanNames |-> <<>>], [r \in ReviewIds |-> NoReceipt],
    [t \in CommandTable \X PlanKeys |-> NoReceipt]>>

PlansInit ==
  /\ planVersions = EmptyService[1]
  /\ planReviews = EmptyService[2]
  /\ planReceipts = EmptyService[3]
  /\ planSent = {}
  /\ planBoots = 0

(* A caller builds a command from the plan it has just read.                 *)
Build(c) ==
  /\ Cardinality(planSent) < PlanMaxSent
  /\ planSent' = planSent \cup {c}
  /\ UNCHANGED <<planVersions, planReviews, planReceipts, planBoots>>

BuildDraft(k, p) == \E content \in Contents :
  Build([kind |-> "draft", key |-> k, plan |-> p, content |-> content,
         expected |-> IF Exists(p) THEN Current(p).version ELSE 0])

(* The card shows the current draft; its hash is over version and content.   *)
BuildActivate(k, p) == Exists(p) /\ \E entitled \in BOOLEAN :
  Build([kind |-> "activate", key |-> k, plan |-> p, entitled |-> entitled,
         expected |-> Current(p).version, content |-> Current(p).content])

BuildMove(k, p) == Exists(p) /\ \E target \in PlanStatus \ {"draft", "active"} :
  Build([kind |-> "move", key |-> k, plan |-> p, entitled |-> TRUE,
         expected |-> Current(p).version, target |-> target])

BuildReview(k, p) == Exists(p) /\ \E r \in ReviewIds, s \in {"plan", "scan_result"} :
  Build([kind |-> "review", key |-> k, plan |-> p, entitled |-> TRUE,
         expected |-> Current(p).version, id |-> r, subject |-> s])

(* Appending the version a command makes, and its receipt.                   *)
AppendVersion(p, v) == planVersions' = [planVersions EXCEPT ![p] = Append(@, v)]
KeepReceipt(c, n) == planReceipts' = [planReceipts EXCEPT ![<<TableOf(c), c.key>>] =
  [command |-> c, plan |-> c.plan, version |-> n]]

(* transition_plan: the next version, in its new status.                     *)
MayMove(plan, target) ==
  /\ target \in AllowedTransitions[plan.status]
  /\ target = "active" => plan.content.filled
Moved(plan, target) ==
  [plan EXCEPT !.version = @ + 1, !.status = target, !.supersedes = plan.version]

Room(p) == Len(planVersions[p]) < PlanMaxVersion

CreateDraft(c) ==
  /\ c.kind = "draft" /\ c.expected = 0 /\ FirstUse(c)
  /\ ~Exists(c.plan)
  /\ AppendVersion(c.plan,
       [version |-> 1, status |-> "draft", content |-> c.content, supersedes |-> 0])
  /\ KeepReceipt(c, 1)
  /\ UNCHANGED <<planReviews, planSent, planBoots>>

\* Variant of Fits that does not compare the versions.
FitsAnyVersion(c) == Exists(c.plan)

(* The command is about the current version, of the plan as it now is.       *)
Fits(c) == Exists(c.plan) /\ c.expected = Current(c.plan).version

\* Variant of ReviseDraft that keeps no receipt.
ReviseDraftUnrecorded(c) ==
  /\ c.kind = "draft" /\ c.expected # 0 /\ FirstUse(c) /\ Room(c.plan)
  /\ Fits(c)
  /\ Current(c.plan).status = "draft"
  /\ c.content.security = Current(c.plan).content.security
  /\ AppendVersion(c.plan, [Moved(Current(c.plan), "draft") EXCEPT !.content = c.content])
  /\ UNCHANGED <<planReviews, planReceipts, planSent, planBoots>>

ReviseDraft(c) ==
  /\ c.kind = "draft" /\ c.expected # 0 /\ FirstUse(c) /\ Room(c.plan)
  /\ Fits(c)
  /\ Current(c.plan).status = "draft"
  /\ c.content.security = Current(c.plan).content.security
  /\ AppendVersion(c.plan, [Moved(Current(c.plan), "draft") EXCEPT !.content = c.content])
  /\ KeepReceipt(c, c.expected + 1)
  /\ UNCHANGED <<planReviews, planSent, planBoots>>

\* Variant of ApprovedHash that trusts the version number.
ApprovedVersion(c) == TRUE

(* The approved hash is compared with the hash of the current version.       *)
ApprovedHash(c) == c.content = Current(c.plan).content

Activate(c) ==
  /\ c.kind = "activate" /\ c.entitled /\ FirstUse(c) /\ Room(c.plan)
  /\ Fits(c) /\ ApprovedHash(c)
  /\ MayMove(Current(c.plan), "active")
  /\ AppendVersion(c.plan, Moved(Current(c.plan), "active"))
  /\ KeepReceipt(c, c.expected + 1)
  /\ UNCHANGED <<planReviews, planSent, planBoots>>

Transition(c) ==
  /\ c.kind = "move" /\ c.entitled /\ FirstUse(c) /\ Room(c.plan)
  /\ Fits(c)
  /\ MayMove(Current(c.plan), c.target)
  /\ AppendVersion(c.plan, Moved(Current(c.plan), c.target))
  /\ KeepReceipt(c, c.expected + 1)
  /\ UNCHANGED <<planReviews, planSent, planBoots>>

(* A plan's review and the plan's reviewed version are written together;     *)
(* the review of a scan result leaves the plans alone (receipt version 0).   *)
RecordReview(c) ==
  /\ c.kind = "review" /\ c.entitled /\ FirstUse(c)
  /\ planReviews[c.id] = NoReceipt
  /\ planReviews' = [planReviews EXCEPT ![c.id] = c]
  /\ IF c.subject = "plan"
     THEN /\ Fits(c) /\ Room(c.plan)
          /\ MayMove(Current(c.plan), "reviewed")
          /\ AppendVersion(c.plan, Moved(Current(c.plan), "reviewed"))
          /\ KeepReceipt(c, c.expected + 1)
     ELSE /\ KeepReceipt(c, 0)
          /\ UNCHANGED planVersions
  /\ UNCHANGED <<planSent, planBoots>>

(* The process ends: the plans, the reviews and the receipts go with it; a   *)
(* command already on its way, or the approval of a card, does not.          *)
PlansRestart ==
  /\ planBoots < PlanMaxBoots
  /\ planBoots' = planBoots + 1
  /\ planVersions' = EmptyService[1]
  /\ planReviews' = EmptyService[2]
  /\ planReceipts' = EmptyService[3]
  /\ UNCHANGED planSent

PlansNext ==
  \/ \E k \in PlanKeys, p \in PlanNames :
       BuildDraft(k, p) \/ BuildActivate(k, p) \/ BuildMove(k, p) \/ BuildReview(k, p)
  \/ \E c \in planSent :
       CreateDraft(c) \/ ReviseDraft(c) \/ Activate(c) \/ Transition(c) \/ RecordReview(c)
  \/ PlansRestart

PlansSpec == PlansInit /\ [][PlansNext]_planVars

--------------------------------------------------------------------------
(* Whatever is delivered again, late or with another command's key, each     *)
(* version of a plan is what exactly one receipt says it is: no command has  *)
(* an effect twice, none is replayed as what another one did, and none of    *)
(* its results has since been rewritten.                                     *)
MadeBy(p, v) == {t \in DOMAIN planReceipts :
  /\ planReceipts[t] # NoReceipt
  /\ planReceipts[t].plan = p
  /\ planReceipts[t].version = v}
OneCommandPerVersion == \A p \in PlanNames :
  /\ \A v \in 1..Len(planVersions[p]) :
       /\ planVersions[p][v].version = v
       /\ Cardinality(MadeBy(p, v)) = 1
  /\ \A v \in 1..PlanMaxVersion : v > Len(planVersions[p]) => MadeBy(p, v) = {}

(* A plan is only ever active with the very content an entitled approval was *)
(* given for, and complete, even when the process restarted in between and   *)
(* the plan was drafted anew under the same version number.                  *)
ActivatedAsApproved == \A p \in PlanNames : \A v \in 1..Len(planVersions[p]) :
  planVersions[p][v].status = "active" =>
    /\ planVersions[p][v].content.filled
    /\ \E c \in planSent :
         /\ c.kind = "activate" /\ c.plan = p /\ c.entitled /\ c.expected = v - 1
         /\ c.content = planVersions[p][v].content

(* A plan's review is of the version the reviewed one replaced, that version *)
(* is the plan's last, and the plan has no other review.                     *)
ReviewsAgree == \A r \in ReviewIds :
  (planReviews[r] # NoReceipt /\ planReviews[r].subject = "plan") =>
    LET c == planReviews[r] IN
      /\ Len(planVersions[c.plan]) = c.expected + 1
      /\ Current(c.plan).status = "reviewed"
      /\ \A q \in ReviewIds \ {r} : planReviews[q] # NoReceipt =>
           ~(planReviews[q].subject = "plan" /\ planReviews[q].plan = c.plan)
==========================================================================
