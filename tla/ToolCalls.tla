----------------------------- MODULE ToolCalls ------------------------------
(* Calls of the agents' tools through DefaultToolGateway: policy, identity   *)
(* and schema are checked without an await; then the tool hands the call to  *)
(* its service, which has one effect per key of its owner, and what it       *)
(* returns is checked against the output schema.  The service may fail, or   *)
(* time out, before or after the effect, and the caller may call again.      *)
EXTENDS Naturals, Sequences, FiniteSets

CONSTANTS
  Owners,          \* authenticated principals
  ToolKeys,        \* idempotency keys
  ToolCallers,     \* tasks that call a tool
  ToolRequests,    \* the requests they make, of ToolRequest
  MaxToolEffects,  \* bound
  NoOwner, NoKey, NoRequest

VARIABLES
  toolCalls,   \* by caller: its request and how far it is
  ledgers,     \* what the services keep under a key of an owner
  toolEffects  \* history: the effects, in order
toolVars == <<toolCalls, ledgers, toolEffects>>

(* What the gateway reads of a manifest.  "ledger" names the receipts of the *)
(* service behind the tool; a tool without one only reads, except the one    *)
(* that freezes a universe and makes a new one on every call.                *)
Manifest(write, hitl, keyed, identity, ledger) ==
  [write |-> write, hitl |-> hitl, keyed |-> keyed, identity |-> identity, ledger |-> ledger]
Read(identity) == Manifest(FALSE, FALSE, FALSE, identity, "none")

CreatePlanDraftTool == Manifest(TRUE, FALSE, TRUE, {"owner"}, "drafts")
TransitionPlanTool == Manifest(TRUE, TRUE, TRUE, {"owner", "actor"}, "transitions")
RecordPlanningReviewTool == Manifest(TRUE, TRUE, TRUE, {"owner", "actor"}, "reviews")
CreateReminderTool == Manifest(TRUE, FALSE, TRUE, {"owner"}, "reminders")
SetReminderStatusTool == Manifest(TRUE, TRUE, TRUE, {"owner", "actor"}, "reminders")
GetReminderTool == Read({"owner"})
PublishStrategyTool == Manifest(TRUE, TRUE, TRUE, {"actor"}, "strategies")
ValidateWatchlistImportTool == Read({})
ApproveWatchlistImportTool == Manifest(TRUE, TRUE, TRUE, {"owner"}, "imports")
AcceptClassificationSuggestionTool == Manifest(TRUE, TRUE, TRUE, {"owner"}, "groups")
FreezeUniverseTool == Manifest(TRUE, FALSE, FALSE, {"owner"}, "none")
SubmitScanTool == Manifest(TRUE, TRUE, TRUE, {"owner"}, "scans")
GetPredictionTool == Read({"owner"})
GetQuantitativeSnapshotTool == Read({"owner"})
GetScanStatusTool == Read({"owner"})
ListScanResultsTool == Read({"owner"})
ResolveSecurityTool == Read({"owner"})
ResearchSecurityTool == Read({"owner"})
ResearchThemeTool == Read({"owner"})

ToolRegistry ==
  [create_plan_draft |-> CreatePlanDraftTool, transition_plan |-> TransitionPlanTool,
   record_review |-> RecordPlanningReviewTool, create_reminder |-> CreateReminderTool,
   set_status |-> SetReminderStatusTool, get_reminder |-> GetReminderTool,
   publish |-> PublishStrategyTool, validate_import |-> ValidateWatchlistImportTool,
   approve_import |-> ApproveWatchlistImportTool,
   accept_classification |-> AcceptClassificationSuggestionTool,
   freeze_universe |-> FreezeUniverseTool, submit_scan |-> SubmitScanTool,
   get_prediction |-> GetPredictionTool, get_snapshot |-> GetQuantitativeSnapshotTool,
   get_scan_status |-> GetScanStatusTool, list_scan_results |-> ListScanResultsTool,
   resolve_security |-> ResolveSecurityTool, research_security |-> ResearchSecurityTool,
   research_theme |-> ResearchThemeTool]
Tools == DOMAIN ToolRegistry

(* allowed_tool_ids of the agents' manifests.                                *)
PlanningTools == {"create_plan_draft", "transition_plan", "record_review",
                  "create_reminder", "set_status", "get_reminder"}
StrategyTools == {"publish", "submit_scan", "get_scan_status", "list_scan_results",
                  "freeze_universe"}
ResearchTools == {"resolve_security", "research_security", "research_theme",
                  "get_prediction", "get_snapshot"}
Allowlists == [planning |-> PlanningTools, strategy |-> StrategyTools,
               research |-> ResearchTools, supervisor |-> {}]

(* "user" is who the context of the call authenticates, "claimed" the owner  *)
(* or actor its arguments name, "approval" whether it refers to an approval, *)
(* and "approved" what its arguments say, where they say it.                 *)
ToolRequest == [tool : Tools \cup {"unknown"}, agent : DOMAIN Allowlists,
                user : Owners \cup {NoOwner}, claimed : Owners \cup {NoOwner},
                key : ToolKeys \cup {NoKey}, approval : BOOLEAN, approved : BOOLEAN,
                content : {"a", "b", "malformed"}]
ToolErrorCode == {"unknown_tool", "forbidden", "idempotency_key_required", "hitl_required",
                  "invalid_input", "invalid_output", "timeout", "tool_error", "internal_error"}

ASSUME ToolCallsAssumption ==
  /\ ToolRequests \subseteq ToolRequest
  /\ MaxToolEffects \in Nat /\ NoOwner \notin Owners /\ NoKey \notin ToolKeys
  /\ NoRequest \notin ToolRequests

Receipt == [tool : Tools, content : {"a", "b"}]
Ledger == {"drafts", "transitions", "reviews", "reminders", "strategies", "imports",
           "groups", "scans"}
ToolCall == [at : {"idle", "handling", "handled", "over"}, request : ToolRequests \cup {NoRequest},
             outcome : {"none", "success", "raised"} \cup ToolErrorCode]

ToolCallsTypeOK ==
  /\ toolCalls \in [ToolCallers -> ToolCall]
  /\ DOMAIN ledgers \subseteq Ledger \X (Owners \cup {NoOwner}) \X ToolKeys
  /\ \A k \in DOMAIN ledgers : ledgers[k] \in Receipt
  /\ Len(toolEffects) <= MaxToolEffects

ToolCallsInit ==
  /\ toolCalls = [c \in ToolCallers |->
       [at |-> "idle", request |-> NoRequest, outcome |-> "none"]]
  /\ ledgers = [k \in {} |-> NoKey]
  /\ toolEffects = <<>>

(* ManifestToolPolicy.                                                       *)
Denied(r) == LET manifest == ToolRegistry[r.tool] IN
  CASE r.tool \notin Allowlists[r.agent] -> "forbidden"
    [] r.tool \in Allowlists[r.agent] /\ manifest.keyed /\ r.key = NoKey ->
         "idempotency_key_required"
    [] r.tool \in Allowlists[r.agent] /\ ~(manifest.keyed /\ r.key = NoKey)
         /\ manifest.hitl /\ ~r.approval -> "hitl_required"
    [] OTHER -> "none"

\* Variant of Bound that believes the arguments.
BoundAsClaimed(r) == IF r.claimed = NoOwner THEN {r.user} ELSE {r.claimed}

(* bind_trusted_identity: whom the tool acts for, nobody if it is refused.   *)
(* The arguments may not name anybody but the user.  Without a context a     *)
(* tool of an owner is refused, and one that only has an actor keeps the     *)
(* actor its arguments name.                                                 *)
Bound(r) ==
  IF r.user = NoOwner
  THEN IF "owner" \in ToolRegistry[r.tool].identity THEN {} ELSE {r.claimed}
  ELSE IF r.claimed \in {r.user, NoOwner} THEN {r.user} ELSE {}

(* A field the tool does not know, or a required one that is missing, is not *)
(* valid; the validator knows no "const", so "approved" may be false.        *)
Valid(r) ==
  /\ r.content # "malformed"
  /\ IF ToolRegistry[r.tool].identity = {} THEN r.claimed = NoOwner ELSE NoOwner \notin Bound(r)

Refusal(r) ==
  IF r.tool \notin Tools THEN "unknown_tool"
  ELSE IF Denied(r) # "none" THEN Denied(r)
  ELSE IF Bound(r) = {} THEN "forbidden"
  ELSE IF ~Valid(r) THEN "invalid_input" ELSE "none"

ToolEnds(c, outcome) ==
  toolCalls' = [toolCalls EXCEPT ![c].at = "over", ![c].outcome = outcome]

(* The gateway's checks, up to the call of the tool.  A caller that was told *)
(* nothing of its call's effect may make the same call again.                *)
InvokeTool(c, r) ==
  /\ \/ toolCalls[c].at = "idle"
     \/ /\ toolCalls[c].at = "over" /\ toolCalls[c].request = r
        /\ toolCalls[c].outcome \in {"timeout", "invalid_output", "raised"}
  /\ toolCalls' = [toolCalls EXCEPT ![c] =
       IF Refusal(r) = "none" THEN [at |-> "handling", request |-> r, outcome |-> "none"]
       ELSE [at |-> "over", request |-> r, outcome |-> Refusal(r)]]
  /\ UNCHANGED <<ledgers, toolEffects>>

ToolEffect(r, who) ==
  /\ Len(toolEffects) < MaxToolEffects
  /\ toolEffects' = Append(toolEffects, [request |-> r, who |-> who])

(* The services behind these look at "approved", of an activation in the     *)
(* first case; the approval itself is enough for the others.                 *)
LooksAtApproved(r) == r.tool \in {"transition_plan", "set_status", "publish", "approve_import"}
Disapproved(r) == LooksAtApproved(r) /\ ~r.approved

(* A service knows its keys by owner; the reminders' repository knows a key  *)
(* whoever used it, and then returns the rule it saved, whatever is asked.   *)
OfReminders(r) == ToolRegistry[r.tool].ledger = "reminders"
LedgerKey(r, who) ==
  <<ToolRegistry[r.tool].ledger, IF OfReminders(r) THEN NoOwner ELSE who, r.key>>
ReceiptOf(r) == [tool |-> r.tool, content |-> r.content]
Repeats(r, receipt) == OfReminders(r) \/ receipt = ReceiptOf(r)

(* The services refuse what is not approved, look the key up, return what it *)
(* did before, and refuse other content under it.  set_status to the status  *)
(* that the reminder has writes nothing, and keeps no receipt.               *)
HandleTool(c) ==
  LET r == toolCalls[c].request
      manifest == ToolRegistry[r.tool]
      who == CHOOSE o \in Bound(r) : TRUE
      k == LedgerKey(r, who)
  IN
  /\ toolCalls[c].at = "handling"
  /\ \/ /\ manifest.write => r.tool = "set_status" /\ ~Disapproved(r)
        /\ toolCalls' = [toolCalls EXCEPT ![c].at = "handled"]
        /\ UNCHANGED <<ledgers, toolEffects>>
     \/ manifest.write /\ ~manifest.keyed
        /\ ToolEffect(r, who)
        /\ toolCalls' = [toolCalls EXCEPT ![c].at = "handled"]
        /\ UNCHANGED ledgers
     \/ manifest.keyed /\ Disapproved(r)
        /\ ToolEnds(c, "raised")
        /\ UNCHANGED <<ledgers, toolEffects>>
     \/ manifest.keyed /\ ~Disapproved(r) /\ k \notin DOMAIN ledgers
        /\ ToolEffect(r, who)
        /\ ledgers' = [l \in DOMAIN ledgers \cup {k} |->
             IF l = k THEN ReceiptOf(r) ELSE ledgers[l]]
        /\ toolCalls' = [toolCalls EXCEPT ![c].at = "handled"]
     \/ manifest.keyed /\ ~Disapproved(r) /\ k \in DOMAIN ledgers
        /\ \/ Repeats(r, ledgers[k])
              /\ toolCalls' = [toolCalls EXCEPT ![c].at = "handled"]
           \/ ~Repeats(r, ledgers[k])
              /\ \E code \in {"invalid_input", "internal_error"} : ToolEnds(c, code)
        /\ UNCHANGED <<ledgers, toolEffects>>

(* What the tool raises is told as an error; a permission or lookup error is *)
(* not caught, and goes to the caller as it is.                              *)
ToolRaises(c) ==
  /\ toolCalls[c].at \in {"handling", "handled"}
  /\ \E outcome \in {"timeout", "tool_error", "invalid_input", "internal_error", "raised"} :
       ToolEnds(c, outcome)
  /\ UNCHANGED <<ledgers, toolEffects>>

ReturnResult(c) ==
  /\ toolCalls[c].at = "handled"
  /\ \E outcome \in {"success", "invalid_output"} : ToolEnds(c, outcome)
  /\ UNCHANGED <<ledgers, toolEffects>>

ToolCallsNext == \E c \in ToolCallers :
  \/ \E r \in ToolRequests : InvokeTool(c, r)
  \/ HandleTool(c) \/ ToolRaises(c) \/ ReturnResult(c)

ToolCallsSpec == ToolCallsInit /\ [][ToolCallsNext]_toolVars

(* Whatever agents ask for, and however often they ask again after a timeout *)
(* or an output that was refused: a write is of an agent that has the tool,  *)
(* in the name of the user the call authenticates and of nobody else, once   *)
(* per key of that user, and approved where the tool asks for approval; and  *)
(* a caller that is told of success finds its own write made.  Of a reminder *)
(* it finds what was written first under its key, which may be another's;    *)
(* a set_status may have found the status set.                               *)
WrittenAsAuthorised(e) == LET manifest == ToolRegistry[e.request.tool] IN
  /\ e.request.tool \in Allowlists[e.request.agent]
  /\ e.request.user # NoOwner => e.who = e.request.user
  /\ "owner" \in manifest.identity => e.request.user # NoOwner
  /\ manifest.hitl => e.request.approval /\ ~Disapproved(e.request)

SameWrite(e, f) ==
  /\ ToolRegistry[e.request.tool].keyed
  /\ e.request.key = f.request.key /\ e.who = f.who
  /\ ToolRegistry[e.request.tool].ledger = ToolRegistry[f.request.tool].ledger

WroteFor(e, r) ==
  /\ e.request.key = r.key
  /\ IF OfReminders(r)
     THEN OfReminders(e.request)
     ELSE e.request.tool = r.tool /\ e.request.content = r.content /\ e.who \in Bound(r)

WritesAuthorised ==
  /\ \A i \in DOMAIN toolEffects : WrittenAsAuthorised(toolEffects[i])
  /\ \A i, j \in DOMAIN toolEffects : SameWrite(toolEffects[i], toolEffects[j]) => i = j
  /\ \A c \in ToolCallers :
       toolCalls[c].outcome = "success" /\ ToolRegistry[toolCalls[c].request.tool].write =>
         LET r == toolCalls[c].request IN
         r.tool # "set_status" => \E i \in DOMAIN toolEffects : WroteFor(toolEffects[i], r)
=============================================================================
