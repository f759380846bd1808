------------------------------ MODULE Reminders ------------------------------
(* Reminder rules, the commands that create, enable and disable them, and    *)
(* the worker that watches the active ones: it lists them, awaits an         *)
(* observation for each, records a trigger when the observation crosses the  *)
(* rule's condition, and delivers it within an attempt budget.  The code has *)
(* one await per observation and per delivery; between two awaits it runs    *)
(* undisturbed, so a step below is what happens from one await to the next.  *)
EXTENDS Integers, Sequences, FiniteSets

CONSTANTS
  Reminders, ReminderKeys, Runs,
  Cooldown,        \* of every rule
  ReviewAt,        \* scheduled_at of a scheduled review
  DeliveryBudget,  \* max_attempts of the delivery policy
  MaxClock,        \* bound: the last time an observation can be made
  MaxRuleVersion,  \* bound: versions of one rule
  NoRule

VARIABLES
  rules,        \* the repository: the current version of each rule
  ruleKeys,     \* and what each idempotency key saved
  lastSeen,     \* the last observation saved for each rule version
  triggers,     \* trigger records, by identity
  provided,     \* the notification provider: deliveries it accepted
  reminderRuns, \* overlapping run_once calls
  clock,
  lost          \* history: triggers whose run ended before it updated them
reminderVars == <<rules, ruleKeys, lastSeen, triggers, provided,
                  reminderRuns, clock, lost>>

RuleType == {"price_threshold", "scheduled_review", "invalidation"}
ReminderStatus == {"draft", "active", "disabled"}
ReminderRule == [id : Reminders, version : 1..MaxRuleVersion,
                 status : ReminderStatus, type : RuleType]

(* What is compared is which side of the threshold a price is on, or whether *)
(* the invalidating condition holds; "bad" is a value of the wrong type.     *)
Level == {"before", "beyond", "bad"}
Observation == [at : 1..MaxClock, level : Level]

(* A trigger's identity is hashed from the rule, its version and the         *)
(* observation's reference and time.                                         *)
TriggerId == [id : Reminders, version : 1..MaxRuleVersion, at : 1..MaxClock]
Delivery == [status : {"pending", "delivered", "failed"}, attempts : 0..DeliveryBudget]

(* A run of the worker: the rules it has still to look at, the rule it holds *)
(* as it was when it was listed, and the delivery it is making.              *)
Run == [todo : SUBSET ReminderRule, rule : ReminderRule \cup {NoRule},
        trigger : TriggerId \cup {NoRule}, attempts : 0..DeliveryBudget]
IdleRun == [todo |-> {}, rule |-> NoRule, trigger |-> NoRule, attempts |-> 0]

\* The delivery policy has an attempt to make, and no cooldown is negative.
ASSUME RemindersAssumption ==
  /\ Cooldown \in Nat
  /\ DeliveryBudget \in Nat \ {0} /\ MaxClock \in Nat \ {0} /\ MaxRuleVersion \in Nat \ {0}
  /\ NoRule \notin ReminderRule \cup TriggerId

RemindersTypeOK ==
  /\ rules \in [Reminders -> ReminderRule \cup {NoRule}]
  /\ ruleKeys \in [ReminderKeys -> ReminderRule \cup {NoRule}]
  /\ lastSeen \in [Reminders \X (1..MaxRuleVersion) -> Observation \cup {NoRule}]
  /\ DOMAIN triggers \subseteq TriggerId /\ \A t \in DOMAIN triggers : triggers[t] \in Delivery
  /\ provided \subseteq TriggerId
  /\ reminderRuns \in [Runs -> Run]
  /\ clock \in 1..MaxClock
  /\ lost \subseteq TriggerId

RemindersInit ==
  /\ rules = [r \in Reminders |-> NoRule]
  /\ ruleKeys = [k \in ReminderKeys |-> NoRule]
  /\ lastSeen = [v \in Reminders \X (1..MaxRuleVersion) |-> NoRule]
  /\ triggers = [t \in {} |-> NoRule]
  /\ provided = {}
  /\ reminderRuns = [r \in Runs |-> IdleRun]
  /\ clock = 1
  /\ lost = {}

ruleState == <<rules, ruleKeys>>
watchState == <<lastSeen, triggers, provided, reminderRuns, lost>>

(* save_rule of the repository: a known key returns what it saved before,    *)
(* another writer's version is a conflict; otherwise the rule is replaced.   *)
VersionOf(r) == IF rules[r] = NoRule THEN 0 ELSE rules[r].version
SaveRule(k, rule, expected) ==
  /\ ruleKeys[k] = NoRule
  /\ VersionOf(rule.id) = expected
  /\ rules' = [rules EXCEPT ![rule.id] = rule]
  /\ ruleKeys' = [ruleKeys EXCEPT ![k] = rule]

CreateReminder(k, r, type) ==
  /\ SaveRule(k, [id |-> r, version |-> 1, status |-> "draft", type |-> type], 0)
  /\ UNCHANGED clock /\ UNCHANGED watchState

(* An approved set_status; the status the rule is already in needs no write. *)
SetStatus(k, r, target) ==
  /\ rules[r] # NoRule
  /\ rules[r].status # target
  /\ rules[r].version < MaxRuleVersion
  /\ SaveRule(k, [rules[r] EXCEPT !.version = @ + 1, !.status = target], rules[r].version)
  /\ UNCHANGED clock /\ UNCHANGED watchState

--------------------------------------------------------------------------
(* run_once: the active rules, as they are now, one at a time.               *)
StartRun(w) ==
  /\ reminderRuns[w] = IdleRun
  /\ \E r \in Reminders : rules[r] # NoRule /\ rules[r].status = "active"
  /\ reminderRuns' = [reminderRuns EXCEPT ![w].todo =
       {rules[r] : r \in {q \in Reminders : rules[q] # NoRule /\ rules[q].status = "active"}}]
  /\ UNCHANGED <<lastSeen, triggers, provided, lost, clock>> /\ UNCHANGED ruleState

(* The next rule of the list is handed to the observation provider.          *)
AwaitObservation(w) == \E rule \in reminderRuns[w].todo :
  /\ reminderRuns[w].rule = NoRule
  /\ reminderRuns' = [reminderRuns EXCEPT ![w].rule = rule, ![w].todo = @ \ {rule}]
  /\ UNCHANGED <<lastSeen, triggers, provided, lost, clock>> /\ UNCHANGED ruleState

Previous(rule) == lastSeen[<<rule.id, rule.version>>]
TriggersOf(rule) == {t \in DOMAIN triggers : t.id = rule.id /\ t.version = rule.version}

\* Variant of Cooled that is an instant short.
CooledEarly(rule, o) == \A t \in TriggersOf(rule) : o.at + 1 >= t.at + Cooldown

(* Not within the cooldown of the latest trigger of this rule version.       *)
Cooled(rule, o) == \A t \in TriggersOf(rule) : o.at >= t.at + Cooldown

(* Reading a value of the wrong type raises; a price with no predecessor is  *)
(* not read at all, and a scheduled review never reads the value.            *)
Raises(rule, o) ==
  /\ Cooled(rule, o)
  /\ \/ rule.type = "price_threshold" /\ Previous(rule) # NoRule
        /\ "bad" \in {o.level, Previous(rule).level}
     \/ rule.type = "invalidation"
        /\ (o.level = "bad" \/ (Previous(rule) # NoRule /\ Previous(rule).level = "bad"))

ShouldTrigger(rule, o) ==
  /\ Cooled(rule, o)
  /\ CASE rule.type = "price_threshold" ->
            Previous(rule) # NoRule /\ Previous(rule).level = "before" /\ o.level = "beyond"
       [] rule.type = "invalidation" ->
            o.level = "beyond" /\ (Previous(rule) # NoRule => Previous(rule).level = "before")
       [] rule.type = "scheduled_review" ->
            TriggersOf(rule) = {} /\ o.at >= ReviewAt

NextRule(w) == reminderRuns' =
  [reminderRuns EXCEPT ![w].rule = NoRule, ![w].trigger = NoRule, ![w].attempts = 0]

(* The provider may answer that it has nothing fresh; a fresh observation is *)
(* of the time it was asked or, the answer having been slow, an earlier one. *)
(* The rule is the one that was listed: nothing rereads it after the await.  *)
StaleAnswer(w) ==
  /\ reminderRuns[w].rule # NoRule /\ reminderRuns[w].trigger = NoRule
  /\ NextRule(w)
  /\ UNCHANGED <<lastSeen, triggers, provided, lost, clock>> /\ UNCHANGED ruleState

BadAnswer(w, o) ==
  /\ reminderRuns[w].rule # NoRule /\ reminderRuns[w].trigger = NoRule
  /\ Raises(reminderRuns[w].rule, o)
  /\ reminderRuns' = [reminderRuns EXCEPT ![w] = IdleRun]
  /\ UNCHANGED <<lastSeen, triggers, provided, lost, clock>> /\ UNCHANGED ruleState

Observe(w, o) == LET rule == reminderRuns[w].rule IN
  /\ rule # NoRule /\ reminderRuns[w].trigger = NoRule
  /\ ~Raises(rule, o)
  /\ lastSeen' = [lastSeen EXCEPT ![<<rule.id, rule.version>>] = o]
  /\ LET t == [id |-> rule.id, version |-> rule.version, at |-> o.at] IN
       IF ShouldTrigger(rule, o) /\ t \notin DOMAIN triggers
       THEN /\ triggers' = [u \in DOMAIN triggers \cup {t} |->
                 IF u = t THEN [status |-> "pending", attempts |-> 0] ELSE triggers[u]]
            /\ reminderRuns' = [reminderRuns EXCEPT ![w].trigger = t]
       ELSE UNCHANGED triggers /\ NextRule(w)
  /\ UNCHANGED <<provided, lost, clock>> /\ UNCHANGED ruleState

\* Variant of Finished that does not update the trigger record.
FinishedUnrecorded(w, status, n) == UNCHANGED triggers /\ NextRule(w)

Finished(w, status, n) ==
  /\ triggers' = [triggers EXCEPT ![reminderRuns[w].trigger] = [status |-> status, attempts |-> n]]
  /\ NextRule(w)

\* Variant of Attempt that tries once more than the budget allows.
AttemptOverBudget(w) == LET run == reminderRuns[w] IN
  /\ run.trigger # NoRule
  /\ \/ /\ provided' = provided \cup {run.trigger}
        /\ Finished(w, "delivered", run.attempts + 1)
     \/ /\ run.attempts + 1 <= DeliveryBudget
        /\ reminderRuns' = [reminderRuns EXCEPT ![w].attempts = @ + 1]
        /\ UNCHANGED <<triggers, provided>>
     \/ /\ Finished(w, "failed", run.attempts + 1)
        /\ UNCHANGED provided
  /\ UNCHANGED <<lastSeen, lost, clock>> /\ UNCHANGED ruleState

(* One attempt.  The provider is idempotent by trigger identity; a failure   *)
(* it calls retryable is tried again within the budget, another one is not.  *)
Attempt(w) == LET run == reminderRuns[w] IN
  /\ run.trigger # NoRule
  /\ \/ /\ provided' = provided \cup {run.trigger}
        /\ Finished(w, "delivered", run.attempts + 1)
     \/ /\ run.attempts + 1 < DeliveryBudget
        /\ reminderRuns' = [reminderRuns EXCEPT ![w].attempts = @ + 1]
        /\ UNCHANGED <<triggers, provided>>
     \/ /\ Finished(w, "failed", run.attempts + 1)
        /\ UNCHANGED provided
  /\ UNCHANGED <<lastSeen, lost, clock>> /\ UNCHANGED ruleState

(* The process ends in the middle of a run, or the provider raises something *)
(* else than a delivery error, perhaps after it has accepted the delivery.   *)
(* The records survive; the run does not.                                    *)
RunDies(w) ==
  /\ reminderRuns[w] # IdleRun
  /\ LET held == {reminderRuns[w].trigger} \ {NoRule} IN
       /\ lost' = lost \cup held
       /\ provided' \in {provided, provided \cup held}
  /\ reminderRuns' = [reminderRuns EXCEPT ![w] = IdleRun]
  /\ UNCHANGED <<lastSeen, triggers, clock>> /\ UNCHANGED ruleState

TimePasses ==
  /\ clock < MaxClock
  /\ clock' = clock + 1
  /\ UNCHANGED ruleState /\ UNCHANGED watchState

Answers == {o \in Observation : o.at <= clock}

RemindersNext ==
  \/ \E k \in ReminderKeys, r \in Reminders :
       \/ \E type \in RuleType : CreateReminder(k, r, type)
       \/ \E target \in {"active", "disabled"} : SetStatus(k, r, target)
  \/ \E w \in Runs :
       \/ StartRun(w) \/ AwaitObservation(w) \/ StaleAnswer(w)
       \/ \E o \in Answers : BadAnswer(w, o) \/ Observe(w, o)
       \/ Attempt(w) \/ RunDies(w)
  \/ TimePasses

RemindersSpec == RemindersInit /\ [][RemindersNext]_reminderVars

--------------------------------------------------------------------------
(* Two triggers of one rule version are at least a cooldown apart, and a     *)
(* scheduled review fires once, even when two runs overlap, one of them was  *)
(* given an older observation than the other, or a run died in between.      *)
AlertsSpaced == \A t, u \in DOMAIN triggers :
  (t # u /\ t.id = u.id /\ t.version = u.version) =>
    /\ t.at - u.at >= Cooldown \/ u.at - t.at >= Cooldown
    /\ rules[t.id].type # "scheduled_review"

(* A trigger is delivered by the one run that recorded it, and it is pending *)
(* exactly as long as that run works on it, or for good if that run died.    *)
OneRunPerTrigger == \A t \in DOMAIN triggers :
  LET holders == {w \in Runs : reminderRuns[w].trigger = t} IN
    /\ Cardinality(holders) <= 1
    /\ triggers[t].status = "pending" <=> (holders # {} \/ t \in lost)
=============================================================================
