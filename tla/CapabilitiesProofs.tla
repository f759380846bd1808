-------------------------- MODULE CapabilitiesProofs --------------------------
(* Theorems about the capability services, which share no state: for each, a *)
(* section with its inductive invariant, a lemma per kind of step, and the   *)
(* theorems about the specification of that service.                         *)
EXTENDS Capabilities, FiniteSetTheorems, WellFoundedInduction, TLAPS

(*****************************************************************************)
(* Plans.tla                                                                 *)
(*****************************************************************************)
(* The version numbers count the versions, each of which one receipt says it *)
(* made, and no receipt says it made one that is not there.                  *)
Made(t, p, n) ==
  /\ planReceipts[t] # NoReceipt
  /\ planReceipts[t].plan = p /\ planReceipts[t].version = n
Tables == CommandTable \X PlanKeys
Numbered == \A p \in PlanNames :
  /\ Len(planVersions[p]) <= PlanMaxVersion
  /\ \A n \in 1..Len(planVersions[p]) : planVersions[p][n].version = n
MadeOnce == \A p \in PlanNames : \A n \in 1..Len(planVersions[p]) :
  \E t \in Tables : Made(t, p, n) /\ \A u \in Tables : Made(u, p, n) => u = t
NotAhead == \A t \in Tables : planReceipts[t] # NoReceipt =>
  planReceipts[t].version <= Len(planVersions[planReceipts[t].plan])
PlansInv == PlansTypeOK /\ Numbered /\ MadeOnce /\ NotAhead

(* What every command has, whatever its kind.                                *)
LEMMA Commands ==
  ASSUME NEW c \in PlanCommand
  PROVE  /\ c.plan \in PlanNames /\ c.key \in PlanKeys
         /\ <<TableOf(c), c.key>> \in Tables
         /\ c.expected \in 0..PlanMaxVersion
<1>1. /\ c.plan \in PlanNames /\ c.key \in PlanKeys /\ c.expected \in 0..PlanMaxVersion
      /\ c.kind \in {"draft", "activate", "move", "review"}
  BY PlansAssumption DEF PlanCommand, DraftCommand, ActivateCommand, MoveCommand, ReviewCommand
<1>2. TableOf(c) \in CommandTable
  BY <1>1 DEF TableOf, CommandTable
<1>3. QED
  BY <1>1, <1>2 DEF Tables

(* A command that appends the next version and keeps a receipt of it.        *)
Appends(c, v) ==
  /\ c \in planSent /\ FirstUse(c) /\ Room(c.plan)
  /\ v \in TradingPlan /\ v.version = Len(planVersions[c.plan]) + 1
  /\ AppendVersion(c.plan, v)
  /\ KeepReceipt(c, v.version)
  /\ planSent' = planSent /\ planBoots' = planBoots

(* A step that only appends a version and writes its receipt keeps the       *)
(* invariant, whatever the version is.                                       *)
LEMMA AppendsKeeps ==
  ASSUME PlansInv, NEW c, NEW v, Appends(c, v),
         planReviews' \in [ReviewIds -> {NoReceipt} \cup ReviewCommand]
  PROVE  PlansInv'
<1> DEFINE t0 == <<TableOf(c), c.key>>
           p0 == c.plan
           r0 == [command |-> c, plan |-> p0, version |-> v.version]
<1>1. c \in PlanCommand /\ p0 \in PlanNames /\ t0 \in Tables
  BY Commands DEF PlansInv, PlansTypeOK, Appends
<1>2. /\ planVersions \in [PlanNames -> Seq(TradingPlan)]
      /\ planReceipts \in [Tables -> {NoReceipt} \cup PlanReceipt]
      /\ v \in TradingPlan
      /\ \A p \in PlanNames : planVersions[p] \in Seq(TradingPlan) /\ Len(planVersions[p]) \in Nat
      /\ v.version = Len(planVersions[p0]) + 1
      /\ v.version \in 1..PlanMaxVersion
  <2>1. planVersions \in [PlanNames -> Seq(TradingPlan)]
    BY DEF PlansInv, PlansTypeOK
  <2>2. planReceipts \in [Tables -> {NoReceipt} \cup PlanReceipt]
    BY DEF PlansInv, PlansTypeOK, Tables
  <2>3. \A p \in PlanNames : planVersions[p] \in Seq(TradingPlan) /\ Len(planVersions[p]) \in Nat
    BY <2>1
  <2>4. v \in TradingPlan /\ v.version = Len(planVersions[p0]) + 1
    BY DEF Appends
  <2>5. v.version \in 1..PlanMaxVersion
    BY <2>4 DEF TradingPlan
  <2>6. QED
    BY <2>1, <2>2, <2>3, <2>4, <2>5
<1>3. /\ planVersions' = [planVersions EXCEPT ![p0] = Append(@, v)]
      /\ planReceipts' = [planReceipts EXCEPT ![t0] = r0]
  BY DEF Appends, AppendVersion, KeepReceipt
<1>4. r0 \in PlanReceipt /\ r0 # NoReceipt /\ planReceipts[t0] = NoReceipt
  <2>1. r0 \in PlanReceipt
    BY <1>1, <1>2, PlansAssumption DEF PlanReceipt
  <2>2. QED
    BY <2>1, PlansAssumption DEF Appends, FirstUse
<1>5. /\ planVersions' \in [PlanNames -> Seq(TradingPlan)]
      /\ Len(planVersions'[p0]) = v.version
      /\ planVersions'[p0][v.version] = v
      /\ \A n \in 1..Len(planVersions[p0]) : planVersions'[p0][n] = planVersions[p0][n]
      /\ \A p \in PlanNames : p # p0 => planVersions'[p] = planVersions[p]
  BY <1>1, <1>2, <1>3
<1>6. /\ planReceipts' \in [Tables -> {NoReceipt} \cup PlanReceipt]
      /\ planReceipts'[t0] = r0
      /\ \A t \in Tables : t # t0 => planReceipts'[t] = planReceipts[t]
  BY <1>1, <1>2, <1>3, <1>4
<1>7. PlansTypeOK'
  BY <1>5, <1>6 DEF PlansInv, PlansTypeOK, Tables, Appends
<1>8. Numbered'
  <2> SUFFICES ASSUME NEW p \in PlanNames
               PROVE /\ Len(planVersions'[p]) <= PlanMaxVersion
                     /\ \A n \in 1..Len(planVersions'[p]) : planVersions'[p][n].version = n
    BY DEF Numbered
  <2>1. CASE p # p0
    BY <2>1, <1>5 DEF PlansInv, Numbered
  <2>2. CASE p = p0
    <3>1. v.version <= PlanMaxVersion
      BY <1>2, PlansAssumption
    <3>2. ASSUME NEW n \in 1..v.version PROVE planVersions'[p0][n].version = n
      <4>1. CASE n = v.version
        BY <4>1, <1>5
      <4>2. CASE n \in 1..Len(planVersions[p0])
        BY <4>2, <1>1, <1>5 DEF PlansInv, Numbered
      <4>3. n = v.version \/ n \in 1..Len(planVersions[p0])
        BY <1>1, <1>2
      <4>4. QED
        BY <4>1, <4>2, <4>3
    <3>3. QED
      BY <2>2, <3>1, <3>2, <1>5
  <2>3. QED
    BY <2>1, <2>2
<1>9. ASSUME NEW t \in Tables, NEW p \in PlanNames, NEW n \in 1..PlanMaxVersion
      PROVE Made(t, p, n)' <=> (IF t = t0 THEN p = p0 /\ n = v.version ELSE Made(t, p, n))
  BY <1>4, <1>6 DEF Made
<1>10. ASSUME NEW t \in Tables PROVE ~Made(t, p0, v.version)
  BY <1>2 DEF PlansInv, NotAhead, Made
<1>11. MadeOnce'
  <2> SUFFICES ASSUME NEW p \in PlanNames, NEW n \in 1..Len(planVersions'[p])
               PROVE \E t \in Tables : Made(t, p, n)' /\ \A u \in Tables : Made(u, p, n)' => u = t
    BY DEF MadeOnce, Made
  <2>1. n \in 1..PlanMaxVersion
    BY <1>8, <1>5, PlansAssumption DEF Numbered
  <2>2. CASE p = p0 /\ n = v.version
    BY <2>1, <2>2, <1>1, <1>9, <1>10
  <2>3. CASE ~(p = p0 /\ n = v.version)
    <3>1. n \in 1..Len(planVersions[p])
      BY <2>3, <1>2, <1>5
    <3>2. PICK t \in Tables : Made(t, p, n) /\ \A u \in Tables : Made(u, p, n) => u = t
      BY <3>1 DEF PlansInv, MadeOnce
    <3>3. t # t0
      BY <3>2, <1>4 DEF Made
    <3>4. QED
      BY <2>1, <2>3, <3>2, <3>3, <1>9
  <2>4. QED
    BY <2>2, <2>3
<1>12. NotAhead'
  <2> SUFFICES ASSUME NEW t \in Tables, planReceipts'[t] # NoReceipt
               PROVE planReceipts'[t].version <= Len(planVersions'[planReceipts'[t].plan])
    BY DEF NotAhead
  <2>1. CASE t = t0
    BY <2>1, <1>2, <1>5, <1>6
  <2>2. CASE t # t0
    <3>1. planReceipts'[t] = planReceipts[t] /\ planReceipts[t] \in PlanReceipt
      BY <2>2, <1>2, <1>6
    <3>2. planReceipts[t].plan \in PlanNames /\ planReceipts[t].version \in 0..PlanMaxVersion
      BY <3>1 DEF PlanReceipt
    <3>3. planReceipts[t].version <= Len(planVersions[planReceipts[t].plan])
      BY <3>1 DEF PlansInv, NotAhead
    <3>4. Len(planVersions[planReceipts[t].plan]) <= Len(planVersions'[planReceipts[t].plan])
      <4>1. CASE planReceipts[t].plan = p0
        <5>1. Len(planVersions[p0]) <= Len(planVersions[p0]) + 1
          BY <1>1, <1>2
        <5>2. QED
          BY <4>1, <5>1, <1>2, <1>5
      <4>2. CASE planReceipts[t].plan # p0
        <5>1. planVersions'[planReceipts[t].plan] = planVersions[planReceipts[t].plan]
          BY <4>2, <3>2, <1>5
        <5>2. Len(planVersions[planReceipts[t].plan]) \in Nat
          BY <3>2, <1>2
        <5>3. QED
          BY <5>1, <5>2
      <4>3. QED
        BY <4>1, <4>2
    <3>5. /\ Len(planVersions[planReceipts[t].plan]) \in Nat
          /\ Len(planVersions'[planReceipts[t].plan]) \in Nat
          /\ planReceipts[t].version \in Nat
      BY <3>2, <1>2, <1>5, PlansAssumption
    <3>6. QED
      BY <3>1, <3>3, <3>4, <3>5
  <2>3. QED
    BY <2>1, <2>2
<1>13. QED
  BY <1>7, <1>8, <1>11, <1>12 DEF PlansInv

(* The version such a command appends is active only if it is the approval   *)
(* of just this content, and ends a plan's life with its review if it has    *)
(* one; a reviewed plan gets none.                                           *)
Advances(c, v) ==
  /\ Appends(c, v)
  /\ v.status = "active" =>
       /\ c.kind = "activate" /\ c.entitled /\ c.expected = v.version - 1
       /\ c.content = v.content /\ v.content.filled
  /\ Exists(c.plan) => Current(c.plan).status # "reviewed"
  /\ \/ planReviews' = planReviews
     \/ /\ c.kind = "review" /\ c.subject = "plan" /\ c \in ReviewCommand
        /\ planReviews' = [planReviews EXCEPT ![c.id] = c]
        /\ v.status = "reviewed" /\ v.version = c.expected + 1

(* The last version of a plan is numbered by how many there are.             *)
LEMMA CurrentVersion ==
  ASSUME PlansInv, NEW p \in PlanNames, Exists(p)
  PROVE  /\ Current(p) \in TradingPlan /\ Current(p).version = Len(planVersions[p])
         /\ Len(planVersions[p]) \in 1..PlanMaxVersion
<1>1. planVersions[p] \in Seq(TradingPlan) /\ Len(planVersions[p]) <= PlanMaxVersion
  BY DEF PlansInv, PlansTypeOK, Numbered
<1>2. Len(planVersions[p]) \in 1..PlanMaxVersion
  BY <1>1, PlansAssumption DEF Exists
<1>3. QED
  BY <1>1, <1>2 DEF PlansInv, Numbered, Current

(* The next version in another status follows the last one.                  *)
LEMMA MovedVersion ==
  ASSUME PlansInv, NEW p \in PlanNames, Exists(p), Room(p), NEW status \in PlanStatus
  PROVE  /\ Moved(Current(p), status) \in TradingPlan
         /\ Moved(Current(p), status).version = Len(planVersions[p]) + 1
         /\ Moved(Current(p), status).status = status
         /\ Moved(Current(p), status).content = Current(p).content
<1> DEFINE n == Len(planVersions[p])
<1>1. Current(p) \in TradingPlan /\ Current(p).version = n /\ n \in 1..PlanMaxVersion
  BY CurrentVersion
<1>2. n + 1 \in 1..PlanMaxVersion /\ n \in 0..PlanMaxVersion
  BY <1>1, PlansAssumption DEF Room
<1>3. Moved(Current(p), status) =
        [Current(p) EXCEPT !.version = n + 1, !.status = status, !.supersedes = n]
  BY <1>1 DEF Moved, TradingPlan
<1>4. QED
  BY ONLY <1>1, <1>2, <1>3, status \in PlanStatus DEF TradingPlan

(* The kind of a command tells which fields it has.                          *)
LEMMA Kinds ==
  ASSUME NEW c \in PlanCommand
  PROVE  /\ c.kind = "draft" => c \in DraftCommand
         /\ c.kind = "activate" => c \in ActivateCommand
         /\ c.kind = "move" => c \in MoveCommand
         /\ c.kind = "review" => c \in ReviewCommand
BY DEF PlanCommand, DraftCommand, ActivateCommand, MoveCommand, ReviewCommand

(* create_draft appends the first version.                                   *)
LEMMA CreateAdvances ==
  ASSUME PlansInv, NEW c \in planSent, CreateDraft(c)
  PROVE  \E v : Advances(c, v)
<1> DEFINE v == [version |-> 1, status |-> "draft", content |-> c.content, supersedes |-> 0]
<1>1. c \in DraftCommand
  BY Kinds DEF CreateDraft, PlansInv, PlansTypeOK
<1>2. v \in TradingPlan
  BY <1>1, PlansAssumption DEF TradingPlan, DraftCommand, PlanStatus
<1>3. planVersions[c.plan] = <<>>
  BY DEF CreateDraft, Exists
<1>4. Appends(c, v)
  BY <1>2, <1>3, PlansAssumption DEF CreateDraft, Appends, Room
<1>5. QED
  BY <1>4 DEF Advances, CreateDraft

(* revise_draft appends a draft after the last version.                      *)
LEMMA ReviseAdvances ==
  ASSUME PlansInv, NEW c \in planSent, ReviseDraft(c)
  PROVE  \E v : Advances(c, v)
<1> DEFINE w == Moved(Current(c.plan), "draft")
           v == [w EXCEPT !.content = c.content]
<1>1. c \in DraftCommand /\ c.plan \in PlanNames /\ c.content \in Contents
  BY Kinds DEF ReviseDraft, PlansInv, PlansTypeOK, DraftCommand
<1>2. w \in TradingPlan /\ w.version = Len(planVersions[c.plan]) + 1 /\ w.status = "draft"
  BY <1>1, MovedVersion DEF ReviseDraft, Fits, PlanStatus
<1>3. v \in TradingPlan /\ v.version = w.version /\ v.status = "draft"
  BY <1>1, <1>2 DEF TradingPlan
<1>4. c.expected + 1 = v.version
  BY <1>1, <1>2, <1>3, CurrentVersion DEF ReviseDraft, Fits
<1>5. Appends(c, v)
  BY <1>2, <1>3, <1>4 DEF ReviseDraft, Appends
<1>6. QED
  BY <1>3, <1>5 DEF Advances, ReviseDraft

(* activate appends an active version with the content it supersedes.        *)
LEMMA ActivateAdvances ==
  ASSUME PlansInv, NEW c \in planSent, Activate(c)
  PROVE  \E v : Advances(c, v)
<1> DEFINE v == Moved(Current(c.plan), "active")
<1>1. c \in ActivateCommand /\ c.plan \in PlanNames
  BY Kinds DEF Activate, PlansInv, PlansTypeOK, ActivateCommand
<1>2. /\ v \in TradingPlan /\ v.version = Len(planVersions[c.plan]) + 1
      /\ v.status = "active" /\ v.content = Current(c.plan).content
  BY <1>1, MovedVersion DEF Activate, Fits, PlanStatus
<1>3. /\ Current(c.plan) \in TradingPlan /\ Current(c.plan).version = Len(planVersions[c.plan])
      /\ Len(planVersions[c.plan]) \in Nat
  BY <1>1, CurrentVersion DEF Activate, Fits
<1>4. c.expected + 1 = v.version /\ c.expected = v.version - 1
  BY <1>2, <1>3 DEF Activate, Fits
<1>5. Appends(c, v)
  BY <1>2, <1>4 DEF Activate, Appends
<1>6. c.content = v.content /\ v.content.filled
  BY <1>2 DEF Activate, ApprovedHash, MayMove
<1>7. Current(c.plan).status # "reviewed"
  BY <1>3 DEF Activate, MayMove, AllowedTransitions, TradingPlan, PlanStatus
<1>8. QED
  BY <1>4, <1>5, <1>6, <1>7 DEF Advances, Activate

(* transition appends a version that is not active.                          *)
LEMMA MoveAdvances ==
  ASSUME PlansInv, NEW c \in planSent, Transition(c)
  PROVE  \E v : Advances(c, v)
<1> DEFINE v == Moved(Current(c.plan), c.target)
<1>1. c \in MoveCommand /\ c.plan \in PlanNames /\ c.target \in PlanStatus \ {"draft", "active"}
  BY Kinds DEF Transition, PlansInv, PlansTypeOK, MoveCommand
<1>2. v \in TradingPlan /\ v.version = Len(planVersions[c.plan]) + 1 /\ v.status # "active"
  BY <1>1, MovedVersion DEF Transition, Fits
<1>3. /\ Current(c.plan) \in TradingPlan /\ Current(c.plan).version = Len(planVersions[c.plan])
      /\ Len(planVersions[c.plan]) \in Nat
  BY <1>1, CurrentVersion DEF Transition, Fits
<1>4. c.expected + 1 = v.version
  BY <1>2, <1>3 DEF Transition, Fits
<1>5. Appends(c, v)
  BY <1>2, <1>4 DEF Transition, Appends
<1>6. Current(c.plan).status # "reviewed"
  BY <1>1, <1>3 DEF Transition, MayMove, AllowedTransitions, TradingPlan, PlanStatus
<1>7. QED
  BY <1>2, <1>5, <1>6 DEF Advances, Transition

(* record_review of a plan appends a reviewed version.                       *)
LEMMA ReviewAdvances ==
  ASSUME PlansInv, NEW c \in planSent, RecordReview(c), c.subject = "plan"
  PROVE  \E v : Advances(c, v)
<1> DEFINE v == Moved(Current(c.plan), "reviewed")
<1>1. c \in ReviewCommand /\ c.plan \in PlanNames
  BY Kinds DEF RecordReview, PlansInv, PlansTypeOK, ReviewCommand
<1>2. v \in TradingPlan /\ v.version = Len(planVersions[c.plan]) + 1 /\ v.status = "reviewed"
  BY <1>1, MovedVersion DEF RecordReview, Fits, PlanStatus
<1>3. /\ Current(c.plan) \in TradingPlan /\ Current(c.plan).version = Len(planVersions[c.plan])
      /\ Len(planVersions[c.plan]) \in Nat
  BY <1>1, CurrentVersion DEF RecordReview, Fits
<1>4. c.expected + 1 = v.version
  BY <1>2, <1>3 DEF RecordReview, Fits
<1>5. Appends(c, v)
  BY <1>2, <1>4 DEF RecordReview, Appends
<1>6. Current(c.plan).status # "reviewed"
  BY <1>3 DEF RecordReview, MayMove, AllowedTransitions, TradingPlan, PlanStatus
<1>7. QED
  BY <1>1, <1>2, <1>4, <1>5, <1>6 DEF Advances, RecordReview

(* What callers build are commands.                                          *)
LEMMA BuildsCommands ==
  ASSUME PlansInv, NEW k \in PlanKeys, NEW p \in PlanNames,
         BuildDraft(k, p) \/ BuildActivate(k, p) \/ BuildMove(k, p) \/ BuildReview(k, p)
  PROVE  /\ planSent \subseteq planSent' /\ planSent' \subseteq PlanCommand
         /\ UNCHANGED <<planVersions, planReviews, planReceipts, planBoots>>
<1>1. Exists(p) => /\ Current(p).version \in 1..PlanMaxVersion
                   /\ Current(p).version \in 0..PlanMaxVersion
                   /\ Current(p).content \in Contents
  BY CurrentVersion, PlansAssumption DEF TradingPlan
<1>2. planSent \subseteq PlanCommand
  BY DEF PlansInv, PlansTypeOK
<1>3. CASE BuildDraft(k, p)
  <2>1. PICK content \in Contents :
          Build([kind |-> "draft", key |-> k, plan |-> p, content |-> content,
                 expected |-> IF Exists(p) THEN Current(p).version ELSE 0])
    BY <1>3 DEF BuildDraft
  <2>2. (IF Exists(p) THEN Current(p).version ELSE 0) \in 0..PlanMaxVersion
    BY <1>1, PlansAssumption
  <2>3. QED
    BY <1>2, <2>1, <2>2 DEF Build, PlanCommand, DraftCommand
<1>4. CASE BuildActivate(k, p)
  <2>1. PICK entitled \in BOOLEAN :
          Build([kind |-> "activate", key |-> k, plan |-> p, entitled |-> entitled,
                 expected |-> Current(p).version, content |-> Current(p).content])
    BY <1>4 DEF BuildActivate
  <2>2. [kind |-> "activate", key |-> k, plan |-> p, entitled |-> entitled,
         expected |-> Current(p).version, content |-> Current(p).content] \in ActivateCommand
    BY <1>1, <1>4 DEF BuildActivate, ActivateCommand
  <2>3. QED
    BY <1>2, <2>1, <2>2 DEF Build, PlanCommand
<1>5. CASE BuildMove(k, p)
  <2>1. PICK target \in PlanStatus \ {"draft", "active"} :
          Build([kind |-> "move", key |-> k, plan |-> p, entitled |-> TRUE,
                 expected |-> Current(p).version, target |-> target])
    BY <1>5 DEF BuildMove
  <2>2. [kind |-> "move", key |-> k, plan |-> p, entitled |-> TRUE,
         expected |-> Current(p).version, target |-> target] \in MoveCommand
    BY <1>1, <1>5 DEF BuildMove, MoveCommand
  <2>3. QED
    BY <1>2, <2>1, <2>2 DEF Build, PlanCommand
<1>6. CASE BuildReview(k, p)
  <2>1. PICK r \in ReviewIds, s \in {"plan", "scan_result"} :
          Build([kind |-> "review", key |-> k, plan |-> p, entitled |-> TRUE,
                 expected |-> Current(p).version, id |-> r, subject |-> s])
    BY <1>6 DEF BuildReview
  <2>2. [kind |-> "review", key |-> k, plan |-> p, entitled |-> TRUE,
         expected |-> Current(p).version, id |-> r, subject |-> s] \in ReviewCommand
    BY <1>1, <1>6 DEF BuildReview, ReviewCommand
  <2>3. QED
    BY <1>2, <2>1, <2>2 DEF Build, PlanCommand
<1>7. QED
  BY <1>3, <1>4, <1>5, <1>6

(* A step of the service appends a version, or records the review of a scan  *)
(* result, or starts the service anew.                                       *)
ScanReviewed(c) ==
  /\ c \in planSent /\ c \in ReviewCommand /\ c.subject # "plan" /\ FirstUse(c)
  /\ planReviews' = [planReviews EXCEPT ![c.id] = c]
  /\ KeepReceipt(c, 0)
  /\ UNCHANGED <<planVersions, planSent, planBoots>>
Builds ==
  /\ planSent \subseteq planSent' /\ planSent' \subseteq PlanCommand
  /\ UNCHANGED <<planVersions, planReviews, planReceipts, planBoots>>

(* Every step of the service is one of four kinds.                           *)
LEMMA Steps ==
  ASSUME PlansInv, [PlansNext]_planVars
  PROVE  \/ Builds \/ PlansRestart \/ UNCHANGED planVars
         \/ \E c \in planSent : (\E v : Advances(c, v)) \/ ScanReviewed(c)
<1>1. ASSUME NEW c \in planSent,
             CreateDraft(c) \/ ReviseDraft(c) \/ Activate(c) \/ Transition(c) \/ RecordReview(c)
      PROVE  (\E v : Advances(c, v)) \/ ScanReviewed(c)
  <2>1. CASE CreateDraft(c)
    BY <2>1, CreateAdvances
  <2>2. CASE ReviseDraft(c)
    BY <2>2, ReviseAdvances
  <2>3. CASE Activate(c)
    BY <2>3, ActivateAdvances
  <2>4. CASE Transition(c)
    BY <2>4, MoveAdvances
  <2>5. CASE RecordReview(c) /\ c.subject = "plan"
    BY <2>5, ReviewAdvances
  <2>6. CASE RecordReview(c) /\ c.subject # "plan"
    BY <2>6, Kinds DEF RecordReview, ScanReviewed, PlansInv, PlansTypeOK
  <2>7. QED
    BY <1>1, <2>1, <2>2, <2>3, <2>4, <2>5, <2>6
<1>2. ASSUME NEW k \in PlanKeys, NEW p \in PlanNames,
             BuildDraft(k, p) \/ BuildActivate(k, p) \/ BuildMove(k, p) \/ BuildReview(k, p)
      PROVE  Builds
  BY <1>2, BuildsCommands DEF Builds
<1>3. QED
  BY <1>1, <1>2 DEF PlansNext

(* The review of a scan writes a receipt and a review, and no version.       *)
LEMMA ScanReviewedKeeps ==
  ASSUME PlansInv, NEW c \in planSent, ScanReviewed(c)
  PROVE  PlansInv'
<1> DEFINE t0 == <<TableOf(c), c.key>>
           r0 == [command |-> c, plan |-> c.plan, version |-> 0]
<1>1. /\ c \in PlanCommand /\ c.plan \in PlanNames /\ t0 \in Tables
      /\ c \in ReviewCommand /\ c.id \in ReviewIds
  BY Commands DEF PlansInv, PlansTypeOK, ScanReviewed, ReviewCommand
<1>2. planReceipts \in [Tables -> {NoReceipt} \cup PlanReceipt]
  BY DEF PlansInv, PlansTypeOK, Tables
<1>3. r0 \in PlanReceipt
  BY <1>1, PlansAssumption DEF PlanReceipt
<1>4. planReceipts' = [planReceipts EXCEPT ![t0] = r0] /\ planReceipts[t0] = NoReceipt
  BY DEF ScanReviewed, KeepReceipt, FirstUse
<1>5. /\ planReceipts' \in [Tables -> {NoReceipt} \cup PlanReceipt]
      /\ planReceipts'[t0] = r0
      /\ \A t \in Tables : t # t0 => planReceipts'[t] = planReceipts[t]
  BY <1>1, <1>2, <1>3, <1>4
<1>6. PlansTypeOK'
  BY <1>1, <1>5 DEF PlansInv, PlansTypeOK, Tables, ScanReviewed
<1>7. Numbered'
  BY DEF PlansInv, Numbered, ScanReviewed
<1>8. ASSUME NEW t \in Tables, NEW p \in PlanNames, NEW n \in 1..Len(planVersions[p])
      PROVE Made(t, p, n)' <=> Made(t, p, n)
  <2>1. n # 0
    OBVIOUS
  <2>2. QED
    BY <1>4, <1>5, <2>1 DEF Made
<1>9. MadeOnce'
  BY <1>8 DEF PlansInv, MadeOnce, ScanReviewed
<1>10. NotAhead'
  <2>1. Len(planVersions[c.plan]) >= 0
    BY <1>1 DEF PlansInv, PlansTypeOK
  <2>2. ASSUME NEW t \in Tables, planReceipts'[t] # NoReceipt
        PROVE  planReceipts'[t].version <= Len(planVersions[planReceipts'[t].plan])
    BY <1>5, <2>1, <2>2 DEF PlansInv, NotAhead
  <2>3. QED
    BY <2>2 DEF NotAhead, ScanReviewed
<1>11. QED
  BY <1>6, <1>7, <1>9, <1>10 DEF PlansInv

(* A service that has just started, with commands on their way.              *)
Fresh ==
  /\ planVersions = EmptyService[1] /\ planReviews = EmptyService[2]
  /\ planReceipts = EmptyService[3] /\ planSent \subseteq PlanCommand
  /\ planBoots \in 0..PlanMaxBoots

(* The types, and that versions and receipts belong together, are kept by    *)
(* every step.                                                               *)
THEOREM PlansInvariance == PlansSpec => []PlansInv
<1>1. Fresh => PlansInv
  <2> SUFFICES ASSUME Fresh PROVE PlansInv
    OBVIOUS
  <2>1. /\ planVersions = [p \in PlanNames |-> <<>>]
        /\ planReviews = [r \in ReviewIds |-> NoReceipt]
        /\ planReceipts = [t \in Tables |-> NoReceipt]
    BY DEF Fresh, EmptyService, Tables
  <2>2. PlansTypeOK
    BY <2>1 DEF Fresh, PlansTypeOK, Tables
  <2>3. Numbered /\ MadeOnce /\ NotAhead
    BY <2>1, PlansAssumption DEF Numbered, MadeOnce, NotAhead
  <2>4. QED
    BY <2>2, <2>3 DEF PlansInv
<1>2. PlansInit => PlansInv
  BY <1>1, PlansAssumption DEF PlansInit, Fresh
<1>3. PlansInv /\ [PlansNext]_planVars => PlansInv'
  <2> SUFFICES ASSUME PlansInv, [PlansNext]_planVars PROVE PlansInv'
    OBVIOUS
  <2>1. CASE Builds
    BY <2>1 DEF Builds, PlansInv, PlansTypeOK, Numbered, MadeOnce, NotAhead, Made
  <2>2. CASE PlansRestart
    <3>1. planBoots' \in 0..PlanMaxBoots
      BY <2>2, PlansAssumption DEF PlansRestart, PlansInv, PlansTypeOK
    <3>2. Fresh'
      BY <2>2, <3>1 DEF PlansRestart, PlansInv, PlansTypeOK, Fresh, EmptyService
    <3>3. Fresh' => PlansInv'
      BY <1>1, PTL
    <3>4. QED
      BY <3>2, <3>3
  <2>3. CASE UNCHANGED planVars
    BY <2>3 DEF planVars, PlansInv, PlansTypeOK, Numbered, MadeOnce, NotAhead, Made
  <2>4. ASSUME NEW c \in planSent, NEW v, Advances(c, v) PROVE PlansInv'
    <3>1. planReviews' \in [ReviewIds -> {NoReceipt} \cup ReviewCommand]
      BY <2>4 DEF Advances, PlansInv, PlansTypeOK, ReviewCommand
    <3>2. QED
      BY <2>4, <3>1, AppendsKeeps DEF Advances
  <2>5. ASSUME NEW c \in planSent, ScanReviewed(c) PROVE PlansInv'
    BY <2>5, ScanReviewedKeeps
  <2>6. QED
    BY <2>1, <2>2, <2>3, <2>4, <2>5, Steps
<1>4. QED
  BY <1>2, <1>3, PTL DEF PlansSpec

(* Every version was made by exactly one command: there is one receipt for   *)
(* it, so the set of its receipts has one element.                           *)
THEOREM OneCommand == PlansSpec => []OneCommandPerVersion
<1>1. PlansInv => OneCommandPerVersion
  <2> SUFFICES ASSUME PlansInv, NEW p \in PlanNames
               PROVE /\ \A n \in 1..Len(planVersions[p]) :
                          planVersions[p][n].version = n /\ Cardinality(MadeBy(p, n)) = 1
                     /\ \A n \in 1..PlanMaxVersion :
                          n > Len(planVersions[p]) => MadeBy(p, n) = {}
    BY DEF OneCommandPerVersion
  <2>1. DOMAIN planReceipts = Tables
    BY DEF PlansInv, PlansTypeOK, Tables
  <2>2. \A n : MadeBy(p, n) = {t \in Tables : Made(t, p, n)}
    BY <2>1 DEF MadeBy, Made
  <2>3. ASSUME NEW n \in 1..Len(planVersions[p])
        PROVE  planVersions[p][n].version = n /\ Cardinality(MadeBy(p, n)) = 1
    <3>1. PICK t \in Tables : Made(t, p, n) /\ \A u \in Tables : Made(u, p, n) => u = t
      BY DEF PlansInv, MadeOnce
    <3>2. MadeBy(p, n) = {t}
      BY <2>2, <3>1
    <3>3. Cardinality({t}) = 1
      BY FS_Singleton
    <3>4. QED
      BY <3>2, <3>3 DEF PlansInv, Numbered
  <2>4. ASSUME NEW n \in 1..PlanMaxVersion, n > Len(planVersions[p])
        PROVE  MadeBy(p, n) = {}
    <3>1. Len(planVersions[p]) \in Nat
      BY DEF PlansInv, PlansTypeOK
    <3>2. ASSUME NEW t \in Tables PROVE ~Made(t, p, n)
      BY <2>4, <3>1, PlansAssumption DEF PlansInv, NotAhead, Made
    <3>3. QED
      BY <2>2, <3>2
  <2>5. QED
    BY <2>3, <2>4
<1>2. QED
  BY <1>1, PlansInvariance, PTL

(* Where the versions of a plan are after a step that appends one.           *)
LEMMA AppendedVersions ==
  ASSUME PlansInv, NEW c \in planSent, NEW v, Appends(c, v)
  PROVE  /\ c.plan \in PlanNames
         /\ Len(planVersions[c.plan]) \in Nat /\ v.version = Len(planVersions[c.plan]) + 1
         /\ Len(planVersions'[c.plan]) = v.version /\ planVersions'[c.plan][v.version] = v
         /\ \A n \in 1..Len(planVersions[c.plan]) : planVersions'[c.plan][n] = planVersions[c.plan][n]
         /\ \A p \in PlanNames : p # c.plan => planVersions'[p] = planVersions[p]
<1>1. c.plan \in PlanNames
  BY Commands DEF PlansInv, PlansTypeOK
<1>2. planVersions \in [PlanNames -> Seq(TradingPlan)]
  BY DEF PlansInv, PlansTypeOK
<1>3. planVersions' = [planVersions EXCEPT ![c.plan] = Append(@, v)] /\ v \in TradingPlan
      /\ v.version = Len(planVersions[c.plan]) + 1
  BY DEF Appends, AppendVersion
<1>4. QED
  BY <1>1, <1>2, <1>3

(* An active plan is what its approval was given for, whatever arrives late  *)
(* and wherever the service restarts: a version is never changed, and only   *)
(* an approval of just this content makes an active one.                     *)
THEOREM ActiveAsApproved == PlansSpec => []ActivatedAsApproved
<1>1. PlansInit => ActivatedAsApproved
  BY DEF PlansInit, EmptyService, ActivatedAsApproved
<1>2. PlansInv /\ ActivatedAsApproved /\ [PlansNext]_planVars => ActivatedAsApproved'
  <2> SUFFICES ASSUME PlansInv, ActivatedAsApproved, [PlansNext]_planVars
               PROVE  ActivatedAsApproved'
    OBVIOUS
  <2>1. CASE Builds
    BY <2>1 DEF Builds, ActivatedAsApproved
  <2>2. CASE PlansRestart
    BY <2>2 DEF PlansRestart, EmptyService, ActivatedAsApproved
  <2>3. CASE UNCHANGED planVars
    BY <2>3 DEF planVars, ActivatedAsApproved
  <2>4. ASSUME NEW c \in planSent, NEW v, Advances(c, v) PROVE ActivatedAsApproved'
    <3> SUFFICES ASSUME NEW p \in PlanNames, NEW n \in 1..Len(planVersions'[p]),
                        planVersions'[p][n].status = "active"
                 PROVE  /\ planVersions'[p][n].content.filled
                        /\ \E d \in planSent' :
                             /\ d.kind = "activate" /\ d.plan = p /\ d.entitled
                             /\ d.expected = n - 1 /\ d.content = planVersions'[p][n].content
      BY DEF ActivatedAsApproved
    <3>1. planSent' = planSent
      BY <2>4 DEF Advances, Appends
    <3>2. CASE p = c.plan /\ n = v.version
      BY <2>4, <3>1, <3>2, AppendedVersions DEF Advances
    <3>3. CASE ~(p = c.plan /\ n = v.version)
      <4>1. n \in 1..Len(planVersions[p]) /\ planVersions'[p][n] = planVersions[p][n]
        BY <2>4, <3>3, AppendedVersions DEF Advances
      <4>2. QED
        BY <3>1, <4>1 DEF ActivatedAsApproved
    <3>4. QED
      BY <3>2, <3>3
  <2>5. ASSUME NEW c \in planSent, ScanReviewed(c) PROVE ActivatedAsApproved'
    BY <2>5 DEF ScanReviewed, ActivatedAsApproved
  <2>6. QED
    BY <2>1, <2>2, <2>3, <2>4, <2>5, Steps
<1>3. QED
  BY <1>1, <1>2, PlansInvariance, PTL DEF PlansSpec

(* A review ends its plan: no version follows the reviewed one, so the       *)
(* review stays about the plan's last version and no other joins it.         *)
THEOREM ReviewsStay == PlansSpec => []ReviewsAgree
<1> USE PlansAssumption
<1>1. PlansInit => ReviewsAgree
  BY DEF PlansInit, EmptyService, ReviewsAgree
<1>2. PlansInv /\ ReviewsAgree /\ [PlansNext]_planVars => ReviewsAgree'
  <2> SUFFICES ASSUME PlansInv, ReviewsAgree, [PlansNext]_planVars
               PROVE  ReviewsAgree'
    OBVIOUS
  <2>1. CASE Builds
    BY <2>1 DEF Builds, ReviewsAgree, Current
  <2>2. CASE PlansRestart
    BY <2>2 DEF PlansRestart, EmptyService, ReviewsAgree
  <2>3. CASE UNCHANGED planVars
    BY <2>3 DEF planVars, ReviewsAgree, Current
  <2>4. ASSUME NEW c \in planSent, NEW v, Advances(c, v) PROVE ReviewsAgree'
    <3>1. ASSUME NEW r \in ReviewIds, planReviews[r] # NoReceipt, planReviews[r].subject = "plan"
          PROVE  planReviews[r].plan # c.plan /\ planReviews[r].plan \in PlanNames
      <4>1. planReviews[r] \in ReviewCommand
        BY <3>1 DEF PlansInv, PlansTypeOK
      <4>2. planReviews[r].plan \in PlanNames /\ planReviews[r].expected \in 1..PlanMaxVersion
        BY <4>1 DEF ReviewCommand
      <4>3. /\ Len(planVersions[planReviews[r].plan]) = planReviews[r].expected + 1
            /\ Current(planReviews[r].plan).status = "reviewed"
        BY <3>1 DEF ReviewsAgree
      <4>4. Exists(planReviews[r].plan)
        BY <4>2, <4>3 DEF Exists
      <4>5. QED
        BY <2>4, <4>2, <4>3, <4>4 DEF Advances
    <3>2. CASE planReviews' = planReviews
      BY <2>4, <3>1, <3>2, AppendedVersions DEF Advances, ReviewsAgree, Current
    <3>3. CASE /\ c.kind = "review" /\ c.subject = "plan" /\ c \in ReviewCommand
               /\ planReviews' = [planReviews EXCEPT ![c.id] = c]
               /\ v.status = "reviewed" /\ v.version = c.expected + 1
      <4>1. /\ c.id \in ReviewIds /\ planReviews'[c.id] = c /\ c # NoReceipt
            /\ \A r \in ReviewIds : r # c.id => planReviews'[r] = planReviews[r]
        BY <3>3 DEF PlansInv, PlansTypeOK, ReviewCommand
      <4>2. /\ Len(planVersions'[c.plan]) = c.expected + 1
            /\ Current(c.plan)'.status = "reviewed"
        BY <2>4, <3>3, AppendedVersions DEF Advances, Current
      <4>3. \A r \in ReviewIds :
              (r # c.id /\ planReviews[r] # NoReceipt /\ planReviews[r].subject = "plan") =>
                /\ planVersions'[planReviews[r].plan] = planVersions[planReviews[r].plan]
                /\ planReviews[r].plan # c.plan
        BY <2>4, <3>1, AppendedVersions DEF Advances
      <4>4. QED
        BY <4>1, <4>2, <4>3 DEF ReviewsAgree, Current
    <3>4. QED
      BY <2>4, <3>2, <3>3 DEF Advances
  <2>5. ASSUME NEW c \in planSent, ScanReviewed(c) PROVE ReviewsAgree'
    <3>1. /\ c.id \in ReviewIds /\ planReviews'[c.id] = c /\ c.subject # "plan"
          /\ \A r \in ReviewIds : r # c.id => planReviews'[r] = planReviews[r]
      BY <2>5 DEF PlansInv, PlansTypeOK, ScanReviewed, ReviewCommand
    <3>2. QED
      BY <2>5, <3>1 DEF ScanReviewed, ReviewsAgree, Current
  <2>6. QED
    BY <2>1, <2>2, <2>3, <2>4, <2>5, Steps
<1>3. QED
  BY <1>1, <1>2, PlansInvariance, PTL DEF PlansSpec

(*****************************************************************************)
(* Reminders.tla                                                             *)
(*****************************************************************************)
(* A rule that was listed is still there, perhaps in a later version, and of *)
(* the same type: nothing deletes a rule or makes another of it.             *)
Known(rule) == rules[rule.id] # NoRule /\ rules[rule.id].type = rule.type

(* A run has attempts left, holds rules that are there, and the trigger it   *)
(* delivers is recorded and is no dead run's.                                *)
RunOK(q) ==
  /\ q.attempts < DeliveryBudget
  /\ \A rule \in q.todo : Known(rule)
  /\ q.rule # NoRule => Known(q.rule)
  /\ q.trigger # NoRule => q.trigger \in DOMAIN triggers /\ q.trigger \notin lost
AtHome == \A r \in Reminders : rules[r] # NoRule => rules[r].id = r
OfRules == \A t \in DOMAIN triggers : rules[t.id] # NoRule
OneHolder == \A v, w \in Runs :
  reminderRuns[v].trigger # NoRule /\ reminderRuns[v].trigger = reminderRuns[w].trigger => v = w
PendingHeld == \A t \in DOMAIN triggers :
  triggers[t].status = "pending" <=> (t \in lost \/ \E w \in Runs : reminderRuns[w].trigger = t)
RemindersInv ==
  /\ RemindersTypeOK /\ AtHome /\ OfRules
  /\ \A w \in Runs : RunOK(reminderRuns[w])
  /\ OneHolder /\ PendingHeld /\ lost \subseteq DOMAIN triggers
  /\ AlertsSpaced

(* A run between two rules.                                                  *)
LEMMA RunRests ==
  ASSUME NEW run \in Run
  PROVE  LET q == [run EXCEPT !.rule = NoRule, !.trigger = NoRule, !.attempts = 0] IN
           q \in Run /\ q.trigger = NoRule /\ q.attempts = 0 /\ q.rule = NoRule /\ q.todo = run.todo
<1>1. 0 \in 0..DeliveryBudget
  BY RemindersAssumption
<1>2. [run EXCEPT !.rule = NoRule, !.trigger = NoRule, !.attempts = 0] \in Run
  BY <1>1 DEF Run
<1> QED BY <1>2 DEF Run

(* A rule that is saved is new, or the same rule in another version.         *)
LEMMA RuleSaved ==
  ASSUME RemindersInv, NEW k \in ReminderKeys, NEW rule \in ReminderRule,
         rules[rule.id] # NoRule => rules[rule.id].type = rule.type,
         rules' = [rules EXCEPT ![rule.id] = rule],
         ruleKeys' = [ruleKeys EXCEPT ![k] = rule],
         UNCHANGED clock, UNCHANGED watchState
  PROVE  RemindersInv'
<1> USE RemindersAssumption
<1>0. /\ RemindersTypeOK /\ AtHome /\ OfRules /\ OneHolder /\ PendingHeld /\ AlertsSpaced
      /\ \A w \in Runs : RunOK(reminderRuns[w])
      /\ rules \in [Reminders -> ReminderRule \cup {NoRule}]
      /\ rule.id \in Reminders /\ rule # NoRule
  BY DEF RemindersInv, RemindersTypeOK, ReminderRule
<1>1. /\ lastSeen' = lastSeen /\ triggers' = triggers /\ provided' = provided
      /\ reminderRuns' = reminderRuns /\ lost' = lost /\ clock' = clock
  BY DEF watchState
<1>2. RemindersTypeOK'
  BY <1>0, <1>1 DEF RemindersTypeOK
<1>3. /\ rules'[rule.id] = rule /\ \A r \in Reminders : r # rule.id => rules'[r] = rules[r]
  BY <1>0
<1>4. AtHome'
  BY <1>0, <1>3 DEF AtHome
<1>5. ASSUME NEW r \in Reminders, rules[r] # NoRule
      PROVE  rules'[r] # NoRule /\ rules'[r].type = rules[r].type
  BY <1>0, <1>3, <1>5
<1>6. \A t \in DOMAIN triggers : t.id \in Reminders
  BY <1>0 DEF RemindersTypeOK, TriggerId
<1>7. OfRules' /\ AlertsSpaced'
  BY <1>0, <1>1, <1>5, <1>6 DEF OfRules, AlertsSpaced
<1>8. ASSUME NEW r, r.id \in Reminders, Known(r) PROVE Known(r)'
  BY <1>5, <1>8 DEF Known
<1>9. ASSUME NEW w \in Runs PROVE RunOK(reminderRuns[w])'
  <2>1. /\ \A r \in reminderRuns[w].todo : r.id \in Reminders
        /\ reminderRuns[w].rule # NoRule => reminderRuns[w].rule.id \in Reminders
    BY <1>0 DEF RemindersTypeOK, Run, ReminderRule
  <2>2. RunOK(reminderRuns[w])
    BY <1>0
  <2>3. /\ \A r \in reminderRuns[w].todo : Known(r)'
        /\ reminderRuns[w].rule # NoRule => Known(reminderRuns[w].rule)'
    BY <1>1, <1>8, <2>1, <2>2 DEF RunOK, Known
  <2> QED BY <1>1, <2>2, <2>3 DEF RunOK, Known
<1>10. OneHolder' /\ PendingHeld' /\ (lost \subseteq DOMAIN triggers)'
  BY <1>0, <1>1 DEF RemindersInv, OneHolder, PendingHeld
<1> QED BY <1>2, <1>4, <1>7, <1>9, <1>10 DEF RemindersInv

(* A run that moves on with the trigger it has, or with none.                *)
LEMMA RunMoves ==
  ASSUME RemindersInv, NEW w \in Runs, NEW q \in Run, RunOK(q),
         q.trigger = reminderRuns[w].trigger,
         reminderRuns' = [reminderRuns EXCEPT ![w] = q],
         UNCHANGED <<rules, ruleKeys, triggers, lost, clock>>,
         lastSeen' \in [Reminders \X (1..MaxRuleVersion) -> Observation \cup {NoRule}],
         provided' \subseteq TriggerId
  PROVE  RemindersInv'
<1>0. /\ RemindersTypeOK /\ AtHome /\ OfRules /\ OneHolder /\ PendingHeld /\ AlertsSpaced
      /\ \A v \in Runs : RunOK(reminderRuns[v])
      /\ reminderRuns \in [Runs -> Run]
  BY DEF RemindersInv, RemindersTypeOK
<1>1. RemindersTypeOK'
  BY <1>0 DEF RemindersTypeOK
<1>2. AtHome' /\ OfRules' /\ AlertsSpaced' /\ (lost \subseteq DOMAIN triggers)'
  BY <1>0 DEF RemindersInv, AtHome, OfRules, AlertsSpaced
<1>3. \A v \in Runs : reminderRuns'[v] = IF v = w THEN q ELSE reminderRuns[v]
  BY <1>0
<1>4. \A v \in Runs : reminderRuns'[v].trigger = reminderRuns[v].trigger
  BY <1>3
<1>5. OneHolder' /\ PendingHeld'
  BY <1>0, <1>4 DEF OneHolder, PendingHeld
<1>6. ASSUME NEW v \in Runs PROVE RunOK(reminderRuns[v])'
  <2>1. RunOK(reminderRuns'[v])
    BY <1>0, <1>3
  <2> QED BY <2>1 DEF RunOK, Known
<1> QED BY <1>1, <1>2, <1>5, <1>6 DEF RemindersInv

(* The steps of a run that leave its trigger alone.                          *)
LEMMA QuietSteps ==
  ASSUME RemindersInv, NEW w \in Runs,
         \/ StartRun(w) \/ AwaitObservation(w) \/ StaleAnswer(w)
         \/ \E o \in Answers : BadAnswer(w, o)
  PROVE  RemindersInv'
<1> USE RemindersAssumption
<1> DEFINE run == reminderRuns[w]
<1>0. /\ reminderRuns \in [Runs -> Run] /\ rules \in [Reminders -> ReminderRule \cup {NoRule}]
      /\ run \in Run /\ RunOK(run) /\ AtHome
      /\ lastSeen \in [Reminders \X (1..MaxRuleVersion) -> Observation \cup {NoRule}]
      /\ provided \subseteq TriggerId
  BY DEF RemindersInv, RemindersTypeOK
<1>1. /\ UNCHANGED <<rules, ruleKeys, triggers, lost, clock>>
      /\ lastSeen' = lastSeen /\ provided' = provided
  BY DEF StartRun, AwaitObservation, StaleAnswer, BadAnswer, ruleState
<1>2. ASSUME NEW q \in Run, RunOK(q), q.trigger = run.trigger,
             reminderRuns' = [reminderRuns EXCEPT ![w] = q]
      PROVE  RemindersInv'
  BY <1>0, <1>1, <1>2, RunMoves
<1>3. CASE StartRun(w)
  <2> DEFINE active == {rules[r] : r \in {q \in Reminders : rules[q] # NoRule /\ rules[q].status = "active"}}
             q == [run EXCEPT !.todo = active]
  <2>1. active \subseteq ReminderRule
    BY <1>0
  <2>2. \A rule \in active : Known(rule)
    BY <1>0 DEF AtHome, Known
  <2>3. reminderRuns' = [reminderRuns EXCEPT ![w] = q]
    BY <1>0, <1>3 DEF StartRun
  <2> HIDE DEF active
  <2>4. q \in Run /\ q.trigger = run.trigger /\ q.attempts = run.attempts /\ q.rule = run.rule
        /\ q.todo = active
    BY <1>0, <2>1 DEF Run
  <2> HIDE DEF q
  <2>5. RunOK(q)
    BY <1>0, <2>2, <2>4 DEF RunOK
  <2> QED BY <1>2, <2>3, <2>4, <2>5
<1>4. CASE AwaitObservation(w)
  <2>1. PICK rule \in run.todo :
          reminderRuns' = [reminderRuns EXCEPT ![w].rule = rule, ![w].todo = @ \ {rule}]
    BY <1>4 DEF AwaitObservation
  <2> DEFINE q == [run EXCEPT !.rule = rule, !.todo = @ \ {rule}]
  <2>2. reminderRuns' = [reminderRuns EXCEPT ![w] = q]
    BY <1>0, <2>1
  <2>3. q \in Run /\ q.trigger = run.trigger /\ q.attempts = run.attempts /\ q.rule = rule
        /\ q.todo = run.todo \ {rule}
    BY <1>0 DEF Run
  <2> HIDE DEF q
  <2>4. RunOK(q)
    BY <1>0, <2>3 DEF RunOK
  <2> QED BY <1>2, <2>2, <2>3, <2>4
<1>5. CASE StaleAnswer(w)
  <2> DEFINE q == [run EXCEPT !.rule = NoRule, !.trigger = NoRule, !.attempts = 0]
  <2>1. run.trigger = NoRule
    BY <1>5 DEF StaleAnswer
  <2>2. reminderRuns' = [reminderRuns EXCEPT ![w] = q]
    BY <1>0, <1>5 DEF StaleAnswer, NextRule
  <2>3. q \in Run /\ q.trigger = NoRule /\ q.attempts = 0 /\ q.rule = NoRule /\ q.todo = run.todo
    BY <1>0, RunRests
  <2> HIDE DEF q
  <2>4. RunOK(q)
    BY <1>0, <2>3 DEF RunOK
  <2> QED BY <1>2, <2>1, <2>2, <2>3, <2>4
<1>6. CASE \E o \in Answers : BadAnswer(w, o)
  <2>1. run.trigger = NoRule /\ reminderRuns' = [reminderRuns EXCEPT ![w] = IdleRun]
    BY <1>6 DEF BadAnswer
  <2>2. IdleRun \in Run /\ IdleRun.trigger = NoRule
    BY DEF IdleRun, Run
  <2>3. RunOK(IdleRun)
    BY DEF IdleRun, RunOK
  <2> QED BY <1>2, <2>1, <2>2, <2>3
<1> QED BY <1>3, <1>4, <1>5, <1>6

(* An observation that triggers: nobody held the trigger, it is a cooldown   *)
(* away from the others, and the only one of a scheduled review.             *)
LEMMA TriggerRecorded ==
  ASSUME RemindersInv, NEW w \in Runs, NEW t \in TriggerId, t \notin DOMAIN triggers,
         NEW rule \in ReminderRule, rule = reminderRuns[w].rule, rule.id = t.id, rule.version = t.version,
         \A u \in TriggersOf(rule) : t.at >= u.at + Cooldown,
         rule.type = "scheduled_review" => TriggersOf(rule) = {},
         reminderRuns[w].trigger = NoRule,
         triggers' = [u \in DOMAIN triggers \cup {t} |->
                 IF u = t THEN [status |-> "pending", attempts |-> 0] ELSE triggers[u]],
         reminderRuns' = [reminderRuns EXCEPT ![w].trigger = t],
         UNCHANGED <<rules, ruleKeys, lost, clock>>,
         lastSeen' \in [Reminders \X (1..MaxRuleVersion) -> Observation \cup {NoRule}],
         provided' = provided
  PROVE  RemindersInv'
<1> USE RemindersAssumption
<1>0. /\ RemindersTypeOK /\ AtHome /\ OfRules /\ OneHolder /\ PendingHeld /\ AlertsSpaced
      /\ \A v \in Runs : RunOK(reminderRuns[v])
      /\ reminderRuns \in [Runs -> Run] /\ lost \subseteq DOMAIN triggers
      /\ DOMAIN triggers \subseteq TriggerId /\ rule # NoRule /\ t # NoRule
  BY DEF RemindersInv, RemindersTypeOK
<1> DEFINE q == [reminderRuns[w] EXCEPT !.trigger = t]
<1>1. /\ q \in Run /\ q.trigger = t /\ q.rule = rule /\ q.todo = reminderRuns[w].todo
      /\ q.attempts = reminderRuns[w].attempts
  BY <1>0 DEF Run
<1>2. reminderRuns' = [reminderRuns EXCEPT ![w] = q]
  BY <1>0
<1> HIDE DEF q
<1>3. \A v \in Runs : reminderRuns'[v] = IF v = w THEN q ELSE reminderRuns[v]
  BY <1>0, <1>2
<1>4. DOMAIN triggers' = DOMAIN triggers \cup {t}
  OBVIOUS
<1>5. /\ triggers'[t] = [status |-> "pending", attempts |-> 0]
      /\ \A u \in DOMAIN triggers : triggers'[u] = triggers[u]
  OBVIOUS
<1>6. RemindersTypeOK'
  <2>1. [status |-> "pending", attempts |-> 0] \in Delivery
    BY DEF Delivery
  <2>2. reminderRuns' \in [Runs -> Run]
    BY <1>0, <1>1, <1>2
  <2>3. DOMAIN triggers' \subseteq TriggerId /\ \A u \in DOMAIN triggers' : triggers'[u] \in Delivery
    BY <1>0, <1>4, <1>5, <2>1 DEF RemindersTypeOK
  <2> QED BY <1>0, <2>2, <2>3 DEF RemindersTypeOK
<1>7. Known(rule)
  BY <1>0 DEF RunOK
<1>8. AtHome' /\ OfRules' /\ (lost \subseteq DOMAIN triggers)'
  BY <1>0, <1>4, <1>7 DEF AtHome, OfRules, Known
<1>9. ASSUME NEW v \in Runs PROVE RunOK(reminderRuns[v])'
  <2>1. CASE v = w
    BY <1>0, <1>1, <1>3, <1>4, <2>1 DEF RunOK, Known
  <2>2. CASE v # w
    BY <1>0, <1>3, <1>4, <2>2 DEF RunOK, Known
  <2> QED BY <2>1, <2>2
<1>10. \A v \in Runs : reminderRuns[v].trigger # t
  BY <1>0 DEF RunOK
<1>11. OneHolder'
  BY <1>0, <1>1, <1>3, <1>10 DEF OneHolder
<1>12. PendingHeld'
  <2>1. ASSUME NEW u \in DOMAIN triggers
        PROVE  (\E v \in Runs : reminderRuns'[v].trigger = u) <=> (\E v \in Runs : reminderRuns[v].trigger = u)
    BY <1>0, <1>1, <1>3, <2>1
  <2>2. ASSUME NEW u \in DOMAIN triggers
        PROVE  triggers'[u].status = "pending" <=> (u \in lost' \/ \E v \in Runs : reminderRuns'[v].trigger = u)
    BY <1>0, <1>5, <2>1, <2>2 DEF PendingHeld
  <2>3. triggers'[t].status = "pending" /\ reminderRuns'[w].trigger = t
    BY <1>1, <1>3, <1>5
  <2> QED BY <1>4, <2>2, <2>3 DEF PendingHeld
<1>13. AlertsSpaced'
  <2> SUFFICES ASSUME NEW u \in DOMAIN triggers', NEW v \in DOMAIN triggers',
                      u # v, u.id = v.id, u.version = v.version
               PROVE  /\ u.at - v.at >= Cooldown \/ v.at - u.at >= Cooldown
                      /\ rules[u.id].type # "scheduled_review"
    BY DEF AlertsSpaced
  <2>1. \A x \in DOMAIN triggers' : x.at \in Nat
    BY <1>0, <1>4 DEF TriggerId
  <2>2. ASSUME NEW x \in DOMAIN triggers, x.id = t.id, x.version = t.version
        PROVE  t.at - x.at >= Cooldown /\ rules[t.id].type # "scheduled_review"
    <3>1. x \in TriggersOf(rule)
      BY <2>2 DEF TriggersOf
    <3>2. t.at >= x.at + Cooldown
      BY <3>1
    <3>3. t.at - x.at >= Cooldown
      BY <1>4, <2>1, <3>2
    <3>4. rules[t.id].type # "scheduled_review"
      BY <1>7, <3>1 DEF Known
    <3> QED BY <3>3, <3>4
  <2>3. CASE u = t
    BY <1>4, <2>2, <2>3
  <2>4. CASE v = t
    BY <1>4, <2>2, <2>4
  <2>5. CASE u # t /\ v # t
    BY <1>0, <1>4, <2>5 DEF AlertsSpaced
  <2> QED BY <2>3, <2>4, <2>5
<1> QED BY <1>6, <1>8, <1>9, <1>11, <1>12, <1>13 DEF RemindersInv

(* An observation puts the rule on cool-down and records a trigger that its  *)
(* run alone holds.                                                          *)
LEMMA ObservationKept ==
  ASSUME RemindersInv, NEW w \in Runs, NEW o \in Answers, Observe(w, o)
  PROVE  RemindersInv'
<1> USE RemindersAssumption
<1> DEFINE run == reminderRuns[w]
           rule == run.rule
           t == [id |-> rule.id, version |-> rule.version, at |-> o.at]
<1>0. /\ reminderRuns \in [Runs -> Run] /\ run \in Run /\ RunOK(run)
      /\ lastSeen \in [Reminders \X (1..MaxRuleVersion) -> Observation \cup {NoRule}]
      /\ provided \subseteq TriggerId /\ o \in Observation
  BY DEF RemindersInv, RemindersTypeOK, Answers
<1>1. rule # NoRule /\ run.trigger = NoRule
  BY DEF Observe
<1>2. rule \in ReminderRule
  BY <1>0, <1>1 DEF Run
<1>3. rule.id \in Reminders /\ rule.version \in 1..MaxRuleVersion /\ rule.type \in RuleType
  BY <1>2 DEF ReminderRule
<1>4. lastSeen' \in [Reminders \X (1..MaxRuleVersion) -> Observation \cup {NoRule}]
  <2>1. lastSeen' = [lastSeen EXCEPT ![<<rule.id, rule.version>>] = o]
    BY DEF Observe
  <2> QED BY <1>0, <2>1
<1>5. UNCHANGED <<rules, ruleKeys, provided, lost, clock>>
  BY DEF Observe, ruleState
<1>6. CASE ShouldTrigger(rule, o) /\ t \notin DOMAIN triggers
  <2>1. t \in TriggerId /\ t.id = rule.id /\ t.version = rule.version /\ t.at = o.at
    BY <1>0, <1>3 DEF TriggerId, Observation
  <2>2. /\ triggers' = [u \in DOMAIN triggers \cup {t} |->
                 IF u = t THEN [status |-> "pending", attempts |-> 0] ELSE triggers[u]]
        /\ reminderRuns' = [reminderRuns EXCEPT ![w].trigger = t]
    BY <1>6 DEF Observe
  <2> HIDE DEF t
  <2>3. \A u \in TriggersOf(rule) : t.at >= u.at + Cooldown
    BY <1>6, <2>1 DEF ShouldTrigger, Cooled
  <2>4. rule.type = "scheduled_review" => TriggersOf(rule) = {}
    BY <1>6 DEF ShouldTrigger
  <2>5. t \notin DOMAIN triggers
    BY <1>6
  <2> HIDE DEF rule, run
  <2> QED BY <1>1, <1>2, <1>4, <1>5, <2>1, <2>2, <2>3, <2>4, <2>5, TriggerRecorded DEF rule, run
<1>7. CASE ~(ShouldTrigger(rule, o) /\ t \notin DOMAIN triggers)
  <2> DEFINE q == [run EXCEPT !.rule = NoRule, !.trigger = NoRule, !.attempts = 0]
  <2>1. triggers' = triggers /\ NextRule(w)
    BY <1>7 DEF Observe
  <2>2. reminderRuns' = [reminderRuns EXCEPT ![w] = q]
    BY <1>0, <2>1 DEF NextRule
  <2>3. q \in Run /\ q.trigger = NoRule /\ q.attempts = 0 /\ q.rule = NoRule /\ q.todo = run.todo
    BY <1>0, RunRests
  <2> HIDE DEF q
  <2>4. RunOK(q)
    BY <1>0, <2>3 DEF RunOK
  <2> QED BY <1>0, <1>1, <1>4, <1>5, <2>1, <2>2, <2>3, <2>4, RunMoves
<1> QED BY <1>6, <1>7

(* A delivery that is over: its trigger is no longer pending and nobody's.   *)
LEMMA DeliveryOver ==
  ASSUME RemindersInv, NEW w \in Runs, reminderRuns[w].trigger # NoRule,
         NEW status \in {"delivered", "failed"},
         Finished(w, status, reminderRuns[w].attempts + 1),
         UNCHANGED <<rules, ruleKeys, lastSeen, lost, clock>>, provided' \subseteq TriggerId
  PROVE  RemindersInv'
<1> USE RemindersAssumption
<1> DEFINE run == reminderRuns[w]
           t == run.trigger
           d == [status |-> status, attempts |-> run.attempts + 1]
           q == [run EXCEPT !.rule = NoRule, !.trigger = NoRule, !.attempts = 0]
<1>0. /\ RemindersTypeOK /\ AtHome /\ OfRules /\ OneHolder /\ PendingHeld /\ AlertsSpaced
      /\ \A v \in Runs : RunOK(reminderRuns[v])
      /\ reminderRuns \in [Runs -> Run] /\ run \in Run /\ lost \subseteq DOMAIN triggers
      /\ DOMAIN triggers \subseteq TriggerId /\ \A u \in DOMAIN triggers : triggers[u] \in Delivery
  BY DEF RemindersInv, RemindersTypeOK
<1>1. t \in DOMAIN triggers /\ t \notin lost /\ run.attempts + 1 \in 0..DeliveryBudget
  BY <1>0 DEF RunOK, Run
<1>2. q \in Run /\ q.trigger = NoRule /\ q.attempts = 0 /\ q.rule = NoRule /\ q.todo = run.todo
  BY <1>0, RunRests
<1>3. reminderRuns' = [reminderRuns EXCEPT ![w] = q]
  BY <1>0 DEF Finished, NextRule
<1>4. triggers' = [triggers EXCEPT ![t] = d]
  BY DEF Finished
<1>5. d \in Delivery /\ d.status # "pending"
  BY <1>1 DEF Delivery
<1> HIDE DEF q, d
<1>6. \A v \in Runs : reminderRuns'[v] = IF v = w THEN q ELSE reminderRuns[v]
  BY <1>0, <1>3
<1>7. /\ DOMAIN triggers' = DOMAIN triggers
      /\ \A u \in DOMAIN triggers : triggers'[u] = IF u = t THEN d ELSE triggers[u]
  BY <1>4
<1>8. RemindersTypeOK'
  <2>1. reminderRuns' \in [Runs -> Run]
    BY <1>0, <1>2, <1>3
  <2>2. \A u \in DOMAIN triggers' : triggers'[u] \in Delivery
    BY <1>0, <1>5, <1>7
  <2> QED BY <1>0, <1>7, <2>1, <2>2 DEF RemindersTypeOK
<1>9. AtHome' /\ OfRules' /\ (lost \subseteq DOMAIN triggers)' /\ AlertsSpaced'
  BY <1>0, <1>7 DEF AtHome, OfRules, AlertsSpaced
<1>10. ASSUME NEW v \in Runs PROVE RunOK(reminderRuns[v])'
  <2>1. CASE v = w
    BY <1>0, <1>2, <1>6, <2>1 DEF RunOK, Known
  <2>2. CASE v # w
    BY <1>0, <1>6, <1>7, <2>2 DEF RunOK, Known
  <2> QED BY <2>1, <2>2
<1>11. OneHolder'
  BY <1>0, <1>2, <1>6 DEF OneHolder
<1>12. \A v \in Runs : v # w => reminderRuns[v].trigger # t
  BY <1>0 DEF OneHolder
<1>13. PendingHeld'
  <2> SUFFICES ASSUME NEW u \in DOMAIN triggers
               PROVE  triggers'[u].status = "pending" <=>
                        (u \in lost \/ \E v \in Runs : reminderRuns'[v].trigger = u)
    BY <1>7 DEF PendingHeld
  <2>1. CASE u = t
    <3>1. triggers'[u].status # "pending"
      BY <1>5, <1>7, <2>1
    <3>2. \A v \in Runs : reminderRuns'[v].trigger # t
      BY <1>2, <1>6, <1>12
    <3> QED BY <1>1, <2>1, <3>1, <3>2
  <2>2. CASE u # t
    <3>1. triggers'[u] = triggers[u]
      BY <1>7, <2>2
    <3>2. u # NoRule
      BY <1>0
    <3>3. (\E v \in Runs : reminderRuns'[v].trigger = u) <=> (\E v \in Runs : reminderRuns[v].trigger = u)
      BY <1>2, <1>6, <2>2, <3>2
    <3> QED BY <1>0, <3>1, <3>3 DEF PendingHeld
  <2> QED BY <2>1, <2>2
<1> QED BY <1>8, <1>9, <1>10, <1>11, <1>13 DEF RemindersInv

(* An attempt to deliver moves one run on.                                   *)
LEMMA AttemptKept ==
  ASSUME RemindersInv, NEW w \in Runs, Attempt(w)
  PROVE  RemindersInv'
<1> USE RemindersAssumption
<1> DEFINE run == reminderRuns[w]
<1>0. /\ reminderRuns \in [Runs -> Run] /\ run \in Run /\ RunOK(run)
      /\ lastSeen \in [Reminders \X (1..MaxRuleVersion) -> Observation \cup {NoRule}]
      /\ provided \subseteq TriggerId
  BY DEF RemindersInv, RemindersTypeOK
<1>1. run.trigger # NoRule /\ UNCHANGED <<rules, ruleKeys, lastSeen, lost, clock>>
  BY DEF Attempt, ruleState
<1>2. run.trigger \in TriggerId
  BY <1>0, <1>1 DEF Run
<1>3. CASE provided' = provided \cup {run.trigger} /\ Finished(w, "delivered", run.attempts + 1)
  <2>1. provided' \subseteq TriggerId
    BY <1>0, <1>2, <1>3
  <2> QED BY <1>1, <1>3, <2>1, DeliveryOver
<1>4. CASE /\ run.attempts + 1 < DeliveryBudget
           /\ reminderRuns' = [reminderRuns EXCEPT ![w].attempts = @ + 1]
           /\ UNCHANGED <<triggers, provided>>
  <2> DEFINE q == [run EXCEPT !.attempts = @ + 1]
  <2>1. reminderRuns' = [reminderRuns EXCEPT ![w] = q]
    BY <1>0, <1>4
  <2>2. /\ q \in Run /\ q.trigger = run.trigger /\ q.attempts = run.attempts + 1
        /\ q.rule = run.rule /\ q.todo = run.todo
    BY <1>0, <1>4 DEF Run
  <2> HIDE DEF q
  <2>3. RunOK(q)
    BY <1>0, <1>4, <2>2 DEF RunOK
  <2> QED BY <1>0, <1>1, <1>4, <2>1, <2>2, <2>3, RunMoves
<1>5. CASE Finished(w, "failed", run.attempts + 1) /\ UNCHANGED provided
  BY <1>0, <1>1, <1>5, DeliveryOver
<1> QED BY <1>3, <1>4, <1>5 DEF Attempt

(* A run that dies leaves the trigger it held pending, for good.             *)
LEMMA RunDeathKept ==
  ASSUME RemindersInv, NEW w \in Runs, RunDies(w)
  PROVE  RemindersInv'
<1> USE RemindersAssumption
<1> DEFINE run == reminderRuns[w]
           t == run.trigger
<1>0. /\ RemindersTypeOK /\ AtHome /\ OfRules /\ OneHolder /\ PendingHeld /\ AlertsSpaced
      /\ \A v \in Runs : RunOK(reminderRuns[v])
      /\ reminderRuns \in [Runs -> Run] /\ run \in Run /\ lost \subseteq DOMAIN triggers
      /\ DOMAIN triggers \subseteq TriggerId /\ provided \subseteq TriggerId
  BY DEF RemindersInv, RemindersTypeOK
<1>1. /\ IdleRun \in Run /\ IdleRun.trigger = NoRule
  BY DEF IdleRun, Run
<1>2. RunOK(IdleRun)
  BY DEF IdleRun, RunOK
<1>3. /\ reminderRuns' = [reminderRuns EXCEPT ![w] = IdleRun]
      /\ UNCHANGED <<rules, ruleKeys, lastSeen, triggers, clock>>
      /\ lost' = lost \cup ({t} \ {NoRule})
      /\ provided' \in {provided, provided \cup ({t} \ {NoRule})}
  BY DEF RunDies, ruleState
<1>4. CASE t = NoRule
  <2>1. lost' = lost /\ provided' = provided
    BY <1>3, <1>4
  <2>2. lastSeen' \in [Reminders \X (1..MaxRuleVersion) -> Observation \cup {NoRule}]
    BY <1>0, <1>3 DEF RemindersTypeOK
  <2> QED BY <1>0, <1>1, <1>2, <1>3, <1>4, <2>1, <2>2, RunMoves
<1>5. CASE t # NoRule
  <2>1. t \in DOMAIN triggers /\ t \notin lost /\ t \in TriggerId
    BY <1>0, <1>5 DEF RunOK
  <2>2. lost' = lost \cup {t} /\ provided' \subseteq TriggerId
    BY <1>0, <1>3, <1>5, <2>1
  <2>3. \A v \in Runs : reminderRuns'[v] = IF v = w THEN IdleRun ELSE reminderRuns[v]
    BY <1>0, <1>3
  <2>4. RemindersTypeOK'
    <3>1. reminderRuns' \in [Runs -> Run] /\ lost' \subseteq TriggerId
      BY <1>0, <1>1, <1>3, <2>1, <2>2
    <3> QED BY <1>0, <1>3, <2>2, <3>1 DEF RemindersTypeOK
  <2>5. AtHome' /\ OfRules' /\ (lost \subseteq DOMAIN triggers)' /\ AlertsSpaced'
    BY <1>0, <1>3, <2>1, <2>2 DEF AtHome, OfRules, AlertsSpaced
  <2>6. \A v \in Runs : v # w => reminderRuns[v].trigger # t
    BY <1>0, <1>5 DEF OneHolder
  <2>7. ASSUME NEW v \in Runs PROVE RunOK(reminderRuns[v])'
    <3>1. RunOK(reminderRuns'[v])
      BY <1>0, <1>2, <2>3
    <3>2. reminderRuns'[v].trigger # t
      BY <1>1, <1>5, <2>3, <2>6
    <3> QED BY <1>3, <2>2, <3>1, <3>2 DEF RunOK, Known
  <2>8. OneHolder'
    BY <1>0, <1>1, <2>3 DEF OneHolder
  <2>9. PendingHeld'
    <3> SUFFICES ASSUME NEW u \in DOMAIN triggers
                 PROVE  triggers[u].status = "pending" <=>
                          (u \in lost' \/ \E v \in Runs : reminderRuns'[v].trigger = u)
      BY <1>3 DEF PendingHeld
    <3>1. CASE u = t
      BY <1>0, <2>2, <3>1 DEF PendingHeld
    <3>2. CASE u # t
      <4>1. u # NoRule
        BY <1>0
      <4>2. (\E v \in Runs : reminderRuns'[v].trigger = u) <=> (\E v \in Runs : reminderRuns[v].trigger = u)
        BY <1>1, <2>3, <3>2, <4>1
      <4> QED BY <1>0, <2>2, <3>2, <4>2 DEF PendingHeld
    <3> QED BY <3>1, <3>2
  <2> QED BY <2>4, <2>5, <2>7, <2>8, <2>9 DEF RemindersInv
<1> QED BY <1>4, <1>5

(* Every command and every step of a run keeps the invariant.                *)
THEOREM RemindersInvariance == RemindersSpec => []RemindersInv
<1> USE RemindersAssumption
<1>1. RemindersInit => RemindersInv
  <2> SUFFICES ASSUME RemindersInit PROVE RemindersInv
    OBVIOUS
  <2>1. IdleRun \in Run /\ RunOK(IdleRun) /\ IdleRun.trigger = NoRule
    BY DEF IdleRun, Run, RunOK
  <2>2. DOMAIN triggers = {} /\ \A w \in Runs : reminderRuns[w] = IdleRun
    BY DEF RemindersInit
  <2>3. RemindersTypeOK
    BY <2>1, <2>2 DEF RemindersInit, RemindersTypeOK
  <2>4. AtHome /\ lost \subseteq DOMAIN triggers
    BY DEF RemindersInit, AtHome
  <2> QED BY <2>1, <2>2, <2>3, <2>4
          DEF RemindersInv, OfRules, OneHolder, PendingHeld, AlertsSpaced
<1>2. RemindersInv /\ [RemindersNext]_reminderVars => RemindersInv'
  <2> SUFFICES ASSUME RemindersInv, [RemindersNext]_reminderVars PROVE RemindersInv'
    OBVIOUS
  <2>0. RemindersTypeOK /\ AtHome
    BY DEF RemindersInv
  <2>1. ASSUME NEW k \in ReminderKeys, NEW r \in Reminders, NEW type \in RuleType,
               CreateReminder(k, r, type)
        PROVE  RemindersInv'
    <3> DEFINE rule == [id |-> r, version |-> 1, status |-> "draft", type |-> type]
    <3>1. rule \in ReminderRule /\ rule.id = r
      BY DEF ReminderRule, ReminderStatus
    <3>2. /\ VersionOf(r) = 0 /\ rules' = [rules EXCEPT ![rule.id] = rule]
          /\ ruleKeys' = [ruleKeys EXCEPT ![k] = rule]
          /\ UNCHANGED clock /\ UNCHANGED watchState
      BY <2>1 DEF CreateReminder, SaveRule
    <3>3. rules[r] = NoRule
      BY <2>0, <3>2 DEF RemindersTypeOK, VersionOf, ReminderRule
    <3> HIDE DEF rule
    <3> QED BY <3>1, <3>2, <3>3, RuleSaved
  <2>2. ASSUME NEW k \in ReminderKeys, NEW r \in Reminders, NEW target \in {"active", "disabled"},
               SetStatus(k, r, target)
        PROVE  RemindersInv'
    <3> DEFINE rule == [rules[r] EXCEPT !.version = @ + 1, !.status = target]
    <3>1. rules[r] \in ReminderRule /\ rules[r].id = r /\ rules[r].version < MaxRuleVersion
      BY <2>0, <2>2 DEF RemindersTypeOK, AtHome, SetStatus
    <3>a. rules[r].version + 1 \in 1..MaxRuleVersion /\ target \in ReminderStatus
      BY <3>1 DEF ReminderRule, ReminderStatus
    <3>2. rule \in ReminderRule /\ rule.id = r /\ rule.type = rules[r].type
      BY <3>1, <3>a DEF ReminderRule
    <3>3. /\ rules' = [rules EXCEPT ![rule.id] = rule]
          /\ ruleKeys' = [ruleKeys EXCEPT ![k] = rule]
          /\ UNCHANGED clock /\ UNCHANGED watchState
      BY <2>2 DEF SetStatus, SaveRule
    <3> HIDE DEF rule
    <3> QED BY <3>2, <3>3, RuleSaved
  <2>3. ASSUME NEW w \in Runs,
               \/ StartRun(w) \/ AwaitObservation(w) \/ StaleAnswer(w)
               \/ \E o \in Answers : BadAnswer(w, o)
        PROVE  RemindersInv'
    BY <2>3, QuietSteps
  <2>4. ASSUME NEW w \in Runs, NEW o \in Answers, Observe(w, o) PROVE RemindersInv'
    BY <2>4, ObservationKept
  <2>5. ASSUME NEW w \in Runs, Attempt(w) \/ RunDies(w) PROVE RemindersInv'
    BY <2>5, AttemptKept, RunDeathKept
  <2>6. CASE TimePasses \/ UNCHANGED reminderVars
    <3>1. /\ UNCHANGED <<rules, ruleKeys, lastSeen, triggers, provided, reminderRuns, lost>>
          /\ clock' \in 1..MaxClock
      BY <2>0, <2>6 DEF TimePasses, reminderVars, ruleState, watchState, RemindersTypeOK
    <3>2. RemindersTypeOK'
      BY <2>0, <3>1 DEF RemindersTypeOK
    <3>3. \A w \in Runs : RunOK(reminderRuns[w])'
      BY <3>1 DEF RemindersInv, RunOK, Known
    <3> QED BY <3>1, <3>2, <3>3
            DEF RemindersInv, AtHome, OfRules, OneHolder, PendingHeld, AlertsSpaced
  <2> QED BY <2>1, <2>2, <2>3, <2>4, <2>5, <2>6 DEF RemindersNext
<1> QED BY <1>1, <1>2, PTL DEF RemindersSpec

(* Two triggers of one version of a rule are never closer than the cool-down *)
(* however the worker runs of the reminder overlap, die and start again.     *)
THEOREM CooldownKept == RemindersSpec => []AlertsSpaced
<1>1. RemindersInv => AlertsSpaced
  BY DEF RemindersInv
<1> QED BY <1>1, RemindersInvariance, PTL

(* A trigger is held by one run at most, and it is pending as long as a run  *)
(* holds it or because the run that held it died.                            *)
THEOREM OneDelivery == RemindersSpec => []OneRunPerTrigger
<1>1. RemindersInv => OneRunPerTrigger
  <2> SUFFICES ASSUME RemindersInv, NEW t \in DOMAIN triggers
               PROVE  LET holders == {w \in Runs : reminderRuns[w].trigger = t} IN
                        /\ Cardinality(holders) <= 1
                        /\ triggers[t].status = "pending" <=> (holders # {} \/ t \in lost)
    BY Zenon DEF OneRunPerTrigger
  <2> DEFINE holders == {w \in Runs : reminderRuns[w].trigger = t}
  <2>1. t # NoRule
    BY RemindersAssumption DEF RemindersInv, RemindersTypeOK
  <2>2. \A v, w \in holders : v = w
    BY <2>1 DEF RemindersInv, OneHolder
  <2>3. Cardinality(holders) <= 1
    <3>1. CASE holders = {}
      BY <3>1, FS_EmptySet
    <3>2. CASE holders # {}
      <4>1. PICK w : holders = {w}
        BY <2>2, <3>2
      <4> QED BY <4>1, FS_Singleton
    <3> QED BY <3>1, <3>2
  <2>4. holders # {} <=> \E w \in Runs : reminderRuns[w].trigger = t
    OBVIOUS
  <2>5. triggers[t].status = "pending" <=> (t \in lost \/ \E w \in Runs : reminderRuns[w].trigger = t)
    BY DEF RemindersInv, PendingHeld
  <2> QED BY <2>3, <2>4, <2>5
<1> QED BY <1>1, RemindersInvariance, PTL

(*****************************************************************************)
(* Watchlists.tla                                                            *)
(*****************************************************************************)
(* A classified import is an import: rows keep their number and securities.  *)
LEMMA ClassifiedRows ==
  ASSUME NEW rows \in CallerRows
  PROVE  Classify(rows) \in Rows
<1>1. PICK n \in 1..MaxRows : rows \in [1..n -> ParsedRows]
  BY DEF CallerRows
<1>2. ASSUME NEW i \in 1..n PROVE Classify(rows)[i] \in ImportRow
  BY <1>1, WatchlistsAssumption DEF Classify, ImportRow, ImportStatus
<1>3. Classify(rows) \in [1..n -> ImportRow]
  BY <1>1, <1>2 DEF Classify
<1>4. QED
  BY <1>1, <1>3 DEF Rows

(* An import that is staged adds securities, and no row without one.         *)
LEMMA ImportedAreStocks ==
  ASSUME NEW import, NoStock \notin ImportedStocks(import)
  PROVE  ImportedStocks(import) \subseteq Stocks
BY DEF ImportedStocks, Importable

(* An approval under a free key adds its import to the approved ones.        *)
LEMMA ApprovalAdds ==
  ASSUME WatchlistsTypeOK, NEW k \in ImportKeys, NEW import \in classified,
         ApproveImport(k, import)
  PROVE  Approved' = Approved \cup {import}
<1>1. import \in Import /\ import # NoImport
  BY WatchlistsAssumption DEF WatchlistsTypeOK
<1>2. /\ importReceipts[k] = NoImport
      /\ importReceipts' = [importReceipts EXCEPT ![k] = import]
      /\ importReceipts \in [ImportKeys -> Import \cup {NoImport}]
  BY DEF ApproveImport, WatchlistsTypeOK
<1>3. ASSUME NEW i \in Approved PROVE i \in Approved'
  BY <1>2, <1>3 DEF Approved
<1>4. import \in Approved'
  BY <1>1, <1>2 DEF Approved
<1>5. ASSUME NEW i \in Approved' PROVE i \in Approved \cup {import}
  BY <1>2, <1>5 DEF Approved
<1>6. QED
  BY <1>3, <1>4, <1>5

WatchlistsInv == WatchlistsTypeOK /\ MembersAreImports

(* Merging says of every member what the import adds to what was said.       *)
LEMMA ApprovalMerges ==
  ASSUME WatchlistsInv, NEW k \in ImportKeys, NEW import \in classified,
         ApproveImport(k, import)
  PROVE  MembersAreImports'
<1> DEFINE added == ImportedStocks(import)
<1>1. Approved' = Approved \cup {import}
  BY ApprovalAdds DEF WatchlistsInv
<1>2. members' = [s \in DOMAIN members \cup added |->
        (IF s \in DOMAIN members THEN members[s] ELSE {})
          \cup (IF s \in added THEN {import.source} ELSE {})]
  BY DEF ApproveImport, Merged
<1>3. DOMAIN members' = DOMAIN members \cup added
  BY <1>2
<1>4. DOMAIN members = UNION {ImportedStocks(i) : i \in Approved}
  BY DEF WatchlistsInv, MembersAreImports
<1>5. DOMAIN members' = UNION {ImportedStocks(i) : i \in Approved'}
  BY <1>1, <1>3, <1>4, Zenon
<1>6. ASSUME NEW s \in DOMAIN members'
      PROVE  members'[s] = {i.source : i \in {j \in Approved' : s \in ImportedStocks(j)}}
  <2> DEFINE said(A) == {i.source : i \in {j \in A : s \in ImportedStocks(j)}}
  <2>1. said(Approved \cup {import}) = said(Approved) \cup (IF s \in added THEN {import.source} ELSE {})
    <3> HIDE DEF added
    <3>1. CASE s \in added
      BY <3>1, Zenon DEF added
    <3>2. CASE s \notin added
      BY <3>2, Zenon DEF added
    <3> QED BY <3>1, <3>2
  <2>2. members'[s] = (IF s \in DOMAIN members THEN members[s] ELSE {})
          \cup (IF s \in added THEN {import.source} ELSE {})
    BY <1>2, <1>3, <1>6, Zenon
  <2>3. CASE s \in DOMAIN members
    <3>1. members[s] = said(Approved)
      BY <2>3 DEF WatchlistsInv, MembersAreImports
    <3> QED BY <1>1, <2>1, <2>2, <2>3, <3>1, Zenon
  <2>4. CASE s \notin DOMAIN members
    <3>1. said(Approved) = {}
      BY <1>4, <2>4
    <3>2. members'[s] = said(Approved \cup {import})
      BY <2>1, <2>2, <2>4, <3>1
    <3> QED BY <1>1, <3>2, Zenon
  <2> QED BY <2>3, <2>4
<1> QED BY <1>5, <1>6, Zenon DEF MembersAreImports

(* The types and the property are kept by every call.                        *)
THEOREM WatchlistsInvariance == WatchlistsSpec => []WatchlistsInv
<1>1. WatchlistsInit => WatchlistsInv
  <2> SUFFICES ASSUME WatchlistsInit PROVE WatchlistsInv
    OBVIOUS
  <2>1. WatchlistsTypeOK
    BY DEF WatchlistsInit, WatchlistsTypeOK
  <2>2. Approved = {}
    BY DEF WatchlistsInit, Approved
  <2>3. DOMAIN members = {}
    BY DEF WatchlistsInit
  <2>4. MembersAreImports
    BY <2>2, <2>3 DEF MembersAreImports
  <2> QED BY <2>1, <2>4 DEF WatchlistsInv
<1>2. WatchlistsInv /\ [WatchlistsNext]_watchlistVars => WatchlistsInv'
  <2> SUFFICES ASSUME WatchlistsInv, [WatchlistsNext]_watchlistVars PROVE WatchlistsInv'
    OBVIOUS
  <2>0. WatchlistsTypeOK
    BY DEF WatchlistsInv
  <2>a. UNCHANGED <<members, importReceipts>> => MembersAreImports'
    BY DEF WatchlistsInv, MembersAreImports, Approved
  <2>1. ASSUME NEW rows \in CallerRows, NEW source \in Sources, ValidateImport(rows, source)
        PROVE  WatchlistsInv'
    <3>1. [rows |-> Classify(rows), source |-> source] \in Import
      BY ClassifiedRows DEF Import
    <3>2. WatchlistsTypeOK'
      BY <2>0, <2>1, <3>1 DEF WatchlistsTypeOK, ValidateImport
    <3> QED BY <2>a, <2>1, <3>2 DEF ValidateImport, WatchlistsInv
  <2>2. ASSUME NEW k \in ImportKeys, NEW import \in classified, ApproveImport(k, import)
        PROVE  WatchlistsInv'
    <3> DEFINE added == ImportedStocks(import)
    <3>1. import \in Import /\ import.source \in Sources
      BY <2>0 DEF WatchlistsTypeOK, Import
    <3>2. added \subseteq Stocks
      BY <2>2, ImportedAreStocks DEF ApproveImport
    <3>3. members' = [s \in DOMAIN members \cup added |->
            (IF s \in DOMAIN members THEN members[s] ELSE {})
              \cup (IF s \in added THEN {import.source} ELSE {})]
      BY <2>2 DEF ApproveImport, Merged
    <3>4. /\ DOMAIN members' \subseteq Stocks
          /\ \A s \in DOMAIN members' : members'[s] \in Membership
      <4> HIDE DEF added
      <4> QED BY <2>0, <3>1, <3>2, <3>3 DEF WatchlistsTypeOK, Membership
    <3>5. /\ importReceipts' = [importReceipts EXCEPT ![k] = import]
          /\ UNCHANGED <<groups, groupReceipts, snapshots, classified>>
      BY <2>2 DEF ApproveImport
    <3>6. WatchlistsTypeOK'
      BY <2>0, <3>1, <3>4, <3>5 DEF WatchlistsTypeOK
    <3> QED BY <2>2, <3>6, ApprovalMerges DEF WatchlistsInv
  <2>3. ASSUME NEW g \in Groups, CreateGroup(g) PROVE WatchlistsInv'
    BY <2>0, <2>a, <2>3 DEF CreateGroup, WatchlistsTypeOK, WatchlistsInv
  <2>4. ASSUME NEW k \in SuggestionKeys, NEW s \in Stocks, NEW p \in Groups, NEW g \in Groups,
               AcceptSuggestion(k, s, p, g)
        PROVE  WatchlistsInv'
    <3>1. [security |-> s, proposed |-> p, selected |-> g] \in Suggestion
      BY DEF Suggestion
    <3> QED BY <2>0, <2>a, <2>4, <3>1 DEF AcceptSuggestion, WatchlistsTypeOK, WatchlistsInv
  <2>5. ASSUME NEW g \in DOMAIN groups \cup {NoStock}, FreezeUniverse(g) PROVE WatchlistsInv'
    <3> DEFINE ids == IF g = NoStock THEN DOMAIN members ELSE groups[g]
    <3>1. ids \subseteq Stocks /\ g \in Groups \cup {NoStock}
      BY <2>0 DEF WatchlistsTypeOK
    <3>2. /\ snapshots' = snapshots \cup {[group |-> g, ids |-> ids]}
          /\ UNCHANGED <<members, groups, importReceipts, groupReceipts, classified>>
      BY <2>5 DEF FreezeUniverse
    <3>3. WatchlistsTypeOK'
      <4> HIDE DEF ids
      <4> QED BY <2>0, <3>1, <3>2 DEF WatchlistsTypeOK
    <3> QED BY <2>a, <3>2, <3>3 DEF WatchlistsInv
  <2>6. CASE UNCHANGED watchlistVars
    BY <2>0, <2>a, <2>6 DEF watchlistVars, WatchlistsTypeOK, WatchlistsInv
  <2> QED BY <2>1, <2>2, <2>3, <2>4, <2>5, <2>6 DEF WatchlistsNext
<1> QED BY <1>1, <1>2, PTL DEF WatchlistsSpec

(* Members, groups, receipts, universes and classified imports keep types.  *)
THEOREM WatchlistsTypeCorrect == WatchlistsSpec => []WatchlistsTypeOK
<1>1. WatchlistsInv => WatchlistsTypeOK
  BY DEF WatchlistsInv
<1> QED BY <1>1, WatchlistsInvariance, PTL

(* The watchlist is what the approved imports said, and nothing else.        *)
THEOREM WatchlistIsImports == WatchlistsSpec => []MembersAreImports
<1>1. WatchlistsInv => MembersAreImports
  BY DEF WatchlistsInv
<1> QED BY <1>1, WatchlistsInvariance, PTL

(*****************************************************************************)
(* Scans.tla                                                                 *)
(*****************************************************************************)
(* What an evaluation says of a scan whose frozen model is in production,    *)
(* and what it says while that model is not: neither depends on the state.   *)
Served(scan, s) ==
  /\ scan.inputs[s].missing <= InferenceLimit
  /\ Output[scan.model, scan.inputs[s].value] # 0
Expected(scan, s) == Output[scan.model, scan.inputs[s].value]
ExpectedDisposition(scan, s) ==
  CASE Gated(scan, s) # "eligible" -> Gated(scan, s)
    [] Gated(scan, s) = "eligible" /\ ~Served(scan, s) -> "unavailable"
    [] OTHER -> IF Expected(scan, s) < MinProbability THEN "non_match" ELSE "matched"
ExpectedScore(scan, s) == Expected(scan, s) * Weight + scan.inputs[s].value
ExpectedMatches(scan) == {s \in Universe(scan) : ExpectedDisposition(scan, s) = "matched"}
ExpectedRank(scan, s) ==
  1 + Cardinality({t \in ExpectedMatches(scan) :
        \/ ExpectedScore(scan, t) > ExpectedScore(scan, s)
        \/ ExpectedScore(scan, t) = ExpectedScore(scan, s) /\ t < s})
Reproduced(scan) == [s \in Universe(scan) |->
  [disposition |-> ExpectedDisposition(scan, s),
   score |-> IF Gated(scan, s) = "eligible" /\ Served(scan, s) THEN ExpectedScore(scan, s) ELSE 0,
   rank |-> IF s \in ExpectedMatches(scan) THEN ExpectedRank(scan, s) ELSE 0]]
Unserved(scan) == [s \in Universe(scan) |->
  [disposition |-> IF Gated(scan, s) = "eligible" THEN "unavailable" ELSE Gated(scan, s),
   score |-> 0, rank |-> 0]]

Reproducible == \A e \in scanRuns : e.results \in {Reproduced(e.scan), Unserved(e.scan)}
ScansInv == ScansTypeOK /\ Reproducible

(* What the gate can say of a security.                                      *)
LEMMA GatedRange ==
  ASSUME NEW scan, NEW s
  PROVE  Gated(scan, s) \in {"eligible", "non_match", "unavailable"}
BY DEF Gated

(* A task has one production model at most: with a second, it has none.      *)
LEMMA OneProduction ==
  ASSUME NEW m, NEW n, NEW task, IsProduction(m, task), IsProduction(n, task)
  PROVE  m = n
BY DEF IsProduction

(* While the model of a scan is the production model, an evaluation is what  *)
(* its inputs say.                                                           *)
LEMMA ServedEvaluation ==
  ASSUME NEW scan \in Scan, IsProduction(scan.model, scan.task)
  PROVE  Evaluation(scan) = Reproduced(scan)
<1>0. scan.model \in Models
  BY DEF Scan
<1>1. (CHOOSE m \in Models : IsProduction(m, scan.task)) = scan.model
  BY <1>0, OneProduction
<1>2. ASSUME NEW s PROVE Probability(scan, s) = Expected(scan, s)
  BY <1>1 DEF Probability, Expected
<1>3. ASSUME NEW s PROVE Predicts(scan, s) <=> Served(scan, s)
  BY <1>0 DEF Predicts, Served
<1>4. ASSUME NEW s PROVE DispositionOf(scan, s) = ExpectedDisposition(scan, s)
  BY <1>2, <1>3 DEF DispositionOf, ExpectedDisposition
<1>5. ASSUME NEW s PROVE Score(scan, s) = ExpectedScore(scan, s)
  BY <1>2 DEF Score, ExpectedScore
<1>6. Matches(scan) = ExpectedMatches(scan)
  BY <1>4 DEF Matches, ExpectedMatches
<1>7. ASSUME NEW s PROVE Rank(scan, s) = ExpectedRank(scan, s)
  <2>1. {t \in Matches(scan) : Ahead(scan, t, s)} =
          {t \in ExpectedMatches(scan) :
             \/ ExpectedScore(scan, t) > ExpectedScore(scan, s)
             \/ ExpectedScore(scan, t) = ExpectedScore(scan, s) /\ t < s}
    BY <1>5, <1>6 DEF Ahead
  <2> QED BY <2>1 DEF Rank, ExpectedRank
<1>8. ASSUME NEW s \in Universe(scan) PROVE Evaluation(scan)[s] = Reproduced(scan)[s]
  BY <1>3, <1>4, <1>5, <1>6, <1>7, <1>8 DEF Evaluation, Reproduced, Scored
<1> QED BY <1>8 DEF Evaluation, Reproduced

(* Otherwise every security the gate lets through is unavailable.            *)
LEMMA UnservedEvaluation ==
  ASSUME NEW scan \in Scan, ~IsProduction(scan.model, scan.task)
  PROVE  Evaluation(scan) = Unserved(scan)
<1>1. ASSUME NEW s PROVE ~Predicts(scan, s)
  BY DEF Predicts
<1>2. ASSUME NEW s
      PROVE  DispositionOf(scan, s) = IF Gated(scan, s) = "eligible" THEN "unavailable" ELSE Gated(scan, s)
  BY <1>1 DEF DispositionOf
<1>3. Matches(scan) = {}
  BY <1>2, GatedRange DEF Matches
<1> QED BY <1>1, <1>2, <1>3 DEF Evaluation, Unserved, Scored

(* Both give a result of the right type.                                     *)
LEMMA EvaluationTyped ==
  ASSUME NEW scan \in Scan, NEW s \in Universe(scan)
  PROVE  Reproduced(scan)[s] \in Result /\ Unserved(scan)[s] \in Result
<1>1. scan.model \in Models /\ s \in Securities /\ scan.inputs[s] \in Inputs
  BY DEF Scan, Universe
<1>2. Gated(scan, s) = "eligible" => Expected(scan, s) \in Int /\ ExpectedScore(scan, s) \in Int
  <2> SUFFICES ASSUME Gated(scan, s) = "eligible"
               PROVE  Expected(scan, s) \in Int /\ ExpectedScore(scan, s) \in Int
    OBVIOUS
  <2>1. scan.inputs[s].value # 0
    BY DEF Gated, Complete
  <2>2. Expected(scan, s) \in Int
    BY <1>1, <2>1, ScansAssumption DEF Expected
  <2>3. Weight \in Int /\ scan.inputs[s].value \in Int
    BY <1>1, ScansAssumption
  <2> QED BY <2>2, <2>3 DEF ExpectedScore
<1>3. ExpectedRank(scan, s) \in Nat
  <2> DEFINE ahead == {t \in ExpectedMatches(scan) :
               \/ ExpectedScore(scan, t) > ExpectedScore(scan, s)
               \/ ExpectedScore(scan, t) = ExpectedScore(scan, s) /\ t < s}
  <2>1. ahead \subseteq Securities
    BY DEF ExpectedMatches, Universe
  <2>2. IsFiniteSet(ahead)
    BY <2>1, ScansAssumption, FS_Subset, Zenon
  <2>3. Cardinality(ahead) \in Nat
    BY <2>2, FS_CardinalityType, Zenon
  <2> QED BY <2>3 DEF ExpectedRank
<1>4. Gated(scan, s) \in {"eligible", "non_match", "unavailable"}
  BY GatedRange
<1>5. ExpectedDisposition(scan, s) \in Disposition
  BY <1>4 DEF ExpectedDisposition, Disposition
<1>6. Unserved(scan)[s] \in Result
  BY <1>4 DEF Unserved, Result, Disposition
<1>7. Reproduced(scan)[s] \in Result
  <2> DEFINE d == ExpectedDisposition(scan, s)
             w == IF Gated(scan, s) = "eligible" /\ Served(scan, s) THEN ExpectedScore(scan, s) ELSE 0
             r == IF s \in ExpectedMatches(scan) THEN ExpectedRank(scan, s) ELSE 0
  <2>1. d \in Disposition /\ w \in Int /\ r \in Nat
    BY <1>2, <1>3, <1>5
  <2>2. Reproduced(scan)[s] = [disposition |-> d, score |-> w, rank |-> r]
    BY DEF Reproduced
  <2> HIDE DEF d, w, r
  <2> QED BY <2>1, <2>2 DEF Result
<1> QED BY <1>6, <1>7

(* An evaluation adds a run whose results are one of the two.                *)
LEMMA EvaluationKept ==
  ASSUME ScansInv, NEW scan \in scans, EvaluateScan(scan)
  PROVE  ScansInv'
<1>1. scan \in Scan
  BY DEF ScansInv, ScansTypeOK
<1>2. Evaluation(scan) \in {Reproduced(scan), Unserved(scan)}
  BY <1>1, ServedEvaluation, UnservedEvaluation
<1>3. \A s \in DOMAIN Evaluation(scan) : Evaluation(scan)[s] \in Result
  <2>1. DOMAIN Evaluation(scan) = Universe(scan)
    BY DEF Evaluation
  <2> QED BY <1>1, <1>2, <2>1, EvaluationTyped
<1> DEFINE run == [scan |-> scan, results |-> Evaluation(scan)]
<1>4. run.scan = scan /\ run.results = Evaluation(scan)
  OBVIOUS
<1>5. scanRuns' = scanRuns \cup {run} /\ UNCHANGED <<registry, scans, decisions>>
  BY DEF EvaluateScan
<1>6. UNCHANGED strategyVars
  BY DEF EvaluateScan
<1> HIDE DEF run
<1>7. StrategiesTypeOK'
  BY <1>6 DEF ScansInv, ScansTypeOK, StrategiesTypeOK, strategyVars
<1>8. ASSUME NEW e \in scanRuns'
      PROVE  /\ e.scan \in scans /\ \A s \in DOMAIN e.results : e.results[s] \in Result
             /\ e.results \in {Reproduced(e.scan), Unserved(e.scan)}
  <2>1. CASE e \in scanRuns
    BY <2>1 DEF ScansInv, ScansTypeOK, Reproducible
  <2>2. CASE e = run
    BY <1>2, <1>3, <1>4, <2>2
  <2> QED BY <1>5, <2>1, <2>2
<1>9. ScansTypeOK'
  BY <1>5, <1>7, <1>8 DEF ScansInv, ScansTypeOK
<1>10. Reproducible'
  BY <1>8 DEF Reproducible
<1> QED BY <1>9, <1>10 DEF ScansInv

(* The types hold, and every evaluation is one of the two, in every state.   *)
THEOREM ScansInvariance == ScansSpec => []ScansInv
<1>1. ScansInit => ScansInv
  <2> SUFFICES ASSUME ScansInit PROVE ScansInv
    OBVIOUS
  <2>1. StrategiesTypeOK
    BY StrategiesAssumption DEF ScansInit, StrategiesInit, StrategiesTypeOK
  <2>2. DOMAIN registry = {} /\ scans = {} /\ scanRuns = {} /\ decisions = {}
    BY DEF ScansInit
  <2> QED BY <2>1, <2>2 DEF ScansInv, ScansTypeOK, Reproducible
<1>2. ScansInv /\ [ScansNext]_scanVars => ScansInv'
  <2> SUFFICES ASSUME ScansInv, [ScansNext]_scanVars PROVE ScansInv'
    OBVIOUS
  <2>0. ScansTypeOK /\ Reproducible /\ StrategiesTypeOK
    BY DEF ScansInv, ScansTypeOK
  <2>a. UNCHANGED scanRuns => Reproducible'
    BY <2>0 DEF Reproducible
  <2>b. UNCHANGED strategyVars => StrategiesTypeOK'
    BY <2>0 DEF StrategiesTypeOK, strategyVars
  <2>1. ASSUME NEW k \in PublishKeys, NEW d \in Drafts, PublishStrategy(k, d) PROVE ScansInv'
    <3>1. StrategiesTypeOK'
      <4>1. strategyVersions \in Seq(Drafts) /\ Len(strategyVersions) + 1 \in 0..MaxStrategyVersion
        BY <2>0, <2>1, StrategiesAssumption DEF StrategiesTypeOK, PublishStrategy, Publish
      <4> QED BY <2>0, <2>1, <4>1 DEF StrategiesTypeOK, PublishStrategy, Publish
    <3> QED BY <2>0, <2>a, <2>1, <3>1 DEF PublishStrategy, ScansInv, ScansTypeOK
  <2>2. ASSUME NEW c \in Candidates, RegisterModel(c) PROVE ScansInv'
    <3>1. PassesGate(c) \in BOOLEAN
      BY DEF PassesGate
    <3>2. [task |-> c.task, status |-> "candidate", passed |-> PassesGate(c)] \in Entry
      BY <3>1, ScansAssumption DEF Entry
    <3>3. c.model \in Models
      BY ScansAssumption
    <3>4. UNCHANGED strategyVars /\ UNCHANGED <<scans, scanRuns, decisions>>
      BY <2>2 DEF RegisterModel
    <3>5. DOMAIN registry' \subseteq Models /\ \A m \in DOMAIN registry' : registry'[m] \in Entry
      BY <2>0, <2>2, <3>2, <3>3 DEF RegisterModel, ScansTypeOK
    <3> QED BY <2>0, <2>a, <2>b, <3>4, <3>5 DEF ScansInv, ScansTypeOK
  <2>3. ASSUME NEW m \in Models, ApproveModel(m) PROVE ScansInv'
    <3>1. UNCHANGED strategyVars /\ UNCHANGED <<scans, scanRuns, decisions>>
      BY <2>3 DEF ApproveModel
    <3>2. DOMAIN registry' \subseteq Models /\ \A n \in DOMAIN registry' : registry'[n] \in Entry
      BY <2>0, <2>3 DEF ApproveModel, ScansTypeOK, Entry
    <3> QED BY <2>0, <2>a, <2>b, <3>1, <3>2 DEF ScansInv, ScansTypeOK
  <2>4. ASSUME NEW m \in Models, NEW breached \in BOOLEAN, NEW baseline \in Models \cup {NoDraft},
               MonitorModel(m, breached, baseline)
        PROVE  ScansInv'
    <3>1. Observed(m, breached, baseline) \in Decision
      BY DEF Observed, Decision
    <3>2. /\ UNCHANGED strategyVars /\ UNCHANGED <<registry, scans, scanRuns>>
          /\ decisions' = decisions \cup {Observed(m, breached, baseline)}
      BY <2>4 DEF MonitorModel
    <3> QED BY <2>0, <2>a, <2>b, <3>1, <3>2 DEF ScansInv, ScansTypeOK
  <2>5. ASSUME NEW v \in 1..MaxStrategyVersion, NEW draft \in Drafts, NEW m \in Models,
               NEW task \in Tasks, NEW inputs \in [Securities -> Inputs \cup {NoDraft}],
               SubmitScan(v, draft, m, task, inputs)
        PROVE  ScansInv'
    <3> DEFINE scan == [strategy |-> v, draft |-> draft,
                        task |-> task, model |-> m, inputs |-> inputs]
    <3>3. scan \in Scan
      BY DEF Scan
    <3>4. /\ UNCHANGED strategyVars /\ UNCHANGED <<registry, scanRuns, decisions>>
          /\ scans' = scans \cup {scan}
      BY <2>5 DEF SubmitScan
    <3> HIDE DEF scan
    <3> QED BY <2>0, <2>a, <2>b, <3>3, <3>4 DEF ScansInv, ScansTypeOK
  <2>6. ASSUME NEW scan \in scans, EvaluateScan(scan) PROVE ScansInv'
    BY <2>6, EvaluationKept
  <2>7. ASSUME ScansRestart PROVE ScansInv'
    <3>1. StrategiesTypeOK'
      BY <2>7, StrategiesAssumption DEF ScansRestart, StrategiesTypeOK
    <3>2. DOMAIN registry' = {} /\ UNCHANGED <<scans, scanRuns, decisions>>
      BY <2>7 DEF ScansRestart
    <3> QED BY <2>0, <2>a, <3>1, <3>2 DEF ScansInv, ScansTypeOK
  <2>8. CASE UNCHANGED scanVars
    BY <2>0, <2>a, <2>b, <2>8 DEF scanVars, strategyVars, ScansInv, ScansTypeOK
  <2> QED BY <2>1, <2>2, <2>3, <2>4, <2>5, <2>6, <2>7, <2>8 DEF ScansNext
<1> QED BY <1>1, <1>2, PTL DEF ScansSpec

(* Two evaluations of a scan differ where one could not evaluate, only.      *)
THEOREM RanksAreKept == ScansSpec => []RunsAgree
<1>1. ScansInv => RunsAgree
  <2> SUFFICES ASSUME ScansInv, NEW e \in scanRuns, NEW f \in scanRuns, e.scan = f.scan,
                      NEW s \in DOMAIN e.results
               PROVE  \/ e.results[s] = f.results[s]
                      \/ e.results[s].disposition = "unavailable"
                      \/ f.results[s].disposition = "unavailable"
    BY DEF RunsAgree
  <2> DEFINE scan == e.scan
  <2>1. /\ e.results \in {Reproduced(scan), Unserved(scan)}
        /\ f.results \in {Reproduced(scan), Unserved(scan)}
    BY DEF ScansInv, Reproducible
  <2>2. s \in Universe(scan)
    BY <2>1 DEF Reproduced, Unserved
  <2>3. \/ Reproduced(scan)[s] = Unserved(scan)[s]
        \/ Unserved(scan)[s].disposition = "unavailable"
    <3>1. CASE Gated(scan, s) = "eligible"
      BY <2>2, <3>1 DEF Unserved
    <3>2. CASE Gated(scan, s) # "eligible"
      <4>1. ExpectedDisposition(scan, s) = Gated(scan, s)
        BY <3>2 DEF ExpectedDisposition
      <4>2. s \notin ExpectedMatches(scan)
        BY <4>1, GatedRange DEF ExpectedMatches
      <4> QED BY <2>2, <3>2, <4>1, <4>2 DEF Reproduced, Unserved
    <3> QED BY <3>1, <3>2
  <2> QED BY <2>1, <2>3
<1> QED BY <1>1, ScansInvariance, PTL

(*****************************************************************************)
(* ModelCalls.tla                                                            *)
(*****************************************************************************)
(* The calls that may still add to what is spent.                            *)
Charging == {c \in Callers : modelCalls[c].at = "calling" /\ modelCalls[c].kind # "stream"}

(* A call that waits has made no attempt; no more calls are admitted than    *)
(* the semaphore has room for; and if each of those that may charge the      *)
(* route charged the most an answer costs, the bound would still hold.       *)
Unstarted(r) == r.at \in {"new", "waiting"} => r.attempts = 0
SemaphoreHeld == IsFiniteSet(Admitted) /\ Cardinality(Admitted) <= ConcurrencyLimit
Covered(n) == spent + n * MaxCost < Budget + ConcurrencyLimit * MaxCost
ModelInv ==
  /\ ModelCallsTypeOK
  /\ \A c \in Callers : Unstarted(modelCalls[c])
  /\ SemaphoreHeld
  /\ Covered(Cardinality(Charging))

(* Products of naturals.                                                     *)
LEMMA Multiples ==
  ASSUME NEW a \in Nat, NEW b \in Nat, a <= b, NEW m \in Nat
  PROVE  /\ a * m \in Nat /\ b * m \in Nat /\ a * m <= b * m
         /\ (a + 1) * m = a * m + m
OBVIOUS

(* The calls that will be charged hold a place of the semaphore each.        *)
LEMMA ChargingCounted ==
  ASSUME ModelInv
  PROVE  /\ Charging \subseteq Admitted
         /\ IsFiniteSet(Charging) /\ Cardinality(Charging) \in Nat
         /\ Cardinality(Admitted) \in Nat
         /\ Cardinality(Charging) <= Cardinality(Admitted)
<1>1. Charging \subseteq Admitted
  BY DEF Charging, Admitted
<1>2. IsFiniteSet(Admitted)
  BY DEF ModelInv, SemaphoreHeld
<1> QED BY <1>1, <1>2, FS_Subset, FS_CardinalityType

(* A call that leaves the provider, having charged the most or less.         *)
LEMMA Released ==
  ASSUME ModelInv, NEW c \in Callers, NEW r \in ModelCall, r.at # "calling", Unstarted(r),
         modelCalls' = [modelCalls EXCEPT ![c] = r],
         spent' = spent \/ (c \in Charging /\ spent' \in spent..(spent + MaxCost))
  PROVE  ModelInv'
<1> USE ModelCallsAssumption
<1>0. modelCalls \in [Callers -> ModelCall] /\ spent \in Nat
  BY DEF ModelInv, ModelCallsTypeOK
<1>1. ModelCallsTypeOK' /\ \A d \in Callers : Unstarted(modelCalls'[d])
  <2>1. modelCalls' \in [Callers -> ModelCall]
    BY <1>0
  <2>2. spent' \in Nat
    BY <1>0
  <2>3. \A d \in Callers : Unstarted(modelCalls'[d])
    BY <1>0 DEF ModelInv
  <2> QED BY <2>1, <2>2, <2>3 DEF ModelCallsTypeOK
<1>2. Admitted' = Admitted \ {c} /\ Charging' = Charging \ {c}
  BY <1>0 DEF Admitted, Charging
<1>3. SemaphoreHeld'
  <2>1. IsFiniteSet(Admitted) /\ Cardinality(Admitted) <= ConcurrencyLimit
    BY DEF ModelInv, SemaphoreHeld
  <2>2. /\ IsFiniteSet(Admitted \ {c}) /\ Cardinality(Admitted) \in Nat
        /\ Cardinality(Admitted \ {c}) =
             IF c \in Admitted THEN Cardinality(Admitted) - 1 ELSE Cardinality(Admitted)
    BY <2>1, FS_RemoveElement, FS_CardinalityType
  <2> QED BY <1>2, <2>1, <2>2 DEF SemaphoreHeld
<1>4. Covered(Cardinality(Charging))'
  <2> DEFINE n == Cardinality(Charging)
  <2>1. IsFiniteSet(Charging) /\ n \in Nat
    BY ChargingCounted
  <2>2. Cardinality(Charging \ {c}) = IF c \in Charging THEN n - 1 ELSE n
    BY <2>1, FS_RemoveElement
  <2>3. spent + n * MaxCost < Budget + ConcurrencyLimit * MaxCost
    BY DEF ModelInv, Covered
  <2>4. CASE c \notin Charging
    BY <1>2, <2>2, <2>3, <2>4 DEF Covered
  <2>5. CASE c \in Charging
    <3>1. n # 0
      BY <2>1, <2>5, FS_EmptySet
    <3>2. n - 1 \in Nat /\ n - 1 <= n
      BY <2>1, <3>1
    <3> DEFINE m == n - 1
    <3>3. n = m + 1
      BY <2>1
    <3> HIDE DEF m, n
    <3>4. m * MaxCost \in Nat /\ (m + 1) * MaxCost = m * MaxCost + MaxCost
      BY <3>2, Multiples DEF m
    <3>5. ConcurrencyLimit * MaxCost \in Nat
      BY Multiples
    <3>6. spent' <= spent + MaxCost /\ spent' \in Nat
      BY <1>0
    <3>7. spent' + m * MaxCost < Budget + ConcurrencyLimit * MaxCost
      BY <1>0, <2>3, <3>3, <3>4, <3>5, <3>6
    <3> QED BY <1>2, <2>2, <2>5, <3>7 DEF Covered, m, n
  <2> QED BY <2>4, <2>5
<1> QED BY <1>1, <1>3, <1>4 DEF ModelInv

(* A call that is at the provider after the step: it was there before, or    *)
(* the semaphore had room; a call that may charge found budget left.         *)
LEMMA AtProvider ==
  ASSUME ModelInv, NEW c \in Callers, NEW r \in ModelCall, r.at = "calling",
         r.kind = modelCalls[c].kind,
         modelCalls' = [modelCalls EXCEPT ![c] = r], spent' = spent,
         c \in Admitted \/ Cardinality(Admitted) < ConcurrencyLimit,
         r.kind = "stream" \/ spent < Budget
  PROVE  ModelInv'
<1> USE ModelCallsAssumption
<1>0. modelCalls \in [Callers -> ModelCall] /\ spent \in Nat
  BY DEF ModelInv, ModelCallsTypeOK
<1>1. ModelCallsTypeOK' /\ \A d \in Callers : Unstarted(modelCalls'[d])
  <2>1. modelCalls' \in [Callers -> ModelCall] /\ spent' \in Nat
    BY <1>0
  <2>2. Unstarted(r)
    BY DEF Unstarted
  <2>3. \A d \in Callers : Unstarted(modelCalls'[d])
    BY <1>0, <2>2 DEF ModelInv
  <2> QED BY <2>1, <2>3 DEF ModelCallsTypeOK
<1>2. Admitted' = Admitted \cup {c}
  BY <1>0 DEF Admitted
<1>3. SemaphoreHeld'
  <2>1. IsFiniteSet(Admitted) /\ Cardinality(Admitted) <= ConcurrencyLimit
    BY DEF ModelInv, SemaphoreHeld
  <2>2. /\ IsFiniteSet(Admitted \cup {c}) /\ Cardinality(Admitted) \in Nat
        /\ Cardinality(Admitted \cup {c}) =
             IF c \in Admitted THEN Cardinality(Admitted) ELSE Cardinality(Admitted) + 1
    BY <2>1, FS_AddElement, FS_CardinalityType
  <2> QED BY <1>2, <2>1, <2>2 DEF SemaphoreHeld
<1>4. Covered(Cardinality(Charging))'
  <2>1. CASE r.kind = "stream"
    <3>1. Charging' = Charging
      BY <1>0, <2>1 DEF Charging
    <3> QED BY <3>1 DEF ModelInv, Covered
  <2>2. CASE spent < Budget
    <3>1. Charging' \subseteq Admitted'
      BY DEF Charging, Admitted
    <3>2. /\ Cardinality(Charging') \in Nat /\ Cardinality(Admitted') \in Nat
          /\ Cardinality(Charging') <= Cardinality(Admitted')
      BY <1>3, <3>1, FS_Subset, FS_CardinalityType DEF SemaphoreHeld
    <3> DEFINE n == Cardinality(Charging')
    <3>3. n \in Nat /\ n <= ConcurrencyLimit
      BY <1>3, <3>2 DEF SemaphoreHeld
    <3> HIDE DEF n
    <3>4. n * MaxCost \in Nat /\ ConcurrencyLimit * MaxCost \in Nat
          /\ n * MaxCost <= ConcurrencyLimit * MaxCost
      BY <3>3, Multiples
    <3>5. spent' + n * MaxCost < Budget + ConcurrencyLimit * MaxCost
      BY <1>0, <2>2, <3>4
    <3> QED BY <3>5 DEF Covered, n
  <2> QED BY <2>1, <2>2
<1> QED BY <1>1, <1>3, <1>4 DEF ModelInv

(* What Over and TryModel do to the record of the call.                      *)
LEMMA OverReleases ==
  ASSUME ModelInv, NEW c \in Callers, NEW outcome \in Outcome, Over(c, outcome),
         spent' = spent \/ (c \in Charging /\ spent' \in spent..(spent + MaxCost))
  PROVE  ModelInv'
<1> DEFINE r == [modelCalls[c] EXCEPT !.at = "over", !.outcome = outcome]
<1>0. modelCalls \in [Callers -> ModelCall]
  BY DEF ModelInv, ModelCallsTypeOK
<1>1. r \in ModelCall
  BY <1>0 DEF ModelCall
<1>2. r.at = "over"
  BY <1>0 DEF ModelCall
<1>3. modelCalls' = [modelCalls EXCEPT ![c] = r]
  BY <1>0 DEF Over
<1> HIDE DEF r
<1>4. Unstarted(r)
  BY <1>2 DEF Unstarted
<1> QED BY <1>1, <1>2, <1>3, <1>4, Released

(* A call that goes to a provider holds a place of the semaphore.            *)
LEMMA TryKeeps ==
  ASSUME ModelInv, NEW c \in Callers, TryModel(c), spent' = spent,
         modelCalls[c].attempts < Endpoints * MaxAttempts,
         c \in Admitted \/ Cardinality(Admitted) < ConcurrencyLimit
  PROVE  ModelInv'
<1> USE ModelCallsAssumption
<1> DEFINE r == [modelCalls[c] EXCEPT !.at = "calling", !.attempts = @ + 1]
<1>0. modelCalls \in [Callers -> ModelCall] /\ spent \in Nat
  BY DEF ModelInv, ModelCallsTypeOK
<1>1. CASE Exhausted /\ modelCalls[c].kind # "stream"
  <2>1. Over(c, "budget_exceeded")
    BY <1>1 DEF TryModel
  <2> QED BY <2>1, OverReleases DEF Outcome
<1>2. CASE ~(Exhausted /\ modelCalls[c].kind # "stream")
  <2>1. modelCalls' = [modelCalls EXCEPT ![c] = r]
    BY <1>0, <1>2 DEF TryModel
  <2>2. modelCalls[c].attempts + 1 \in 0..(Endpoints * MaxAttempts)
    <3> DEFINE limit == Endpoints * MaxAttempts
               attempts == modelCalls[c].attempts
    <3>1. limit \in Nat /\ attempts \in 0..limit /\ attempts < limit
      BY <1>0 DEF ModelCall
    <3> HIDE DEF limit, attempts
    <3>2. attempts + 1 \in 0..limit
      BY <3>1
    <3> QED BY <3>2 DEF limit, attempts
  <2>3. r \in ModelCall /\ r.at = "calling" /\ r.kind = modelCalls[c].kind
    BY <1>0, <2>2 DEF ModelCall
  <2>4. r.kind = "stream" \/ spent < Budget
    BY <1>0, <1>2, <2>3 DEF Exhausted
  <2> HIDE DEF r
  <2> QED BY <2>1, <2>3, <2>4, AtProvider
<1> QED BY <1>1, <1>2

(* Every step keeps the count of the calls, their sum and the types.         *)
THEOREM ModelInvariance == ModelCallsSpec => []ModelInv
<1> USE ModelCallsAssumption
<1>1. ModelCallsInit => ModelInv
  <2> SUFFICES ASSUME ModelCallsInit PROVE ModelInv
    OBVIOUS
  <2>0. Endpoints * MaxAttempts \in Nat
    OBVIOUS
  <2>1. ModelCallsTypeOK
    BY <2>0 DEF ModelCallsInit, ModelCallsTypeOK, ModelCall, Outcome
  <2>2. \A c \in Callers : Unstarted(modelCalls[c])
    BY DEF ModelCallsInit, Unstarted
  <2>3. Admitted = {} /\ Charging = {} /\ spent = 0
    BY DEF ModelCallsInit, Admitted, Charging
  <2>4. SemaphoreHeld
    BY <2>3, FS_EmptySet DEF SemaphoreHeld
  <2>5. Covered(Cardinality(Charging))
    <3>1. Cardinality(Charging) = 0
      BY <2>3, FS_EmptySet
    <3>2. ConcurrencyLimit * MaxCost \in Nat /\ 0 * MaxCost = 0
      OBVIOUS
    <3> QED BY <2>3, <3>1, <3>2 DEF Covered
  <2> QED BY <2>1, <2>2, <2>4, <2>5 DEF ModelInv
<1>2. ModelInv /\ [ModelCallsNext]_modelVars => ModelInv'
  <2> SUFFICES ASSUME ModelInv, [ModelCallsNext]_modelVars PROVE ModelInv'
    OBVIOUS
  <2>0. /\ modelCalls \in [Callers -> ModelCall] /\ spent \in Nat
        /\ \A c \in Callers : Unstarted(modelCalls[c])
    BY DEF ModelInv, ModelCallsTypeOK
  <2>1. ASSUME NEW c \in Callers, NEW kind \in {"text", "json", "stream"}, RequestModel(c, kind)
        PROVE  ModelInv'
    <3> DEFINE r == [modelCalls[c] EXCEPT !.at = "waiting", !.kind = kind]
    <3>1. modelCalls' = [modelCalls EXCEPT ![c] = r] /\ spent' = spent
      BY <2>0, <2>1 DEF RequestModel
    <3>2. r \in ModelCall /\ r.at = "waiting" /\ r.attempts = modelCalls[c].attempts
      BY <2>0 DEF ModelCall
    <3>3. modelCalls[c].attempts = 0
      BY <2>0, <2>1 DEF RequestModel, Unstarted
    <3> HIDE DEF r
    <3>4. Unstarted(r)
      BY <3>2, <3>3 DEF Unstarted
    <3> QED BY <3>1, <3>2, <3>4, Released
  <2>2. ASSUME NEW c \in Callers, Admit(c) PROVE ModelInv'
    <3>1. /\ TryModel(c) /\ spent' = spent /\ Cardinality(Admitted) < ConcurrencyLimit
      BY <2>2 DEF Admit
    <3>2. modelCalls[c].attempts = 0
      BY <2>0, <2>2 DEF Admit, Unstarted
    <3>3. 0 < Endpoints * MaxAttempts
      OBVIOUS
    <3> QED BY <3>1, <3>2, <3>3, TryKeeps
  <2>3. ASSUME NEW c \in Callers, NEW code \in RetryableCode \cup FinalCode, AttemptFails(c, code)
        PROVE  ModelInv'
    <3>1. c \in Admitted /\ spent' = spent
      BY <2>3 DEF AttemptFails, Admitted
    <3>2. /\ code \in Outcome /\ "unavailable" \in Outcome
      BY DEF Outcome, FinalCode
    <3>3. CASE Over(c, code)
      BY <3>1, <3>2, <3>3, OverReleases
    <3>4. CASE Over(c, "unavailable")
      BY <3>1, <3>2, <3>4, OverReleases
    <3>5. CASE TryModel(c) /\ modelCalls[c].attempts < Endpoints * MaxAttempts
      BY <3>1, <3>5, TryKeeps
    <3> QED BY <2>3, <3>3, <3>4, <3>5 DEF AttemptFails
  <2>4. ASSUME NEW c \in Callers, StreamEnds(c) PROVE ModelInv'
    BY <2>4, OverReleases DEF StreamEnds, Outcome
  <2>5. ASSUME NEW c \in Callers, NEW cost \in 0..MaxCost, NEW fits \in BOOLEAN,
               AttemptAnswers(c, cost, fits)
        PROVE  ModelInv'
    <3>1. c \in Charging /\ spent' \in spent..(spent + MaxCost)
      BY <2>0, <2>5 DEF AttemptAnswers, Charging
    <3>2. {"unavailable", "answer", "invalid_response"} \subseteq Outcome
      BY DEF Outcome, FinalCode
    <3>3. ASSUME NEW outcome \in {"unavailable", "answer", "invalid_response"}, Over(c, outcome)
          PROVE  ModelInv'
      BY <3>1, <3>2, <3>3, OverReleases
    <3>4. ASSUME modelCalls[c].repairs # MaxRepairs,
                 modelCalls' = [modelCalls EXCEPT ![c].at = "waiting",
                          ![c].attempts = 0, ![c].repairs = @ + 1]
          PROVE  ModelInv'
      <4> DEFINE r == [modelCalls[c] EXCEPT !.at = "waiting", !.attempts = 0, !.repairs = @ + 1]
      <4>1. modelCalls' = [modelCalls EXCEPT ![c] = r]
        BY <2>0, <3>4
      <4>2. modelCalls[c].repairs + 1 \in 0..MaxRepairs
        BY <2>0, <3>4 DEF ModelCall
      <4>3. 0 \in 0..(Endpoints * MaxAttempts)
        OBVIOUS
      <4>4. r \in ModelCall /\ r.at = "waiting" /\ r.attempts = 0
        BY <2>0, <4>2, <4>3 DEF ModelCall
      <4> HIDE DEF r
      <4>5. Unstarted(r)
        BY <4>4 DEF Unstarted
      <4> QED BY <3>1, <4>1, <4>4, <4>5, Released
    <3>5. \/ \E outcome \in {"unavailable", "answer", "invalid_response"} : Over(c, outcome)
          \/ /\ modelCalls[c].repairs # MaxRepairs
             /\ modelCalls' = [modelCalls EXCEPT ![c].at = "waiting",
                          ![c].attempts = 0, ![c].repairs = @ + 1]
      <4>1. spent' > Budget \/ spent' <= Budget
        BY <2>0, <3>1
      <4>2. CASE spent' > Budget
        <5>1. Over(c, "unavailable")
          BY <2>0, <3>1, <2>5, <4>2 DEF AttemptAnswers
        <5> QED BY <5>1
      <4>3. CASE spent' <= Budget /\ (fits \/ modelCalls[c].kind = "text")
        <5>1. Over(c, "answer")
          BY <2>0, <3>1, <2>5, <4>3 DEF AttemptAnswers
        <5> QED BY <5>1
      <4>4. CASE spent' <= Budget /\ ~(fits \/ modelCalls[c].kind = "text")
        BY <2>0, <3>1, <2>5, <4>4 DEF AttemptAnswers
      <4> QED BY <4>1, <4>2, <4>3, <4>4
    <3> QED BY <3>3, <3>4, <3>5
  <2>6. ASSUME NEW c \in Callers, CancelCall(c) PROVE ModelInv'
    BY <2>6, OverReleases DEF CancelCall, Outcome
  <2>7. CASE UNCHANGED modelVars
    <3>1. ModelCallsTypeOK' /\ \A c \in Callers : Unstarted(modelCalls'[c])
      BY <2>0, <2>7 DEF modelVars, ModelCallsTypeOK
    <3>2. Admitted' = Admitted /\ Charging' = Charging /\ spent' = spent
      BY <2>7 DEF modelVars, Admitted, Charging
    <3> QED BY <3>1, <3>2 DEF ModelInv, SemaphoreHeld, Covered
  <2> QED BY <2>1, <2>2, <2>3, <2>4, <2>5, <2>6, <2>7 DEF ModelCallsNext
<1> QED BY <1>1, <1>2, PTL DEF ModelCallsSpec

(* What is recorded as spent passes the budget by less than one answer for   *)
(* each call the semaphore admits.                                           *)
THEOREM OverspendBounded == ModelCallsSpec => []BudgetHeld
<1>1. ModelInv => BudgetHeld
  <2> SUFFICES ASSUME ModelInv PROVE BudgetHeld
    OBVIOUS
  <2> DEFINE n == Cardinality(Charging)
  <2>1. n \in Nat /\ spent \in Nat
    BY ChargingCounted DEF ModelInv, ModelCallsTypeOK
  <2>2. spent + n * MaxCost < Budget + ConcurrencyLimit * MaxCost
    BY DEF ModelInv, Covered
  <2> HIDE DEF n
  <2>3. n * MaxCost \in Nat /\ ConcurrencyLimit * MaxCost \in Nat
    BY <2>1, Multiples, ModelCallsAssumption
  <2> QED BY <2>1, <2>2, <2>3, ModelCallsAssumption DEF BudgetHeld
<1> QED BY <1>1, ModelInvariance, PTL

(*****************************************************************************)
(* NodeRuns.tla                                                              *)
(*****************************************************************************)
(* What a replay holds between its steps is the number of an effect that     *)
(* happened, a completed command holds one, and what was returned is what    *)
(* the command holds, which is never written over.                           *)
Held(n) ==
  /\ nodeRuns[n].at = "operated" => nodeRuns[n].value \in 1..sideEffects
  /\ nodeRuns[n].at # "over" => nodeRuns[n].outcome = "none"
  /\ nodeRuns[n].outcome = "result" =>
       command.status = "completed" /\ nodeRuns[n].value = command.result
Kept == command.status = "completed" => command.result \in 1..sideEffects
Begun == \A n \in Nodes :
  nodeRuns[n].at \in {"operating", "operated"} => command.status # "absent"
NodeInv == NodeRunsTypeOK /\ Kept /\ Begun /\ \A n \in Nodes : Held(n)

(* The types, what a replay holds and what the command holds are kept.       *)
THEOREM NodeRunsInvariance == NodeRunsSpec => []NodeInv
<1> USE NodeRunsAssumption
<1>1. NodeRunsInit => NodeInv
  BY DEF NodeRunsInit, NodeInv, NodeRunsTypeOK, Kept, Begun, Held, Ready, Command, NodeRun, NodeResult
<1>2. NodeInv /\ [NodeRunsNext]_nodeVars => NodeInv'
  <2> SUFFICES ASSUME NodeInv, [NodeRunsNext]_nodeVars PROVE NodeInv'
    OBVIOUS
  <2> USE DEF NodeInv, NodeRunsTypeOK, Kept, Begun, Held, Command, NodeRun, NodeResult
  <2>1. ASSUME NEW n \in Nodes, BeginCommand(n) PROVE NodeInv'
    BY <2>1 DEF BeginCommand, NodeReturns
  <2>2. ASSUME NEW n \in Nodes, Operate(n) PROVE NodeInv'
    <3>1. sideEffects + 1 \in 1..MaxEffects
      BY <2>2 DEF Operate
    <3>2. NodeRunsTypeOK'
      <4>1. sideEffects + 1 \in NodeResult /\ sideEffects' \in 0..MaxEffects
        BY <2>2, <3>1 DEF Operate
      <4>2. [nodeRuns[n] EXCEPT !.at = "operated", !.value = sideEffects + 1] \in NodeRun
        BY <4>1
      <4>3. nodeRuns' = [nodeRuns EXCEPT ![n] =
              [nodeRuns[n] EXCEPT !.at = "operated", !.value = sideEffects + 1]]
        BY <2>2 DEF Operate
      <4>4. nodeRuns' \in [Nodes -> NodeRun]
        BY ONLY NodeInv, <4>2, <4>3 DEF NodeInv, NodeRunsTypeOK
      <4>5. QED
        BY <2>2, <4>1, <4>4 DEF Operate
    <3>3. Kept' /\ Begun'
      BY <2>2 DEF Operate
    <3>4. ASSUME NEW m \in Nodes PROVE Held(m)'
      BY <2>2, <3>1 DEF Operate
    <3>5. QED
      BY <3>2, <3>3, <3>4
  <2>3. ASSUME NEW n \in Nodes, CompleteCommand(n) PROVE NodeInv'
    BY <2>3 DEF CompleteCommand, NodeReturns, StoredResult
  <2>4. ASSUME NEW n \in Nodes, NEW retryable \in BOOLEAN, AttemptEnds(n, retryable) PROVE NodeInv'
    BY <2>4 DEF AttemptEnds, Ready
  <2>5. ASSUME NEW n \in Nodes, ReplayNode(n) PROVE NodeInv'
    BY <2>5 DEF ReplayNode, Ready
  <2>6. CASE UNCHANGED nodeVars
    BY <2>6 DEF nodeVars
  <2>7. QED
    BY <2>1, <2>2, <2>3, <2>4, <2>5, <2>6 DEF NodeRunsNext
<1>3. QED
  BY <1>1, <1>2, PTL DEF NodeRunsSpec

(* Everyone who is given a result is given the stored one.                   *)
THEOREM ResultsAgree == NodeRunsSpec => []SameResult
<1>1. NodeInv => SameResult
  BY DEF NodeInv, NodeRunsTypeOK, Held, Kept, SameResult
<1>2. QED
  BY <1>1, NodeRunsInvariance, PTL

(*****************************************************************************)
(* ToolCalls.tla                                                             *)
(*****************************************************************************)
(* What every manifest of the registry has: a keyed tool writes and has a    *)
(* ledger, the others have none; what asks for approval is keyed; and a tool *)
(* that writes knows whom it acts for.                                       *)
LEMMA RegistryFacts ==
  ASSUME NEW t \in Tools
  PROVE  LET m == ToolRegistry[t] IN
         /\ m.write \in BOOLEAN /\ m.keyed \in BOOLEAN /\ m.hitl \in BOOLEAN
         /\ m.keyed => m.ledger \in Ledger
         /\ ~m.keyed => m.ledger = "none"
         /\ m.hitl => m.keyed
         /\ m.keyed => m.write
         /\ m.write => m.identity # {}
<1> DEFINE Good(m) ==
         /\ m.write \in BOOLEAN /\ m.keyed \in BOOLEAN /\ m.hitl \in BOOLEAN
         /\ m.keyed => m.ledger \in Ledger
         /\ ~m.keyed => m.ledger = "none"
         /\ m.hitl => m.keyed
         /\ m.keyed => m.write
         /\ m.write => m.identity # {}
<1>1. ASSUME NEW i PROVE Good(Read(i))
  BY DEF Read, Manifest
<1>2. ASSUME NEW l \in Ledger, NEW i, i # {}, NEW h \in BOOLEAN PROVE Good(Manifest(TRUE, h, TRUE, i, l))
  <2> DEFINE m == Manifest(TRUE, h, TRUE, i, l)
  <2>1. m.write = TRUE /\ m.hitl = h /\ m.keyed = TRUE /\ m.ledger = l /\ m.identity = i
    BY DEF Manifest
  <2> HIDE DEF m
  <2>2. l # "none"
    BY DEF Ledger
  <2>3. h \in BOOLEAN /\ m.ledger \in Ledger /\ m.identity # {} /\ m.keyed /\ m.write
    BY <1>2, <2>1
  <2>4. m.write \in BOOLEAN /\ m.keyed \in BOOLEAN /\ m.hitl \in BOOLEAN
    BY <1>2, <2>1
  <2>5. Good(m)
    BY <2>3, <2>4, Zenon
  <2> QED BY <2>5 DEF m
<1>3. Good(FreezeUniverseTool)
  BY DEF FreezeUniverseTool, Manifest
<1>4. /\ Good(CreatePlanDraftTool) /\ Good(TransitionPlanTool) /\ Good(RecordPlanningReviewTool)
      /\ Good(CreateReminderTool) /\ Good(SetReminderStatusTool) /\ Good(PublishStrategyTool)
      /\ Good(ApproveWatchlistImportTool) /\ Good(AcceptClassificationSuggestionTool)
      /\ Good(SubmitScanTool)
  <2> HIDE DEF Good
  <2> QED BY <1>2 DEF CreatePlanDraftTool, TransitionPlanTool, RecordPlanningReviewTool,
         CreateReminderTool, SetReminderStatusTool, PublishStrategyTool,
         ApproveWatchlistImportTool, AcceptClassificationSuggestionTool, SubmitScanTool, Ledger
<1> HIDE DEF Good
<1>5. /\ Good(GetReminderTool) /\ Good(ValidateWatchlistImportTool) /\ Good(GetPredictionTool)
      /\ Good(GetQuantitativeSnapshotTool) /\ Good(GetScanStatusTool) /\ Good(ListScanResultsTool)
      /\ Good(ResolveSecurityTool) /\ Good(ResearchSecurityTool) /\ Good(ResearchThemeTool)
  BY <1>1 DEF GetReminderTool, ValidateWatchlistImportTool, GetPredictionTool,
      GetQuantitativeSnapshotTool, GetScanStatusTool, ListScanResultsTool,
      ResolveSecurityTool, ResearchSecurityTool, ResearchThemeTool
<1>6. Good(ToolRegistry[t])
  BY <1>3, <1>4, <1>5 DEF Tools, ToolRegistry
<1> QED BY <1>6 DEF Good

(* A request the gateway lets through, and what that says of it.             *)
Granted(r) == r \in ToolRequests /\ Refusal(r) = "none"

(* What a request that the gateway let through has.                          *)
LEMMA GrantedRequest ==
  ASSUME NEW r, Granted(r)
  PROVE  /\ r \in ToolRequest /\ r.tool \in Tools /\ r.tool \in Allowlists[r.agent]
         /\ ToolRegistry[r.tool].keyed => r.key \in ToolKeys
         /\ ToolRegistry[r.tool].hitl => r.approval
         /\ Bound(r) # {}
         /\ r.user # NoOwner => Bound(r) = {r.user}
         /\ "owner" \in ToolRegistry[r.tool].identity => r.user # NoOwner
         /\ ToolRegistry[r.tool].write => Bound(r) \subseteq Owners
         /\ r.content \in {"a", "b"}
<1>1. r \in ToolRequest
  BY ToolCallsAssumption DEF Granted
<1>2. r.tool \in Tools /\ Denied(r) = "none" /\ Bound(r) # {} /\ Valid(r)
  BY DEF Granted, Refusal
<1>3. /\ r.tool \in Allowlists[r.agent]
      /\ ~(ToolRegistry[r.tool].keyed /\ r.key = NoKey)
      /\ ~(ToolRegistry[r.tool].hitl /\ ~r.approval)
  BY <1>2 DEF Denied
<1>4. /\ r.user # NoOwner => Bound(r) = {r.user}
      /\ "owner" \in ToolRegistry[r.tool].identity => r.user # NoOwner
      /\ Bound(r) \subseteq Owners \cup {NoOwner}
  BY <1>1, <1>2 DEF Bound, ToolRequest
<1>5. ToolRegistry[r.tool].write => Bound(r) \subseteq Owners
  BY <1>2, <1>4, RegistryFacts DEF Valid
<1>6. r.content \in {"a", "b"} /\ r.key \in ToolKeys \cup {NoKey}
  BY <1>1, <1>2 DEF Valid, ToolRequest
<1> QED BY <1>1, <1>2, <1>3, <1>4, <1>5, <1>6

(* An effect is of a request that was let through, in a name it is bound to. *)
EffectKey(e) == LedgerKey(e.request, e.who)
KeyedEffect(e) == ToolRegistry[e.request.tool].keyed
EffectOK(e) ==
  /\ Granted(e.request) /\ ToolRegistry[e.request.tool].write
  /\ e.who \in Bound(e.request)
  /\ KeyedEffect(e) => ~Disapproved(e.request)
Performed(effects, r) ==
  r.tool # "set_status" => \E i \in DOMAIN effects : WroteFor(effects[i], r)

(* The receipts are those of the keyed effects, one each.                    *)
OneEffectPerKey == \A i, j \in DOMAIN toolEffects : SameWrite(toolEffects[i], toolEffects[j]) => i = j
ReceiptsKept == \A i \in DOMAIN toolEffects :
  KeyedEffect(toolEffects[i]) => EffectKey(toolEffects[i]) \in DOMAIN ledgers
ReceiptsEarned == \A k \in DOMAIN ledgers : \E i \in DOMAIN toolEffects :
  /\ KeyedEffect(toolEffects[i]) /\ EffectKey(toolEffects[i]) = k
  /\ toolEffects[i].request.tool = ledgers[k].tool
  /\ toolEffects[i].request.content = ledgers[k].content

(* A call under way was let through, and one that is done has its write.     *)
CallOK(effects, q) ==
  /\ q.at \in {"handling", "handled"} => Granted(q.request)
  /\ (q.at = "handled" \/ q.outcome = "success") /\ ToolRegistry[q.request.tool].write
       => Performed(effects, q.request)
ToolInv ==
  /\ ToolCallsTypeOK
  /\ toolEffects \in Seq([request : ToolRequests, who : Owners])
  /\ \A i \in DOMAIN toolEffects : EffectOK(toolEffects[i])
  /\ OneEffectPerKey /\ ReceiptsKept /\ ReceiptsEarned
  /\ \A c \in ToolCallers : CallOK(toolEffects, toolCalls[c])

(* Two effects that are the same write leave the same receipt.               *)
LEMMA SameKey ==
  ASSUME NEW e, NEW f, EffectOK(e), EffectOK(f), SameWrite(e, f)
  PROVE  KeyedEffect(e) /\ KeyedEffect(f) /\ EffectKey(e) = EffectKey(f)
<1>1. e.request.tool \in Tools /\ f.request.tool \in Tools
  BY GrantedRequest DEF EffectOK
<1>2. KeyedEffect(e) /\ EffectKey(e) = EffectKey(f)
  BY DEF SameWrite, KeyedEffect, EffectKey, LedgerKey, OfReminders
<1>3. ToolRegistry[f.request.tool].ledger \in Ledger
  BY <1>1, <1>2, RegistryFacts DEF SameWrite, KeyedEffect
<1>4. ToolRegistry[f.request.tool].ledger # "none"
  BY <1>3 DEF Ledger
<1>5. KeyedEffect(f)
  BY <1>1, <1>4, RegistryFacts DEF KeyedEffect
<1> QED BY <1>2, <1>5

(* A call that moves on without an effect.                                   *)
LEMMA CallMoves ==
  ASSUME ToolInv, NEW c \in ToolCallers, NEW q \in ToolCall, CallOK(toolEffects, q),
         toolCalls' = [toolCalls EXCEPT ![c] = q], UNCHANGED <<ledgers, toolEffects>>
  PROVE  ToolInv'
<1>1. ToolCallsTypeOK'
  BY DEF ToolInv, ToolCallsTypeOK
<1>2. \A d \in ToolCallers : CallOK(toolEffects, toolCalls'[d])
  BY DEF ToolInv, ToolCallsTypeOK
<1>3. \A d \in ToolCallers : CallOK(toolEffects, toolCalls[d])'
  BY <1>2 DEF CallOK, Performed
<1>4. /\ (toolEffects \in Seq([request : ToolRequests, who : Owners]))'
      /\ (\A i \in DOMAIN toolEffects : EffectOK(toolEffects[i]))'
  BY DEF ToolInv
<1>5. OneEffectPerKey' /\ ReceiptsKept' /\ ReceiptsEarned'
  BY DEF ToolInv, OneEffectPerKey, ReceiptsKept, ReceiptsEarned
<1> QED BY <1>1, <1>3, <1>4, <1>5 DEF ToolInv

(* The end of a call that reports no success, or of one that was done.       *)
LEMMA CallEnds ==
  ASSUME ToolInv, NEW c \in ToolCallers,
         NEW outcome \in {"success", "raised"} \cup ToolErrorCode,
         outcome = "success" => toolCalls[c].at = "handled",
         ToolEnds(c, outcome), UNCHANGED <<ledgers, toolEffects>>
  PROVE  ToolInv'
<1> DEFINE q == [toolCalls[c] EXCEPT !.at = "over", !.outcome = outcome]
<1>1. toolCalls[c] \in ToolCall /\ CallOK(toolEffects, toolCalls[c])
  BY DEF ToolInv, ToolCallsTypeOK
<1>2. toolCalls' = [toolCalls EXCEPT ![c] = q]
  BY DEF ToolEnds, ToolInv, ToolCallsTypeOK
<1>3. q \in ToolCall /\ q.at = "over" /\ q.outcome = outcome /\ q.request = toolCalls[c].request
  BY <1>1 DEF ToolCall
<1> HIDE DEF q
<1>4. CallOK(toolEffects, q)
  <2>1. q.at \notin {"handling", "handled"}
    BY <1>3
  <2>2. ASSUME q.at = "handled" \/ q.outcome = "success", ToolRegistry[q.request.tool].write
        PROVE  Performed(toolEffects, q.request)
    <3>1. toolCalls[c].at = "handled"
      BY <1>3, <2>2
    <3>2. ToolRegistry[toolCalls[c].request.tool].write
      BY <1>3, <2>2, Zenon
    <3>3. Performed(toolEffects, toolCalls[c].request)
      BY <1>1, <3>1, <3>2, Zenon DEF CallOK
    <3> QED BY <1>3, <3>3, Zenon
  <2> QED BY <2>1, <2>2, Zenon DEF CallOK
<1> QED BY <1>2, <1>3, <1>4, CallMoves

(* A call that has its effect, and leaves a receipt if its tool is keyed.    *)
LEMMA CallWrites ==
  ASSUME ToolInv, NEW c \in ToolCallers, NEW r, r = toolCalls[c].request, Granted(r),
         NEW who \in Bound(r), ToolRegistry[r.tool].write,
         KeyedEffect([request |-> r, who |-> who]) => ~Disapproved(r),
         ToolEffect(r, who),
         toolCalls' = [toolCalls EXCEPT ![c].at = "handled"],
         NEW k, k = EffectKey([request |-> r, who |-> who]),
         \/ ~KeyedEffect([request |-> r, who |-> who]) /\ ledgers' = ledgers
         \/ /\ KeyedEffect([request |-> r, who |-> who]) /\ k \notin DOMAIN ledgers
            /\ ledgers' = [l \in DOMAIN ledgers \cup {k} |->
                 IF l = k THEN ReceiptOf(r) ELSE ledgers[l]]
  PROVE  ToolInv'
<1> DEFINE e == [request |-> r, who |-> who]
           n == Len(toolEffects) + 1
           q == [toolCalls[c] EXCEPT !.at = "handled"]
<1>0. /\ ToolCallsTypeOK /\ OneEffectPerKey /\ ReceiptsKept /\ ReceiptsEarned
      /\ toolEffects \in Seq([request : ToolRequests, who : Owners])
      /\ \A i \in DOMAIN toolEffects : EffectOK(toolEffects[i])
      /\ \A d \in ToolCallers : CallOK(toolEffects, toolCalls[d])
      /\ toolCalls \in [ToolCallers -> ToolCall]
  BY DEF ToolInv, ToolCallsTypeOK
<1>1. e.request = r /\ e.who = who
  OBVIOUS
<1>2. /\ r.tool \in Tools /\ who \in Owners /\ r.content \in {"a", "b"} /\ r \in ToolRequests
      /\ KeyedEffect(e) => r.key \in ToolKeys
  BY GrantedRequest DEF Granted, KeyedEffect
<1>3. EffectOK(e)
  BY <1>1 DEF EffectOK
<1>4. e \in [request : ToolRequests, who : Owners]
  BY <1>2
<1>5. toolEffects' = Append(toolEffects, e) /\ Len(toolEffects) < MaxToolEffects
  BY DEF ToolEffect
<1>6. k = EffectKey(e)
  OBVIOUS
<1>7. \/ ~KeyedEffect(e) /\ ledgers' = ledgers
      \/ /\ KeyedEffect(e) /\ k \notin DOMAIN ledgers
         /\ ledgers' = [l \in DOMAIN ledgers \cup {k} |->
              IF l = k THEN [tool |-> r.tool, content |-> r.content] ELSE ledgers[l]]
  BY Zenon DEF ReceiptOf
<1> HIDE DEF e
<1>8. /\ toolEffects' \in Seq([request : ToolRequests, who : Owners])
      /\ Len(toolEffects') = n /\ n \in Nat /\ n \in DOMAIN toolEffects'
      /\ DOMAIN toolEffects' = DOMAIN toolEffects \cup {n} /\ n \notin DOMAIN toolEffects
      /\ toolEffects'[n] = e
      /\ \A i \in DOMAIN toolEffects : toolEffects'[i] = toolEffects[i]
  BY <1>0, <1>4, <1>5
<1> HIDE DEF n
<1>9. q \in ToolCall /\ q.at = "handled" /\ q.request = r /\ q.outcome = toolCalls[c].outcome
  BY <1>0 DEF ToolCall
<1>10. toolCalls' = [toolCalls EXCEPT ![c] = q]
  BY <1>0
<1> HIDE DEF q
<1>11. /\ k[1] = ToolRegistry[r.tool].ledger /\ k[2] \in {who, NoOwner} /\ k[3] = r.key
       /\ k = <<k[1], k[2], k[3]>>
  BY <1>1, <1>6 DEF EffectKey, LedgerKey
<1>12. KeyedEffect(e) => k \in Ledger \X (Owners \cup {NoOwner}) \X ToolKeys
  BY <1>1, <1>2, <1>11, RegistryFacts DEF KeyedEffect
<1>13. /\ DOMAIN ledgers \subseteq DOMAIN ledgers'
       /\ \A l \in DOMAIN ledgers : ledgers'[l] = ledgers[l]
       /\ \A l \in DOMAIN ledgers' : l \notin DOMAIN ledgers => l = k /\ KeyedEffect(e)
       /\ KeyedEffect(e) => k \in DOMAIN ledgers' /\ k \notin DOMAIN ledgers
             /\ ledgers'[k] = [tool |-> r.tool, content |-> r.content]
  BY <1>7
<1>14. ToolCallsTypeOK'
  <2>1. toolCalls' \in [ToolCallers -> ToolCall]
    BY <1>0, <1>9, <1>10
  <2>2. [tool |-> r.tool, content |-> r.content] \in Receipt
    BY <1>2 DEF Receipt
  <2>3. /\ DOMAIN ledgers' \subseteq Ledger \X (Owners \cup {NoOwner}) \X ToolKeys
        /\ \A l \in DOMAIN ledgers' : ledgers'[l] \in Receipt
    BY <1>0, <1>12, <1>13, <2>2 DEF ToolCallsTypeOK
  <2>4. Len(toolEffects') <= MaxToolEffects
    BY <1>0, <1>5, <1>8, ToolCallsAssumption DEF n
  <2> QED BY <2>1, <2>3, <2>4 DEF ToolCallsTypeOK
<1>15. \A i \in DOMAIN toolEffects' : EffectOK(toolEffects'[i])
  BY <1>0, <1>3, <1>8
<1>16. ASSUME NEW i \in DOMAIN toolEffects, KeyedEffect(toolEffects[i]), KeyedEffect(e)
       PROVE  EffectKey(toolEffects[i]) # k
  BY <1>0, <1>13, <1>16 DEF ReceiptsKept
<1>17. OneEffectPerKey'
  <2> SUFFICES ASSUME NEW i \in DOMAIN toolEffects', NEW j \in DOMAIN toolEffects',
                      SameWrite(toolEffects'[i], toolEffects'[j])
               PROVE  i = j
    BY DEF OneEffectPerKey
  <2>1. /\ KeyedEffect(toolEffects'[i]) /\ KeyedEffect(toolEffects'[j])
        /\ EffectKey(toolEffects'[i]) = EffectKey(toolEffects'[j])
    BY <1>15, SameKey
  <2>2. CASE i = n /\ j # n
    BY <1>6, <1>8, <1>16, <2>1, <2>2
  <2>3. CASE i # n /\ j = n
    BY <1>6, <1>8, <1>16, <2>1, <2>3
  <2>4. CASE i # n /\ j # n
    BY <1>0, <1>8, <2>4 DEF OneEffectPerKey
  <2> QED BY <2>2, <2>3, <2>4
<1>18. ReceiptsKept'
  <2>1. ASSUME NEW i \in DOMAIN toolEffects', KeyedEffect(toolEffects'[i])
        PROVE  EffectKey(toolEffects'[i]) \in DOMAIN ledgers'
    <3>1. CASE i = n
      BY <1>6, <1>8, <1>13, <2>1, <3>1
    <3>2. CASE i # n
      BY <1>0, <1>8, <1>13, <2>1, <3>2 DEF ReceiptsKept
    <3> QED BY <3>1, <3>2
  <2> QED BY <2>1 DEF ReceiptsKept
<1>19. ReceiptsEarned'
  <2>1. ASSUME NEW l \in DOMAIN ledgers'
        PROVE  \E i \in DOMAIN toolEffects' :
                 /\ KeyedEffect(toolEffects'[i]) /\ EffectKey(toolEffects'[i]) = l
                 /\ toolEffects'[i].request.tool = ledgers'[l].tool
                 /\ toolEffects'[i].request.content = ledgers'[l].content
    <3>1. CASE l \in DOMAIN ledgers
      <4>1. PICK i \in DOMAIN toolEffects :
              /\ KeyedEffect(toolEffects[i]) /\ EffectKey(toolEffects[i]) = l
              /\ toolEffects[i].request.tool = ledgers[l].tool
              /\ toolEffects[i].request.content = ledgers[l].content
        BY <1>0, <3>1 DEF ReceiptsEarned
      <4>2. i \in DOMAIN toolEffects' /\ toolEffects'[i] = toolEffects[i] /\ ledgers'[l] = ledgers[l]
        BY <1>8, <1>13, <3>1
      <4> QED BY <4>1, <4>2, Zenon
    <3>2. CASE l \notin DOMAIN ledgers
      <4>1. l = k /\ KeyedEffect(e) /\ ledgers'[k] = [tool |-> r.tool, content |-> r.content]
        BY <1>13, <2>1, <3>2
      <4>2. ledgers'[l].tool = r.tool /\ ledgers'[l].content = r.content
        BY <4>1
      <4>3. n \in DOMAIN toolEffects' /\ toolEffects'[n] = e
        BY <1>8
      <4> QED BY <1>1, <1>6, <4>1, <4>2, <4>3
    <3> QED BY <3>1, <3>2
  <2> QED BY <2>1, Zenon DEF ReceiptsEarned
<1>20. ASSUME NEW s, Performed(toolEffects, s) PROVE Performed(toolEffects', s)
  BY <1>8, <1>20 DEF Performed
<1>21. Performed(toolEffects', r)
  <2>1. WroteFor(e, r)
    BY <1>1 DEF WroteFor
  <2> QED BY <1>8, <2>1 DEF Performed
<1>22. ASSUME NEW d \in ToolCallers PROVE CallOK(toolEffects', toolCalls'[d])
  <2>1. CASE d = c
    <3>1. toolCalls'[d] = q
      BY <1>0, <1>10, <2>1
    <3>2. CallOK(toolEffects', q)
      BY <1>9, <1>21 DEF CallOK
    <3> QED BY <3>1, <3>2
  <2>2. CASE d # c
    <3>1. toolCalls'[d] = toolCalls[d] /\ CallOK(toolEffects, toolCalls[d])
      BY <1>0, <1>10, <2>2
    <3>2. CallOK(toolEffects', toolCalls[d])
      BY <1>20, <3>1, Zenon DEF CallOK
    <3> QED BY <3>1, <3>2
  <2> QED BY <2>1, <2>2
<1>23. (\A i \in DOMAIN toolEffects : EffectOK(toolEffects[i]))'
  BY <1>15
<1>24. (toolEffects \in Seq([request : ToolRequests, who : Owners]))'
  BY <1>8
<1> QED BY <1>14, <1>17, <1>18, <1>19, <1>22, <1>23, <1>24 DEF ToolInv

(* Each way a service takes a call: it reads, finds nothing to write, writes, *)
(* refuses, returns what it did before, or refuses other content.            *)
LEMMA HandlingKept ==
  ASSUME ToolInv, NEW c \in ToolCallers, HandleTool(c)
  PROVE  ToolInv'
<1> DEFINE r == toolCalls[c].request
           manifest == ToolRegistry[r.tool]
           who == CHOOSE o \in Bound(r) : TRUE
           k == LedgerKey(r, who)
           q == [toolCalls[c] EXCEPT !.at = "handled"]
           e == [request |-> r, who |-> who]
<1>0. /\ toolCalls \in [ToolCallers -> ToolCall] /\ CallOK(toolEffects, toolCalls[c]) /\ ReceiptsEarned
      /\ \A i \in DOMAIN toolEffects : EffectOK(toolEffects[i])
  BY DEF ToolInv, ToolCallsTypeOK
<1>1. toolCalls[c].at = "handling" /\ Granted(r)
  BY <1>0 DEF HandleTool, CallOK
<1>2. who \in Bound(r)
  BY <1>1, GrantedRequest
<1>3. q \in ToolCall /\ q.at = "handled" /\ q.request = r /\ q.outcome = toolCalls[c].outcome
  BY <1>0 DEF ToolCall
<1>4. toolCalls' = [toolCalls EXCEPT ![c].at = "handled"] => toolCalls' = [toolCalls EXCEPT ![c] = q]
  BY <1>0
<1>5. r.tool \in Tools
  BY <1>1, GrantedRequest
<1>6. /\ KeyedEffect(e) <=> manifest.keyed
      /\ EffectKey(e) = k
  BY DEF KeyedEffect, EffectKey
<1>7. ASSUME toolCalls' = [toolCalls EXCEPT ![c].at = "handled"],
             UNCHANGED <<ledgers, toolEffects>>, manifest.write => Performed(toolEffects, r)
      PROVE  ToolInv'
  <2> HIDE DEF q
  <2>1. CallOK(toolEffects, q)
    BY <1>1, <1>3, <1>7, Zenon DEF CallOK
  <2> QED BY <1>3, <1>4, <1>7, <2>1, CallMoves
<1>8. CASE /\ manifest.write => r.tool = "set_status" /\ ~Disapproved(r)
           /\ toolCalls' = [toolCalls EXCEPT ![c].at = "handled"]
           /\ UNCHANGED <<ledgers, toolEffects>>
  <2>1. manifest.write => Performed(toolEffects, r)
    BY <1>8 DEF Performed
  <2> QED BY <1>7, <1>8, <2>1, Zenon
<1>9. CASE /\ manifest.write /\ ~manifest.keyed
           /\ ToolEffect(r, who)
           /\ toolCalls' = [toolCalls EXCEPT ![c].at = "handled"]
           /\ UNCHANGED ledgers
  <2>1. ~KeyedEffect(e) /\ ledgers' = ledgers /\ manifest.write /\ ToolEffect(r, who)
        /\ toolCalls' = [toolCalls EXCEPT ![c].at = "handled"]
    BY <1>6, <1>9, Zenon
  <2> HIDE DEF who, r
  <2> QED BY <1>1, <1>2, <2>1, CallWrites DEF r
<1>10. CASE /\ manifest.keyed /\ Disapproved(r)
            /\ ToolEnds(c, "raised")
            /\ UNCHANGED <<ledgers, toolEffects>>
  BY <1>10, CallEnds
<1>11. CASE /\ manifest.keyed /\ ~Disapproved(r) /\ k \notin DOMAIN ledgers
            /\ ToolEffect(r, who)
            /\ ledgers' = [l \in DOMAIN ledgers \cup {k} |->
                 IF l = k THEN ReceiptOf(r) ELSE ledgers[l]]
            /\ toolCalls' = [toolCalls EXCEPT ![c].at = "handled"]
  <2>1. manifest.write
    BY <1>5, <1>11, RegistryFacts
  <2>2. KeyedEffect(e) /\ ~Disapproved(r) /\ k = EffectKey(e)
    BY <1>6, <1>11, Zenon
  <2>3. /\ ToolEffect(r, who) /\ toolCalls' = [toolCalls EXCEPT ![c].at = "handled"]
        /\ k \notin DOMAIN ledgers
        /\ ledgers' = [l \in DOMAIN ledgers \cup {k} |->
             IF l = k THEN ReceiptOf(r) ELSE ledgers[l]]
    BY <1>11, Zenon
  <2> HIDE DEF who, r, k
  <2> QED BY <1>1, <1>2, <2>1, <2>2, <2>3, CallWrites DEF r
<1>12. CASE /\ manifest.keyed /\ ~Disapproved(r) /\ k \in DOMAIN ledgers
            /\ \/ Repeats(r, ledgers[k])
                  /\ toolCalls' = [toolCalls EXCEPT ![c].at = "handled"]
               \/ ~Repeats(r, ledgers[k])
                  /\ \E code \in {"invalid_input", "internal_error"} : ToolEnds(c, code)
            /\ UNCHANGED <<ledgers, toolEffects>>
  <2>1. CASE Repeats(r, ledgers[k]) /\ toolCalls' = [toolCalls EXCEPT ![c].at = "handled"]
    <3>1. PICK i \in DOMAIN toolEffects :
            /\ KeyedEffect(toolEffects[i]) /\ EffectKey(toolEffects[i]) = k
            /\ toolEffects[i].request.tool = ledgers[k].tool
            /\ toolEffects[i].request.content = ledgers[k].content
      BY <1>0, <1>12 DEF ReceiptsEarned
    <3> DEFINE f == toolEffects[i]
    <3>2. /\ f.request.key = r.key
          /\ ToolRegistry[f.request.tool].ledger = ToolRegistry[r.tool].ledger
          /\ OfReminders(f.request) <=> OfReminders(r)
          /\ ~OfReminders(r) => f.who = who
      BY <3>1 DEF EffectKey, LedgerKey, OfReminders
    <3>3. ~OfReminders(r) => f.request.tool = r.tool /\ f.request.content = r.content
      BY <2>1, <3>1 DEF Repeats, ReceiptOf
    <3>4. Performed(toolEffects, r)
      <4>1. WroteFor(f, r)
        BY <1>2, <3>2, <3>3 DEF WroteFor
      <4> QED BY <4>1 DEF Performed
    <3> QED BY <1>7, <1>12, <2>1, <3>4, Zenon
  <2>2. ASSUME NEW code \in {"invalid_input", "internal_error"}, ToolEnds(c, code) PROVE ToolInv'
    BY <1>12, <2>2, CallEnds DEF ToolErrorCode
  <2> QED BY <1>12, <2>1, <2>2
<1> QED
  <2> HIDE DEF who, k, manifest
  <2>1. HandleTool(c) <=>
          /\ toolCalls[c].at = "handling"
          /\ \/ /\ manifest.write => r.tool = "set_status" /\ ~Disapproved(r)
                /\ toolCalls' = [toolCalls EXCEPT ![c].at = "handled"]
                /\ UNCHANGED <<ledgers, toolEffects>>
             \/ manifest.write /\ ~manifest.keyed
                /\ ToolEffect(r, who)
                /\ toolCalls' = [toolCalls EXCEPT ![c].at = "handled"]
                /\ UNCHANGED ledgers
             \/ manifest.keyed /\ Disapproved(r)
                /\ ToolEnds(c, "raised")
                /\ UNCHANGED <<ledgers, toolEffects>>
             \/ manifest.keyed /\ ~Disapproved(r) /\ k \notin DOMAIN ledgers
                /\ ToolEffect(r, who)
                /\ ledgers' = [l \in DOMAIN ledgers \cup {k} |->
                     IF l = k THEN ReceiptOf(r) ELSE ledgers[l]]
                /\ toolCalls' = [toolCalls EXCEPT ![c].at = "handled"]
             \/ manifest.keyed /\ ~Disapproved(r) /\ k \in DOMAIN ledgers
                /\ \/ Repeats(r, ledgers[k])
                      /\ toolCalls' = [toolCalls EXCEPT ![c].at = "handled"]
                   \/ ~Repeats(r, ledgers[k])
                      /\ \E code \in {"invalid_input", "internal_error"} : ToolEnds(c, code)
                /\ UNCHANGED <<ledgers, toolEffects>>
    BY Zenon DEF HandleTool, who, k, manifest
  <2> QED BY <1>8, <1>9, <1>10, <1>11, <1>12, <2>1, Zenon

(* Every call, answer and repetition keeps the receipts and the effects one. *)
THEOREM ToolInvariance == ToolCallsSpec => []ToolInv
<1>1. ToolCallsInit => ToolInv
  <2> SUFFICES ASSUME ToolCallsInit PROVE ToolInv
    OBVIOUS
  <2>1. /\ DOMAIN ledgers = {} /\ toolEffects = <<>>
        /\ \A c \in ToolCallers : toolCalls[c].at = "idle" /\ toolCalls[c].outcome = "none"
    BY DEF ToolCallsInit
  <2>2. ToolCallsTypeOK
    BY <2>1, ToolCallsAssumption DEF ToolCallsInit, ToolCallsTypeOK, ToolCall
  <2>3. \A c \in ToolCallers : CallOK(toolEffects, toolCalls[c])
    BY <2>1 DEF CallOK
  <2> QED BY <2>1, <2>2, <2>3 DEF ToolInv, OneEffectPerKey, ReceiptsKept, ReceiptsEarned
<1>2. ToolInv /\ [ToolCallsNext]_toolVars => ToolInv'
  <2> SUFFICES ASSUME ToolInv, [ToolCallsNext]_toolVars PROVE ToolInv'
    OBVIOUS
  <2>1. ASSUME NEW c \in ToolCallers, NEW r \in ToolRequests, InvokeTool(c, r) PROVE ToolInv'
    <3> DEFINE q == IF Refusal(r) = "none" THEN [at |-> "handling", request |-> r, outcome |-> "none"]
                    ELSE [at |-> "over", request |-> r, outcome |-> Refusal(r)]
    <3>1. toolCalls' = [toolCalls EXCEPT ![c] = q] /\ UNCHANGED <<ledgers, toolEffects>>
      BY <2>1 DEF InvokeTool
    <3>2. Refusal(r) # "none" => Refusal(r) \in ToolErrorCode /\ Refusal(r) # "success"
      BY DEF Refusal, Denied, ToolErrorCode
    <3>3. q \in ToolCall
      BY <3>2 DEF ToolCall
    <3>4. CallOK(toolEffects, q)
      BY <3>2 DEF CallOK, Granted
    <3> HIDE DEF q
    <3> QED BY <3>1, <3>3, <3>4, CallMoves
  <2>2. ASSUME NEW c \in ToolCallers, HandleTool(c) PROVE ToolInv'
    BY <2>2, HandlingKept
  <2>3. ASSUME NEW c \in ToolCallers, ToolRaises(c) PROVE ToolInv'
    <3>1. PICK outcome \in {"timeout", "tool_error", "invalid_input", "internal_error", "raised"} :
            ToolEnds(c, outcome)
      BY <2>3 DEF ToolRaises
    <3>2. UNCHANGED <<ledgers, toolEffects>> /\ outcome # "success"
          /\ outcome \in {"success", "raised"} \cup ToolErrorCode
      BY <2>3 DEF ToolRaises, ToolErrorCode
    <3> QED BY <3>1, <3>2, CallEnds
  <2>4. ASSUME NEW c \in ToolCallers, ReturnResult(c) PROVE ToolInv'
    <3>1. PICK outcome \in {"success", "invalid_output"} : ToolEnds(c, outcome)
      BY <2>4 DEF ReturnResult
    <3>2. UNCHANGED <<ledgers, toolEffects>> /\ toolCalls[c].at = "handled"
          /\ outcome \in {"success", "raised"} \cup ToolErrorCode
      BY <2>4 DEF ReturnResult, ToolErrorCode
    <3> QED BY <3>1, <3>2, CallEnds
  <2>5. CASE UNCHANGED toolVars
    <3>1. UNCHANGED <<toolCalls, ledgers, toolEffects>>
      BY <2>5 DEF toolVars
    <3>2. ToolCallsTypeOK'
      BY <3>1 DEF ToolInv, ToolCallsTypeOK
    <3>3. OneEffectPerKey' /\ ReceiptsKept' /\ ReceiptsEarned'
      BY <3>1 DEF ToolInv, OneEffectPerKey, ReceiptsKept, ReceiptsEarned
    <3>4. \A c \in ToolCallers : CallOK(toolEffects, toolCalls[c])'
      BY <3>1 DEF ToolInv, CallOK, Performed
    <3> QED BY <3>1, <3>2, <3>3, <3>4 DEF ToolInv
  <2> QED BY <2>1, <2>2, <2>3, <2>4, <2>5 DEF ToolCallsNext
<1> QED BY <1>1, <1>2, PTL DEF ToolCallsSpec

(* Every write is of an agent that has the tool, for the user the call       *)
(* authenticates, once per key, approved where the tool asks; and a success  *)
(* is told of the caller's own write, or of what the key wrote first in the  *)
(* case of a new reminder.                                                   *)
THEOREM AuthorisedWrites == ToolCallsSpec => []WritesAuthorised
<1>1. ToolInv => WritesAuthorised
  <2> SUFFICES ASSUME ToolInv PROVE WritesAuthorised
    OBVIOUS
  <2>1. ASSUME NEW e, EffectOK(e) PROVE WrittenAsAuthorised(e)
    <3> DEFINE manifest == ToolRegistry[e.request.tool]
    <3>1. /\ e.request.tool \in Tools
          /\ e.request.tool \in Allowlists[e.request.agent]
          /\ e.request.user # NoOwner => e.who = e.request.user
          /\ "owner" \in manifest.identity => e.request.user # NoOwner
          /\ manifest.hitl => e.request.approval
      BY <2>1, GrantedRequest DEF EffectOK
    <3>2. manifest.hitl => ~Disapproved(e.request)
      BY <2>1, <3>1, RegistryFacts DEF EffectOK, KeyedEffect
    <3> QED BY <3>1, <3>2, Zenon DEF WrittenAsAuthorised
  <2>2. \A i \in DOMAIN toolEffects : WrittenAsAuthorised(toolEffects[i])
    BY <2>1 DEF ToolInv
  <2>3. \A i, j \in DOMAIN toolEffects : SameWrite(toolEffects[i], toolEffects[j]) => i = j
    BY DEF ToolInv, OneEffectPerKey
  <2>4. ASSUME NEW c \in ToolCallers, toolCalls[c].outcome = "success",
               ToolRegistry[toolCalls[c].request.tool].write
        PROVE  Performed(toolEffects, toolCalls[c].request)
    BY <2>4, Zenon DEF ToolInv, CallOK
  <2> QED BY <2>2, <2>3, <2>4, Zenon DEF WritesAuthorised, Performed
<1> QED BY <1>1, ToolInvariance, PTL

(*****************************************************************************)
(* MarketEvidence.tla                                                        *)
(*****************************************************************************)
(* There is a first one among any positions.                                 *)
LEMMA LeastNumber ==
  ASSUME NEW S \in SUBSET Nat, S # {}
  PROVE  \E n \in S : \A m \in S : n <= m
<1>1. PICK n \in S : \A m \in S : <<m, n>> \notin OpToRel(<, Nat)
  BY NatLessThanWellFounded, WFMin, Zenon
<1>2. \A m \in S : ~(m < n)
  BY <1>1, Zenon DEF OpToRel
<1>3. \A m \in S : n \in Nat /\ m \in Nat
  OBVIOUS
<1> QED BY <1>2, <1>3

(* Evidence as it is frozen: its input decides its freshness.                *)
Frozen(i) == [input |-> i, freshness |-> FreshnessOf(i)]
Evidence == {Frozen(i) : i \in EvidenceInputs}

(* What an assessment x promises of whatever evidence it is used for.        *)
Vouches(x) ==
  /\ x.accepted \cap x.rejected = {}
  /\ \A e \in Evidence : e.input.id \in x.accepted => Trusted(e) /\ Timely(e)
  /\ \A d, e \in Evidence :
       /\ d.input.id \in x.accepted /\ e.input.id \in x.accepted
       /\ Fact(d) = Fact(e) /\ Stated(d) /\ Stated(e) /\ Tolerances[d.input.type] # Unknown
       => ~Apart(d, e, 2 * Tolerances[d.input.type])
  /\ \A i \in EvidenceInputs : i.id \in x.rejected => \E g \in x.gaps : g[2] = i.type
EvidenceInv ==
  /\ collected \in Seq(Evidence)
  /\ assessment # Unknown => Vouches(assessment)
  /\ MarketEvidenceTypeOK
  /\ ClaimsSupported

(* An item that was collected is one of the inputs, with its freshness.      *)
LEMMA EvidenceFields ==
  ASSUME NEW e \in Evidence
  PROVE  /\ e.input \in EvidenceInputs /\ e.freshness \in Freshness
         /\ e = Frozen(e.input)
         /\ \A d \in Evidence : d.input.id = e.input.id => d = e
<1>1. PICK i \in EvidenceInputs : e = Frozen(i)
  BY DEF Evidence
<1>2. e.input = i /\ e.freshness = FreshnessOf(i)
  BY <1>1 DEF Frozen
<1>3. e.freshness \in Freshness
  BY <1>2 DEF FreshnessOf, Freshness
<1>4. ASSUME NEW d \in Evidence, d.input.id = e.input.id PROVE d = e
  <2>1. PICK j \in EvidenceInputs : d = Frozen(j)
    BY DEF Evidence
  <2>2. d.input = j
    BY <2>1 DEF Frozen
  <2>3. \A a, b \in EvidenceInputs : a.id = b.id => a = b
    BY MarketEvidenceAssumption
  <2>4. i = j
    BY <1>2, <1>4, <2>2, <2>3
  <2> QED BY <1>1, <2>1, <2>4
<1> QED BY <1>1, <1>2, <1>3, <1>4

(* Two values close to a third are within twice the tolerance.               *)
LEMMA Triangle ==
  ASSUME NEW c \in Evidence, NEW d \in Evidence, NEW e \in Evidence,
         Stated(c), Stated(d), Stated(e), NEW t \in Int,
         ~Apart(c, d, t), ~Apart(c, e, t)
  PROVE  ~Apart(d, e, 2 * t)
<1>1. c.input.value \in Int /\ d.input.value \in Int /\ e.input.value \in Int
  BY EvidenceFields, MarketEvidenceAssumption DEF Stated
<1> QED BY <1>1 DEF Apart

(* An assessment accepts only what is trusted, timely and in no conflict, and *)
(* names every gap: the first complete item of a fact is the one the others  *)
(* are compared with.                                                        *)
LEMMA AssessmentVouches ==
  ASSUME collected \in Seq(Evidence)
  PROVE  Vouches(Assessment(collected))
<1> DEFINE timely == {i \in DOMAIN collected : Trusted(collected[i]) /\ Timely(collected[i])}
           conflicts == Conflicts(collected, timely)
           kept == {j \in timely : Fact(collected[j]) \notin conflicts}
           accepted == {collected[i] : i \in kept}
           gaps == {<<"provider", e.input.type>> : e \in {d \in Items(collected) : ~Trusted(d)}}
                     \cup {<<"stale", e.input.type>> :
                             e \in {d \in Items(collected) : Trusted(d) /\ ~Timely(d)}}
                     \cup {<<"conflict", f[2]>> : f \in conflicts}
           x == Assessment(collected)
<1>1. /\ x.accepted = Ids(accepted) /\ x.rejected = Ids(Items(collected) \ accepted)
      /\ x.gaps = gaps
  BY DEF Assessment
<1> HIDE DEF x
<1>2. /\ DOMAIN collected \subseteq Nat /\ \A i \in DOMAIN collected : collected[i] \in Evidence
  OBVIOUS
<1>3. Items(collected) \subseteq Evidence
  BY <1>2 DEF Items
<1>4. accepted \subseteq Items(collected)
  BY DEF Items
<1>5. ASSUME NEW e \in Evidence, e.input.id \in x.accepted
      PROVE  \E j \in kept : e = collected[j]
  <2>a. PICK d \in accepted : e.input.id = d.input.id
    <3> HIDE DEF accepted
    <3> QED BY <1>1, <1>5 DEF Ids
  <2>1. PICK j \in kept : e.input.id = collected[j].input.id
    BY <2>a
  <2>2. collected[j] \in Evidence
    BY <1>2
  <2> QED BY <2>1, <2>2, EvidenceFields
<1>6. x.accepted \cap x.rejected = {}
  <2> SUFFICES ASSUME NEW n \in x.accepted, n \in x.rejected PROVE FALSE
    OBVIOUS
  <2>1. PICK d \in accepted : n = d.input.id
    BY <1>1 DEF Ids
  <2>2. PICK e \in Items(collected) \ accepted : n = e.input.id
    BY <1>1 DEF Ids
  <2>3. d = e
    BY <1>3, <1>4, <2>1, <2>2, EvidenceFields
  <2> QED BY <2>1, <2>2, <2>3
<1>7. ASSUME NEW e \in Evidence, e.input.id \in x.accepted PROVE Trusted(e) /\ Timely(e)
  BY <1>5, <1>7
<1>8. ASSUME NEW d \in Evidence, NEW e \in Evidence,
             d.input.id \in x.accepted, e.input.id \in x.accepted,
             Fact(d) = Fact(e), Stated(d), Stated(e), Tolerances[d.input.type] # Unknown
      PROVE  ~Apart(d, e, 2 * Tolerances[d.input.type])
  <2> DEFINE f == Fact(d)
             same == {i \in timely : Fact(collected[i]) = f}
             complete == {i \in same : Stated(collected[i])}
  <2>1. PICK i \in kept : d = collected[i]
    BY <1>5, <1>8
  <2>2. PICK j \in kept : e = collected[j]
    BY <1>5, <1>8
  <2>3. i \in complete /\ j \in complete
    <3>1. i \in timely /\ j \in timely
      BY <2>1, <2>2
    <3>2. Fact(collected[i]) = f /\ Fact(collected[j]) = f
      BY <1>8, <2>1, <2>2
    <3>3. Stated(collected[i]) /\ Stated(collected[j])
      BY <1>8, <2>1, <2>2
    <3> HIDE DEF timely, f
    <3> QED BY <3>1, <3>2, <3>3
  <2>4. complete \in SUBSET Nat
    BY <1>2
  <2>5. PICK first \in complete : \A k \in complete : first <= k
    <3> HIDE DEF complete
    <3> QED BY <2>3, <2>4, LeastNumber
  <2>6. f \notin conflicts /\ f \in {Fact(collected[k]) : k \in timely}
    BY <2>1
  <2>7. f[2] = d.input.type
    BY DEF Fact
  <2>8. ~InConflict(collected, same)
    BY <1>8, <2>6, <2>7, Zenon DEF Conflicts
  <2>9. \A k \in complete : ~Differ(collected, first, k)
    BY <2>5, <2>8 DEF InConflict
  <2>10. collected[first] \in Evidence /\ Stated(collected[first]) /\ Fact(collected[first]) = f
    BY <1>2, <2>5
  <2>11. collected[first].input.type = d.input.type
    BY <2>10 DEF Fact
  <2> DEFINE t == Tolerances[d.input.type]
  <2>12. ~Apart(collected[first], d, t) /\ ~Apart(collected[first], e, t)
    BY <2>1, <2>2, <2>3, <2>9, <2>11 DEF Differ
  <2>13. t \in Int
    <3>1. d.input \in EvidenceInputs
      BY EvidenceFields
    <3>2. t \in Nat
      BY <1>8, <3>1, MarketEvidenceAssumption
    <3> QED BY <3>2
  <2> HIDE DEF t
  <2>14. ~Apart(d, e, 2 * t)
    BY <1>8, <2>10, <2>12, <2>13, Triangle
  <2> QED BY <2>14 DEF t
<1>9. ASSUME NEW i \in EvidenceInputs, i.id \in x.rejected
      PROVE  \E g \in x.gaps : g[2] = i.type
  <2>1. PICK e \in Items(collected) \ accepted : i.id = e.input.id
    BY <1>1, <1>9 DEF Ids
  <2>2. e.input = i
    <3>1. e.input \in EvidenceInputs
      BY <1>3, <2>1, EvidenceFields
    <3>2. \A a, b \in EvidenceInputs : a.id = b.id => a = b
      BY MarketEvidenceAssumption
    <3> QED BY <2>1, <3>1, <3>2
  <2>3. CASE ~Trusted(e)
    <3>1. <<"provider", e.input.type>> \in gaps
      BY <2>1, <2>3
    <3> QED BY <1>1, <2>2, <3>1
  <2>4. CASE Trusted(e) /\ ~Timely(e)
    <3>1. <<"stale", e.input.type>> \in gaps
      BY <2>1, <2>4
    <3> QED BY <1>1, <2>2, <3>1
  <2>5. CASE Trusted(e) /\ Timely(e)
    <3>1. PICK k \in DOMAIN collected : e = collected[k]
      BY <2>1 DEF Items
    <3>2. k \in timely
      BY <2>5, <3>1
    <3>3. Fact(e) \in conflicts
      BY <2>1, <3>1, <3>2
    <3>4. Fact(e)[2] = e.input.type
      BY DEF Fact
    <3> DEFINE g == <<"conflict", Fact(e)[2]>>
    <3>5. g \in gaps /\ g[2] = e.input.type
      BY <3>3, <3>4
    <3> QED BY <1>1, <2>2, <3>5
  <2> QED BY <2>3, <2>4, <2>5
<1> QED BY <1>6, <1>7, <1>8, <1>9 DEF Vouches, x

(* An artifact that is assembled is what the assessment promises.            *)
LEMMA ArtifactSupported ==
  ASSUME EvidenceInv, assessment # Unknown, NEW claims, NEW gaps, NEW confidence,
         assessment.gaps \subseteq gaps,
         confidence \in {Unknown} \cup 0..Len(ConfidenceLimits),
         Assemble(claims, gaps, confidence)
  PROVE  EvidenceInv'
<1> DEFINE evidence == {e \in Items(collected) : e.input.id \in assessment.accepted}
           a == [claims |-> claims, evidence |-> evidence, gaps |-> gaps,
                 confidence |-> confidence, assessed |-> assessment]
<1>0. /\ collected \in Seq(Evidence) /\ Vouches(assessment)
      /\ MarketEvidenceTypeOK /\ ClaimsSupported
  BY DEF EvidenceInv
<1>1. /\ artifacts' = artifacts \cup {a} /\ UNCHANGED <<collected, assessment>>
      /\ Safe(claims) /\ Cited(claims, Ids(evidence))
  BY DEF Assemble
<1>2. /\ a.claims = claims /\ a.evidence = evidence /\ a.gaps = gaps
      /\ a.confidence = confidence /\ a.assessed = assessment
  OBVIOUS
<1>3. evidence \subseteq Evidence /\ \A e \in evidence : e.input.id \in assessment.accepted
  BY <1>0 DEF Items
<1> HIDE DEF a, evidence
<1>4. MarketEvidenceTypeOK'
  BY <1>0, <1>1, <1>2 DEF MarketEvidenceTypeOK
<1>5. \A c \in a.claims : c.class = "analysis" /\ c.cites # {} /\ c.cites \subseteq Ids(a.evidence)
  BY <1>1, <1>2 DEF Safe, Cited
<1>6. \A e \in a.evidence : Trusted(e) /\ Timely(e)
  BY <1>0, <1>2, <1>3 DEF Vouches
<1>7. ASSUME NEW d \in a.evidence, NEW e \in a.evidence,
             Fact(d) = Fact(e), Stated(d), Stated(e), Tolerances[d.input.type] # Unknown
      PROVE  ~Apart(d, e, 2 * Tolerances[d.input.type])
  BY <1>0, <1>2, <1>3, <1>7, Zenon DEF Vouches
<1>8. ASSUME NEW i \in EvidenceInputs, i.id \in a.assessed.rejected
      PROVE  \E g \in a.gaps : g[2] = i.type
  BY <1>0, <1>2, <1>8 DEF Vouches
<1>9. ClaimsSupported'
  <2>1. ASSUME NEW b \in artifacts' PROVE b \in artifacts \/ b = a
    BY <1>1
  <2>2. ClaimsSupported' <=> \A b \in artifacts' :
          /\ \A c \in b.claims : c.class = "analysis" /\ c.cites # {} /\ c.cites \subseteq Ids(b.evidence)
          /\ \A e \in b.evidence : Trusted(e) /\ Timely(e)
          /\ \A d, e \in b.evidence :
               Fact(d) = Fact(e) /\ Stated(d) /\ Stated(e) /\ Tolerances[d.input.type] # Unknown
                 => ~Apart(d, e, 2 * Tolerances[d.input.type])
          /\ \A i \in EvidenceInputs : i.id \in b.assessed.rejected => \E g \in b.gaps : g[2] = i.type
    BY DEF ClaimsSupported
  <2> QED BY <1>0, <1>5, <1>6, <1>7, <1>8, <2>1, <2>2, Zenon DEF ClaimsSupported
<1> QED BY <1>0, <1>1, <1>4, <1>9 DEF EvidenceInv

(* Collecting, assessing and assembling keep what was promised.              *)
THEOREM EvidenceInvariance == MarketEvidenceSpec => []EvidenceInv
<1>1. MarketEvidenceInit => EvidenceInv
  BY DEF MarketEvidenceInit, EvidenceInv, MarketEvidenceTypeOK, ClaimsSupported
<1>2. EvidenceInv /\ [MarketEvidenceNext]_evidenceVars => EvidenceInv'
  <2> SUFFICES ASSUME EvidenceInv, [MarketEvidenceNext]_evidenceVars PROVE EvidenceInv'
    OBVIOUS
  <2>0. collected \in Seq(Evidence) /\ MarketEvidenceTypeOK
    BY DEF EvidenceInv
  <2>1. ASSUME NEW input \in EvidenceInputs, CollectEvidence(input) PROVE EvidenceInv'
    <3>1. Frozen(input) \in Evidence
      BY DEF Evidence
    <3>2. collected' = Append(collected, Frozen(input)) /\ UNCHANGED <<assessment, artifacts>>
      BY <2>1 DEF CollectEvidence, Frozen
    <3>3. collected' \in Seq(Evidence)
      BY <2>0, <3>1, <3>2
    <3>4. MarketEvidenceTypeOK'
      <4>1. \A i \in DOMAIN collected' : collected'[i] \in Evidence
        BY <3>3
      <4>2. \A i \in DOMAIN collected' :
              collected'[i].input \in EvidenceInputs /\ collected'[i].freshness \in Freshness
        BY <4>1, EvidenceFields
      <4> QED BY <2>0, <3>2, <4>2 DEF MarketEvidenceTypeOK
    <3>5. ClaimsSupported'
      BY <3>2 DEF EvidenceInv, ClaimsSupported
    <3> QED BY <3>2, <3>3, <3>4, <3>5 DEF EvidenceInv
  <2>2. ASSUME Assess PROVE EvidenceInv'
    <3> DEFINE x == Assessment(collected)
    <3>1. Vouches(x)
      BY <2>0, AssessmentVouches
    <3>2. assessment' = x /\ UNCHANGED <<collected, artifacts>>
      BY <2>2 DEF Assess
    <3> HIDE DEF x
    <3>3. Vouches(assessment)'
      BY <3>1, <3>2 DEF Vouches
    <3>4. MarketEvidenceTypeOK'
      BY <2>0, <3>1, <3>2 DEF MarketEvidenceTypeOK, Vouches
    <3>5. ClaimsSupported'
      BY <3>2 DEF EvidenceInv, ClaimsSupported
    <3> QED BY <2>0, <3>2, <3>3, <3>4, <3>5 DEF EvidenceInv
  <2>3. ASSUME NEW claims \in Drafted, AssembleSecurity(claims) PROVE EvidenceInv'
    <3> DEFINE gaps == assessment.gaps \cup
                 {<<"section", s>> : s \in RequiredSections \ {c.section : c \in claims}}
    <3>1. Assemble(claims, gaps, ConfidenceFor(Cardinality(gaps))) /\ assessment # Unknown
      BY <2>3 DEF AssembleSecurity
    <3>2. ConfidenceFor(Cardinality(gaps)) \in 0..Len(ConfidenceLimits)
      <4> DEFINE n == Cardinality(gaps)
                 bands == {i \in DOMAIN ConfidenceLimits : ConfidenceLimits[i] < n}
      <4> HIDE DEF n
      <4>1. DOMAIN ConfidenceLimits = 1..Len(ConfidenceLimits) /\ Len(ConfidenceLimits) \in Nat
        BY MarketEvidenceAssumption
      <4>2. bands \subseteq 1..Len(ConfidenceLimits)
        BY <4>1
      <4>3. /\ IsFiniteSet(1..Len(ConfidenceLimits))
            /\ Cardinality(1..Len(ConfidenceLimits)) = Len(ConfidenceLimits)
        <5> DEFINE m == Len(ConfidenceLimits)
        <5>1. m \in Nat
          BY <4>1
        <5> HIDE DEF m
        <5>2. IsFiniteSet(1..m) /\ Cardinality(1..m) = IF 1 > m THEN 0 ELSE m - 1 + 1
          BY <5>1, FS_Interval
        <5>3. Cardinality(1..m) = m
          BY <5>1, <5>2
        <5> QED BY <5>2, <5>3 DEF m
      <4>4. Cardinality(bands) \in Nat /\ Cardinality(bands) <= Len(ConfidenceLimits)
        BY <4>2, <4>3, FS_Subset, FS_CardinalityType
      <4> QED BY <4>1, <4>4 DEF ConfidenceFor, n
    <3>3. assessment.gaps \subseteq gaps
      OBVIOUS
    <3> HIDE DEF gaps
    <3> QED BY <3>1, <3>2, <3>3, ArtifactSupported
  <2>4. ASSUME NEW candidates \in Drafted, AssembleTheme(candidates) PROVE EvidenceInv'
    BY <2>4, ArtifactSupported DEF AssembleTheme
  <2>5. CASE UNCHANGED evidenceVars
    <3>1. UNCHANGED <<collected, assessment, artifacts>>
      BY <2>5 DEF evidenceVars
    <3>2. MarketEvidenceTypeOK' /\ (assessment # Unknown => Vouches(assessment))'
      BY <2>0, <3>1 DEF EvidenceInv, MarketEvidenceTypeOK, Vouches
    <3>3. ClaimsSupported'
      BY <3>1 DEF EvidenceInv, ClaimsSupported
    <3> QED BY <2>0, <3>1, <3>2, <3>3 DEF EvidenceInv
  <2> QED BY <2>1, <2>2, <2>3, <2>4, <2>5 DEF MarketEvidenceNext
<1> QED BY <1>1, <1>2, PTL DEF MarketEvidenceSpec

(* What an artifact claims has evidence that is trusted and timely, and no   *)
(* two of its items are further apart than twice the tolerance; what was     *)
(* rejected is named as a gap.                                               *)
THEOREM ArtifactsSupported == MarketEvidenceSpec => []ClaimsSupported
<1>1. EvidenceInv => ClaimsSupported
  BY DEF EvidenceInv
<1> QED BY <1>1, EvidenceInvariance, PTL

(*****************************************************************************)
(* Capabilities.tla                                                          *)
(*****************************************************************************)
(* A run of the services side by side is a run of each of them.              *)
THEOREM EachServiceRuns ==
  Spec => /\ PlansSpec /\ RemindersSpec /\ WatchlistsSpec /\ ScansSpec
          /\ ModelCallsSpec /\ NodeRunsSpec /\ ToolCallsSpec /\ MarketEvidenceSpec
<1>1. Init => /\ PlansInit /\ RemindersInit /\ WatchlistsInit /\ ScansInit
              /\ ModelCallsInit /\ NodeRunsInit /\ ToolCallsInit /\ MarketEvidenceInit
  BY DEF Init
<1>2. [Next]_vars => /\ [PlansNext]_planVars /\ [RemindersNext]_reminderVars
                     /\ [WatchlistsNext]_watchlistVars /\ [ScansNext]_scanVars
                     /\ [ModelCallsNext]_modelVars /\ [NodeRunsNext]_nodeVars
                     /\ [ToolCallsNext]_toolVars /\ [MarketEvidenceNext]_evidenceVars
  BY DEF Next, vars
<1> QED BY <1>1, <1>2, PTL DEF Spec, PlansSpec, RemindersSpec, WatchlistsSpec, ScansSpec,
       ModelCallsSpec, NodeRunsSpec, ToolCallsSpec, MarketEvidenceSpec

(* So the tables of all of them keep their types.                            *)
THEOREM CapabilitiesTyped == Spec => []CapabilitiesTypeOK
<1>1. /\ PlansInv => PlansTypeOK
      /\ RemindersInv => RemindersTypeOK
      /\ WatchlistsInv => WatchlistsTypeOK
      /\ ScansInv => ScansTypeOK
      /\ ModelInv => ModelCallsTypeOK
      /\ NodeInv => NodeRunsTypeOK
      /\ ToolInv => ToolCallsTypeOK
      /\ EvidenceInv => MarketEvidenceTypeOK
  BY DEF PlansInv, RemindersInv, WatchlistsInv, ScansInv, ModelInv, NodeInv, ToolInv, EvidenceInv
<1>2. /\ PlansTypeOK /\ RemindersTypeOK /\ WatchlistsTypeOK /\ ScansTypeOK
      /\ ModelCallsTypeOK /\ NodeRunsTypeOK /\ ToolCallsTypeOK /\ MarketEvidenceTypeOK
      => CapabilitiesTypeOK
  BY DEF CapabilitiesTypeOK
<1> QED BY <1>1, <1>2, EachServiceRuns, PlansInvariance, RemindersInvariance,
       WatchlistsInvariance, ScansInvariance, ModelInvariance, NodeRunsInvariance,
       ToolInvariance, EvidenceInvariance, PTL
===============================================================================
