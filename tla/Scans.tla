-------------------------------- MODULE Scans --------------------------------
(* The quantitative capability: the registry of models and its release gate, *)
(* the submission of a scan, which freezes a strategy version, a universe,   *)
(* the securities' inputs and a model, and the evaluation of a scan, which   *)
(* asks the registry for the production model again.  A scan is evaluated    *)
(* later than it was submitted, and again when its job is retried.           *)
EXTENDS Strategies, Integers

CONSTANTS
  Models, Tasks,      \* a task is a market, target and horizon
  Securities,         \* natural numbers: ties are ranked in their order
  Inputs,             \* [inScope, usable, missing, value]; value 0 is none
  Candidates,         \* [model, task, quality, return, calibration]
  Output,             \* what each model answers for each value; 0 is invalid
  ScanLimit, InferenceLimit, \* two missing-ratio limits, of scan and inference
  MinProbability,
  Weight,             \* of the probability in the score
  MinQuality, MaxCalibration, Baseline, \* the release gate
  MaxScans, MaxRuns, MaxDecisions \* bounds

\* What is fitted is of a model and a task, what a model answers is a number.
ASSUME ScansAssumption ==
  /\ Securities \subseteq Nat /\ IsFiniteSet(Securities)
  /\ Weight \in Int
  /\ \A c \in Candidates : c.model \in Models /\ c.task \in Tasks
  /\ \A i \in Inputs : i.value \in Int
  /\ \A m \in Models, i \in Inputs : i.value # 0 => Output[m, i.value] \in Int

VARIABLES
  registry,           \* _entries of the model registry, in memory
  scans,              \* submissions, kept with their jobs
  scanRuns,           \* evaluations made
  decisions           \* monitoring decisions recorded
scanVars == <<strategyVersions, strategyReceipts, registry, scans, scanRuns, decisions>>

Entry == [task : Tasks, status : {"candidate", "approved"}, passed : BOOLEAN]
Scan == [strategy : 1..MaxStrategyVersion, draft : Drafts, task : Tasks, model : Models,
         inputs : [Securities -> Inputs \cup {NoDraft}]]
Disposition == {"matched", "non_match", "unavailable"}
Result == [disposition : Disposition, score : Int, rank : Nat]
Decision == [model : Models, action : {"continue", "fallback", "stop"}]

ScansTypeOK ==
  /\ StrategiesTypeOK
  /\ DOMAIN registry \subseteq Models /\ \A m \in DOMAIN registry : registry[m] \in Entry
  /\ scans \subseteq Scan
  /\ \A e \in scanRuns : e.scan \in scans /\ \A s \in DOMAIN e.results : e.results[s] \in Result
  /\ decisions \subseteq Decision

ScansInit ==
  /\ StrategiesInit
  /\ registry = [m \in {} |-> NoDraft]
  /\ scans = {} /\ scanRuns = {} /\ decisions = {}

PublishStrategy(k, draft) == Publish(k, draft) /\ UNCHANGED <<registry, scans, scanRuns, decisions>>

(* evaluate_candidate: every threshold met, and strictly better than the     *)
(* baseline in quality and in return.                                        *)
PassesGate(c) ==
  /\ c.quality >= MinQuality /\ c.calibration <= MaxCalibration
  /\ c.quality > Baseline.quality /\ c.return > Baseline.return

RegisterModel(c) ==
  /\ c.model \notin DOMAIN registry
  /\ registry' = [m \in DOMAIN registry \cup {c.model} |->
       IF m = c.model THEN [task |-> c.task, status |-> "candidate", passed |-> PassesGate(c)]
       ELSE registry[m]]
  /\ UNCHANGED strategyVars /\ UNCHANGED <<scans, scanRuns, decisions>>

ApproveModel(m) ==
  /\ m \in DOMAIN registry /\ registry[m].passed
  /\ registry' = [registry EXCEPT ![m].status = "approved"]
  /\ UNCHANGED strategyVars /\ UNCHANGED <<scans, scanRuns, decisions>>

(* The only approved model of a task.  Nothing retires a model, so a second  *)
(* approval leaves the task without one.                                     *)
ApprovedFor(task) == {m \in DOMAIN registry : registry[m].task = task /\ registry[m].status = "approved"}
IsProduction(m, task) == ApprovedFor(task) = {m}

(* The validator: an input for each security of a universe that is not       *)
(* empty.  It is handed snapshots of a strategy and of a model, and takes    *)
(* their word for it that they are published and approved, and for one task: *)
(* it asks neither the strategies nor the registry.                          *)
SubmitScan(v, draft, m, task, inputs) ==
  /\ Cardinality(scans) < MaxScans
  /\ \E s \in Securities : inputs[s] # NoDraft
  /\ scans' = scans \cup {[strategy |-> v, draft |-> draft,
       task |-> task, model |-> m, inputs |-> inputs]}
  /\ UNCHANGED strategyVars /\ UNCHANGED <<registry, scanRuns, decisions>>

--------------------------------------------------------------------------
(* The deterministic gates, in their order: scope and liquidity, then the    *)
(* data, then the strategy's hard rule.                                      *)
Universe(scan) == {s \in Securities : scan.inputs[s] # NoDraft}
Complete(input) == input.usable /\ input.missing <= ScanLimit /\ input.value # 0
Gated(scan, s) == LET input == scan.inputs[s] IN
  CASE ~input.inScope -> "non_match"
    [] input.inScope /\ ~Complete(input) -> "unavailable"
    [] input.inScope /\ Complete(input) /\ input.value < scan.draft.rule -> "non_match"
    [] OTHER -> "eligible"

\* Variant of Predicts that takes the answer of any production model.
PredictsAnyModel(scan, s) == \E m \in Models :
  /\ IsProduction(m, scan.task)
  /\ scan.inputs[s].missing <= InferenceLimit
  /\ Output[m, scan.inputs[s].value] # 0

(* Inference has a limit of its own, and answers with the model that is in   *)
(* production now; the scan accepts it from the model it froze only.         *)
Predicts(scan, s) == \E m \in Models :
  /\ IsProduction(m, scan.task)
  /\ scan.inputs[s].missing <= InferenceLimit
  /\ m = scan.model
  /\ Output[m, scan.inputs[s].value] # 0
Probability(scan, s) ==
  Output[CHOOSE m \in Models : IsProduction(m, scan.task), scan.inputs[s].value]

DispositionOf(scan, s) ==
  CASE Gated(scan, s) # "eligible" -> Gated(scan, s)
    [] Gated(scan, s) = "eligible" /\ ~Predicts(scan, s) -> "unavailable"
    [] OTHER -> IF Probability(scan, s) < MinProbability THEN "non_match" ELSE "matched"

Scored(scan, s) == Gated(scan, s) = "eligible" /\ Predicts(scan, s)
Score(scan, s) == Probability(scan, s) * Weight + scan.inputs[s].value

(* Matches are ranked by score, and by security where scores are equal.      *)
Matches(scan) == {s \in Universe(scan) : DispositionOf(scan, s) = "matched"}
Ahead(scan, t, s) == \/ Score(scan, t) > Score(scan, s)
                     \/ Score(scan, t) = Score(scan, s) /\ t < s
Rank(scan, s) == 1 + Cardinality({t \in Matches(scan) : Ahead(scan, t, s)})

Evaluation(scan) == [s \in Universe(scan) |->
  [disposition |-> DispositionOf(scan, s),
   score |-> IF Scored(scan, s) THEN Score(scan, s) ELSE 0,
   rank |-> IF s \in Matches(scan) THEN Rank(scan, s) ELSE 0]]

EvaluateScan(scan) ==
  /\ Cardinality(scanRuns) < MaxRuns
  /\ scanRuns' = scanRuns \cup {[scan |-> scan, results |-> Evaluation(scan)]}
  /\ UNCHANGED strategyVars /\ UNCHANGED <<registry, scans, decisions>>

(* Monitoring: a model that breaches no threshold goes on; one that does     *)
(* gives way to the approved baseline its caller names, unless it is that    *)
(* baseline or there is none, and then it stops.  It only records this.      *)
Observed(m, breached, baseline) ==
  [model |-> m, action |-> IF ~breached THEN "continue"
                           ELSE IF baseline \notin {m, NoDraft} THEN "fallback" ELSE "stop"]
MonitorModel(m, breached, baseline) ==
  /\ Cardinality(decisions) < MaxDecisions
  /\ decisions' = decisions \cup {Observed(m, breached, baseline)}
  /\ UNCHANGED strategyVars /\ UNCHANGED <<registry, scans, scanRuns>>

(* The process ends: the strategies and the registry are in memory, the      *)
(* submitted scans are with their durable jobs.                              *)
ScansRestart ==
  /\ registry' = [m \in {} |-> NoDraft]
  /\ strategyVersions' = <<>>
  /\ strategyReceipts' = [k \in PublishKeys |-> 0]
  /\ UNCHANGED <<scans, scanRuns, decisions>>

ScansNext ==
  \/ \E k \in PublishKeys, d \in Drafts : PublishStrategy(k, d)
  \/ \E c \in Candidates : RegisterModel(c)
  \/ \E m \in Models :
       \/ ApproveModel(m)
       \/ \E breached \in BOOLEAN, baseline \in Models \cup {NoDraft} :
            MonitorModel(m, breached, baseline)
  \/ \E v \in 1..MaxStrategyVersion, draft \in Drafts, m \in Models, task \in Tasks,
        inputs \in [Securities -> Inputs \cup {NoDraft}] :
       SubmitScan(v, draft, m, task, inputs)
  \/ \E scan \in scans : EvaluateScan(scan)
  \/ ScansRestart

ScansSpec == ScansInit /\ [][ScansNext]_scanVars

--------------------------------------------------------------------------
(* Two evaluations of one scan, before and after models were approved or the *)
(* process restarted, give a security the same disposition, score and rank,  *)
(* unless one of them could not evaluate it: a retry never ranks it anew.    *)
RunsAgree == \A e, f \in scanRuns : e.scan = f.scan =>
  \A s \in DOMAIN e.results :
    \/ e.results[s] = f.results[s]
    \/ e.results[s].disposition = "unavailable"
    \/ f.results[s].disposition = "unavailable"
=============================================================================
