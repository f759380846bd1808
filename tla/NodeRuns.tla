------------------------------ MODULE NodeRuns ------------------------------
(* Runs of one node of a graph under one idempotency key: NodeExecutor, with *)
(* its timeout and its attempts, around execute_idempotent_command, which    *)
(* looks for a receipt, awaits the operation and stores what it returned.    *)
(* The store is SQLiteCommandStore, one transaction per call; a process that *)
(* ends is replaced by one that replays the node from its checkpoint.        *)
EXTENDS Naturals

CONSTANTS
  Nodes,           \* replays of the node that overlap
  NodeMaxAttempts, \* max_attempts of the policy
  MaxEffects       \* bound: effects the operation ever has

ASSUME NodeRunsAssumption == NodeMaxAttempts \in Nat \ {0} /\ MaxEffects \in Nat

VARIABLES
  command,  \* the record under the key
  nodeRuns, \* by replay
  sideEffects \* history: how often the operation had its effect
nodeVars == <<command, nodeRuns, sideEffects>>

\* A result names the effect that produced it; 0 is no result.
NodeResult == 0..MaxEffects
Command == [status : {"absent", "pending", "completed"}, result : NodeResult]
NodeRun == [at : {"ready", "operating", "operated", "over"}, attempt : 1..NodeMaxAttempts,
            value : NodeResult, outcome : {"none", "result", "exhausted", "failed"}]

NodeRunsTypeOK ==
  /\ command \in Command
  /\ nodeRuns \in [Nodes -> NodeRun]
  /\ sideEffects \in 0..MaxEffects

Ready(attempt) == [at |-> "ready", attempt |-> attempt, value |-> 0, outcome |-> "none"]

NodeRunsInit ==
  /\ command = [status |-> "absent", result |-> 0]
  /\ nodeRuns = [n \in Nodes |-> Ready(1)]
  /\ sideEffects = 0

NodeReturns(n, value) ==
  nodeRuns' = [nodeRuns EXCEPT ![n].at = "over", ![n].value = value, ![n].outcome = "result"]

\* A receipt that is still pending does not stop the operation.
BeginCommand(n) ==
  /\ nodeRuns[n].at = "ready"
  /\ IF command.status = "completed"
     THEN NodeReturns(n, command.result) /\ UNCHANGED command
     ELSE /\ nodeRuns' = [nodeRuns EXCEPT ![n].at = "operating"]
          /\ command' = [command EXCEPT !.status = "pending"]
  /\ UNCHANGED sideEffects

Operate(n) ==
  /\ nodeRuns[n].at = "operating" /\ sideEffects < MaxEffects
  /\ sideEffects' = sideEffects + 1
  /\ nodeRuns' = [nodeRuns EXCEPT ![n].at = "operated", ![n].value = sideEffects + 1]
  /\ UNCHANGED command

\* Variant of StoredResult: the last one to complete the command wins.
LastResult(value) == [status |-> "completed", result |-> value]

\* complete writes over a pending record only.
StoredResult(value) ==
  IF command.status = "pending" THEN [status |-> "completed", result |-> value] ELSE command

CompleteCommand(n) ==
  /\ nodeRuns[n].at = "operated"
  /\ command' = StoredResult(nodeRuns[n].value)
  /\ NodeReturns(n, command'.result)
  /\ UNCHANGED sideEffects

\* The operation raises, or wait_for cancels it, before or after its effect.
AttemptEnds(n, retryable) ==
  /\ nodeRuns[n].at \in {"operating", "operated"}
  /\ nodeRuns' = [nodeRuns EXCEPT ![n] =
       IF retryable /\ @.attempt < NodeMaxAttempts THEN Ready(@.attempt + 1)
       ELSE [at |-> "over", attempt |-> @.attempt, value |-> 0,
             outcome |-> IF retryable THEN "exhausted" ELSE "failed"]]
  /\ UNCHANGED <<command, sideEffects>>

\* The process ends between any two steps, and another one replays the node.
ReplayNode(n) ==
  /\ nodeRuns[n].at # "over"
  /\ nodeRuns' = [nodeRuns EXCEPT ![n] = Ready(1)]
  /\ UNCHANGED <<command, sideEffects>>

NodeRunsNext == \E n \in Nodes :
  \/ BeginCommand(n) \/ Operate(n) \/ CompleteCommand(n)
  \/ \E retryable \in BOOLEAN : AttemptEnds(n, retryable)
  \/ ReplayNode(n)

NodeRunsSpec == NodeRunsInit /\ [][NodeRunsNext]_nodeVars

\* However often a node is retried, replayed or run twice at once, everyone
\* who is given a result is given the one that is stored, and it comes from
\* an effect that happened.
SameResult == \A n \in Nodes : nodeRuns[n].outcome = "result" =>
  /\ command.status = "completed" /\ command.result = nodeRuns[n].value
  /\ nodeRuns[n].value \in 1..sideEffects

\* Replaying a node from its checkpoint repeats no effect.
EffectOnce == sideEffects <= 1
=============================================================================
