----------------------------- MODULE Strategies -----------------------------
(* StrategyPublisher: an approved draft becomes the next immutable version   *)
(* of its strategy, once per idempotency key.  In memory, under one lock.    *)
EXTENDS Naturals, Sequences, FiniteSets

CONSTANTS
  Drafts,             \* [rule, complete]: what a strategy says
  PublishKeys,
  MaxStrategyVersion, \* bound
  NoDraft

ASSUME StrategiesAssumption == MaxStrategyVersion \in Nat

VARIABLES
  strategyVersions,   \* _versions of one strategy of one owner
  strategyReceipts    \* _commands: the version each key published
strategyVars == <<strategyVersions, strategyReceipts>>

StrategiesTypeOK ==
  /\ strategyVersions \in Seq(Drafts)
  /\ strategyReceipts \in [PublishKeys -> 0..MaxStrategyVersion]

StrategiesInit ==
  /\ strategyVersions = <<>>
  /\ strategyReceipts = [k \in PublishKeys |-> 0]

(* The approval, the owner, the tool's payload hash and the completeness of  *)
(* the draft are checked before the key is looked up.  A key that has        *)
(* published returns its version for the same draft, or is a conflict.       *)
Publish(k, draft) ==
  /\ draft.complete
  /\ strategyReceipts[k] = 0
  /\ Len(strategyVersions) < MaxStrategyVersion
  /\ strategyVersions' = Append(strategyVersions, draft)
  /\ strategyReceipts' = [strategyReceipts EXCEPT ![k] = Len(strategyVersions) + 1]

=============================================================================
