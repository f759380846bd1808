----------------------------- MODULE ModelCalls -----------------------------
(* Calls of one model route: ValidatedLLMClient, which repairs an answer     *)
(* that is not what the schema asks for, over LiteLLMClient, which admits    *)
(* calls through the semaphore of the route, checks the budget, tries the    *)
(* endpoints in order and adds up what the answers cost.  Both await only    *)
(* the semaphore and the provider, so a step below is what happens from one  *)
(* of these awaits to the next.                                              *)
EXTENDS Naturals, FiniteSets

CONSTANTS
  Callers,          \* the requests, each made by a task of its own
  Endpoints,        \* of the route: the first one and its fallbacks
  MaxAttempts,      \* max_attempts, per endpoint
  ConcurrencyLimit, \* concurrency_limit
  Budget,           \* budget_usd
  MaxCost,          \* the most one answer costs
  MaxRepairs        \* max_repairs

ASSUME ModelCallsAssumption ==
  /\ Endpoints \in Nat \ {0} /\ MaxAttempts \in Nat \ {0}
  /\ ConcurrencyLimit \in Nat \ {0} /\ Budget \in Nat \ {0} /\ MaxCost \in Nat
  /\ MaxRepairs \in {0, 1}

VARIABLES
  modelCalls, \* by caller
  spent       \* _spent_usd of the route
modelVars == <<modelCalls, spent>>

\* What the provider refuses for good (authentication, an invalid request, its
\* policy, too long a context) is one code here.
RetryableCode == {"timeout", "rate_limited"}
FinalCode == {"refused", "unavailable"}
Outcome == {"none", "answer", "cancelled", "budget_exceeded", "invalid_response"}
             \cup RetryableCode \cup FinalCode

\* A stream has no schema, no retries and no budget.
ModelCall == [at : {"new", "waiting", "calling", "over"}, kind : {"text", "json", "stream"},
              attempts : 0..(Endpoints * MaxAttempts), repairs : 0..MaxRepairs,
              outcome : Outcome]

ModelCallsTypeOK ==
  /\ modelCalls \in [Callers -> ModelCall]
  /\ spent \in Nat

ModelCallsInit ==
  /\ modelCalls = [c \in Callers |->
       [at |-> "new", kind |-> "text", attempts |-> 0, repairs |-> 0, outcome |-> "none"]]
  /\ spent = 0

Over(c, outcome) ==
  modelCalls' = [modelCalls EXCEPT ![c].at = "over", ![c].outcome = outcome]

RequestModel(c, kind) ==
  /\ modelCalls[c].at = "new"
  /\ modelCalls' = [modelCalls EXCEPT ![c].at = "waiting", ![c].kind = kind]
  /\ UNCHANGED spent

Admitted == {c \in Callers : modelCalls[c].at = "calling"}

\* Variant of Exhausted that takes a budget just reached for one not reached.
BarelyExhausted == spent > Budget

\* _check_budget.
Exhausted == spent >= Budget

\* The next attempt, the first of which a stream makes without a look at the
\* budget.
TryModel(c) ==
  IF Exhausted /\ modelCalls[c].kind # "stream"
  THEN Over(c, "budget_exceeded")
  ELSE modelCalls' = [modelCalls EXCEPT ![c].at = "calling", ![c].attempts = @ + 1]

Admit(c) ==
  /\ modelCalls[c].at = "waiting"
  /\ Cardinality(Admitted) < ConcurrencyLimit
  /\ TryModel(c)
  /\ UNCHANGED spent

\* _map_error: only a timeout and a rate limit are tried again, first on the
\* same endpoint and then on the next; the last of them is reported as the
\* route's being unavailable.
AttemptFails(c, code) ==
  /\ modelCalls[c].at = "calling"
  /\ \/ code \in FinalCode /\ Over(c, code)
     \/ code \in RetryableCode /\ modelCalls[c].kind = "stream" /\ Over(c, code)
     \/ /\ code \in RetryableCode /\ modelCalls[c].kind # "stream"
        /\ IF modelCalls[c].attempts < Endpoints * MaxAttempts
           THEN TryModel(c) ELSE Over(c, "unavailable")
  /\ UNCHANGED spent

StreamEnds(c) ==
  /\ modelCalls[c].at = "calling" /\ modelCalls[c].kind = "stream"
  /\ Over(c, "answer")
  /\ UNCHANGED spent

\* The answer is paid for before anybody looks at it.  One that takes the
\* route over its budget is dropped, and its error is mapped like any other
\* that the provider's library does not raise.  One that does not fit the
\* schema is sent back for repair, as a request of its own.
AttemptAnswers(c, cost, fits) ==
  /\ modelCalls[c].at = "calling" /\ modelCalls[c].kind # "stream"
  /\ spent' = spent + cost
  /\ CASE spent' > Budget -> Over(c, "unavailable")
       [] spent' <= Budget /\ (fits \/ modelCalls[c].kind = "text") -> Over(c, "answer")
       [] OTHER -> IF modelCalls[c].repairs = MaxRepairs
                   THEN Over(c, "invalid_response")
                   ELSE modelCalls' = [modelCalls EXCEPT ![c].at = "waiting",
                          ![c].attempts = 0, ![c].repairs = @ + 1]

CancelCall(c) ==
  /\ modelCalls[c].at \in {"waiting", "calling"}
  /\ Over(c, "cancelled")
  /\ UNCHANGED spent

ModelCallsNext == \E c \in Callers :
  \/ \E kind \in {"text", "json", "stream"} : RequestModel(c, kind)
  \/ Admit(c)
  \/ \E code \in RetryableCode \cup FinalCode : AttemptFails(c, code)
  \/ StreamEnds(c)
  \/ \E cost \in 0..MaxCost, fits \in BOOLEAN : AttemptAnswers(c, cost, fits)
  \/ CancelCall(c)

ModelCallsSpec == ModelCallsInit /\ [][ModelCallsNext]_modelVars

\* What the route has recorded as spent passes its budget by no more than one
\* answer for each call the semaphore admits, whatever waits, is retried,
\* falls back or is sent back for repair: every attempt checks the budget
\* anew.
BudgetHeld == spent < Budget + ConcurrencyLimit * MaxCost
=============================================================================
