# TLA+ models of trade-agent-v2

TLA+ specifications, TLC configurations and machine-checked proofs for the
trading-agent backend (`src/trade_agent`). The modules follow the code: each
action is one operation or one database statement of it, and `PROJECT.json`
names the lines every definition stands for. Paths below are relative to the
repository root.

## 1. The system

A single-user (owner-scoped) agent platform. The API process (FastAPI) serves
conversations; a supervisor routes a message to a workflow; a workflow asks the
user through *human interactions* (forms, approvals) that are persisted and
answered later, possibly after a restart; long work (strategy scans, background
jobs) is leased to worker processes. SQLite is the only shared store. Plans,
strategies and watchlists live in the API process's memory.

| Component | State it keeps | Operations | What makes it hard, what makes it correct |
|---|---|---|---|
| Human interactions (`core/hitl`, `adapters/sqlite/hitl.py`) | rows of `hitl_interactions` | create, respond, cancel, expire_due, get | Several statements per call and no database transaction around the SELECT; a clock read before the lock. One decision, on time, final. |
| Scan store (`adapters/sqlite/scan_jobs.py`) | `scan_jobs`, `scan_units`, leases | create_scan, claim (with reaper), heartbeat, complete, release_or_fail, cancel, progress | Derived state (status, counters) next to its source; stale clocks; two processes. Rows agree, outcomes final, scans end. |
| Job store (`SQLiteJobStore`) | `jobs`, leases | enqueue, claim, heartbeat, complete, fail, release, cancel | Same, with a release in two statements. Nobody's lease is stolen, outcomes final, retries bounded. |
| Command receipts (`SQLiteCommandStore`) | receipts by idempotency key | begin, complete | Two requests with one key, a key used again elsewhere, a crash before complete. A repeated request, one result. |
| HITL handlers, `ConversationRunService` (`apps`) | nothing of their own | respond, cancel, resume | A chain of transactions that a crash, or another handler's publication, may cut. An answer acts once, and does act. |
| Planning workflow and service (`apps/workflows/planning.py`, `capabilities/planning`) | plans and reviews in memory, resume receipts in SQLite | request form, draft, approval, edit, activate; invalidate, archive, review | The approved draft is the activated one; an open approval is about the current draft. |
| Run events, cards (`apps/workflows/runtime.py`, event store) | `run_events`, cards, artifacts | publish_card, append_event, replay, SSE | Read-then-append in two transactions; cursors. Gapless sequences, nothing lost or repeated. |
| Aggregate repository | versioned aggregates | save with expected_version | Compare-and-set against a version read earlier. |
| Research-to-plan workflow (`apps/workflows/research_to_plan.py`) | run context, interactions, the plan | start, six kinds of answers | Handlers of a dozen steps without a transaction, which overlap, fail halfway and meet agents. A run never forks and does what it was asked. |
| Supervisor, registry, sub-agents | routing decisions | route | Only a registered agent's workflow is started. |
| Node executor (`core/runtime/execution.py`) | receipts, attempts | run, execute_idempotent_command | A retry of what may already have happened. Everyone gets the one stored result. |
| Tool gateway (`core/tools`) and the tools | nothing of its own | invoke | Identity, approval and keys stand between an agent and a service; an effect may be followed by a timeout. Only authorised writes, each once. |
| Strategies (`capabilities/strategy`) | versions, receipts in memory | publish | Numbered versions that scans refer to. |
| Scans and models (`capabilities/quantitative`) | registry, submissions, runs | register, approve, submit, evaluate, monitor | Evaluated later than submitted, and again, while the registry changes. One scan, one answer. |
| Reminders (`capabilities/reminder`) | rules, observations, triggers | create, set_status, run_once, deliver | State read before an await and used after it; record, then deliver. No alert too early or twice. |
| Watchlists (`capabilities/watchlist`) | members, groups, snapshots, receipts | classify, approve, accept, freeze | Classified now, imported later. Nothing lost or invented. |
| Market research (`capabilities/market_research`) | evidence, artifacts | collect, assess, assemble | Freshness, conflicts, missing sections. No claim without trusted support. |
| LLM clients (`adapters/llm`, `core/llm`) | spent budget, calls under way | request, retry, fall back, repair | A budget tested before and charged after. |
| Presentation, security, settings, CLI | none | validate, project, parse | Pure. |
| Worker process | none yet | prints health | Its loop is not written; the stores define what it must do. |
| Web chat client | cursor, cards, pending clicks | stream, snapshot, respond | Reconnection, repeated clicks. |

How they interact: a click is `POST /api/hitl/{id}/responses`. The handler begins
a command receipt, checks the card, calls the HITL service (which decides the
interaction), then `ConversationRunService.handle_resolved_interaction`, which looks
for a resume receipt, calls the workflow, and saves the receipt; the workflow
changes the plan and creates the next interaction; the handler completes the
command receipt. Events and cards are published on the way. Scan and job workers
share nothing with this but the database file.

`PROJECT.json` lists the hazards of this code, each at its line, with the
properties that would catch it, and the components with their status.

## 2. Modules

| Module | Models | Source |
|---|---|---|
| `OneShot` | The abstract promise: an item is open until it gets one outcome, which is final. | the life cycles below |
| `HitlRow` | One interaction row and the conditional UPDATEs on it. | `adapters/sqlite/hitl.py` |
| `Hitl` (EXTENDS `HitlRow`) | Callers and sweepers running respond, cancel, expire_due statement by statement, and a clock. | `core/hitl/service.py`, `adapters/sqlite/hitl.py` |
| `HitlProofs` | Theorems about `Hitl`. | |
| `Leases` | A leased row: claim, renew, end; clocks that are stale. | both job stores |
| `ScanJobs` (EXTENDS `Leases`) | The scan store with its workers and progress readers. | `adapters/sqlite/scan_jobs.py` |
| `Jobs` (EXTENDS `Leases`) | The job store with its workers. | `SQLiteJobStore` |
| `LeasesProofs` | Facts about leased rows that both stores' theorems rest on. | |
| `ScanJobsProofs`, `JobsProofs` (EXTEND `LeasesProofs`) | Theorems about `ScanJobs` and `Jobs`. | |
| `ApprovalFlow` | The composition: handler, command receipts, interactions, announcements, resume receipts, planning workflow and service for one conversation. | `apps/api`, `apps/conversation_runtime.py`, `apps/workflows/planning.py`, `apps/workflows/runtime.py`, `capabilities/planning` |
| `ApprovalFlowProofs` | Theorems about `ApprovalFlow`, with crashes and a second writer, and those for a conversation that is the only writer of drafts. | |
| `EventLog` | Handlers that publish: interaction, card, event, each in a transaction of its own. | `apps/workflows/runtime.py`, `SQLiteAggregateRepository`, `SQLiteEventStore` |
| `ChatClient` (EXTENDS `EventLog`) | The page of the web client over the event stream and the snapshot endpoint. | `web/src/features/chat`, `apps/api` |
| `ChatClientProofs` | Theorems about `ChatClient` and `EventLog`. | |
| `ResearchToPlan` | One run of the research conversation: its questions, its handlers as lists of steps, agents, failures, crashes. | `apps/workflows/research_to_plan.py`, `apps/conversation_runtime.py`, `agents/supervisor` |
| `ResearchProofs` | Theorems about `ResearchToPlan`. | |
| `Plans` | The planning service: versions, reviews, receipts, commands that arrive late or again. | `capabilities/planning` |
| `Reminders` | Rules and the worker that watches them, from await to await. | `capabilities/reminder` |
| `Watchlists` | Imports, groups, suggestions, frozen universes. | `capabilities/watchlist` |
| `Strategies` | The publisher of strategy versions. | `capabilities/strategy/domain/lifecycle.py` |
| `Scans` (EXTENDS `Strategies`) | Model registry, release gate, submission, evaluation, monitoring. | `capabilities/quantitative` |
| `ModelCalls` | Calls of one model route: semaphore, budget, endpoints, repairs. | `adapters/llm/litellm/client.py`, `core/llm` |
| `NodeRuns` | A node of a graph under one idempotency key, retried and replayed. | `core/runtime/execution.py`, `SQLiteCommandStore` |
| `ToolCalls` | Calls through the tool gateway, and the receipts behind it. | `core/tools`, `capabilities/*/tools` |
| `MarketEvidence` | Evidence, its assessment, and artifacts made from it. | `capabilities/market_research` |
| `Capabilities` | `Plans` to `MarketEvidence` side by side. | `capabilities`, `adapters/llm`, `core` |
| `CapabilitiesProofs` | Theorems about each of them, in a section of its own, and about `Capabilities`. | |
| `MCHitl`, `MCScanJobs`, `MCJobs`, `MCApprovalFlow`, `MCChatClient`, `MCResearch`, `MCCapabilities` | Model values and symmetry for TLC. | |

Correspondence.

* **Hitl.** `row` is the table. A caller's `call` is the program counter and the
  arguments of the call it is in; `Select`, `Store`, `Expire`, `CancelUpdate`,
  `Reread` are the statements of `resolve` and `transition` in their order.
  pysqlite opens a database transaction at the first UPDATE, not at the SELECT,
  and the write lock of `SQLiteDatabase` is a lock of one process, so statements
  of two processes interleave; `SQLiteDatabase` inside one process allows fewer
  interleavings, never others. The clock (`call[c].clock`) is read before the
  lock, hence before `Select`. `told` and `reply` record what callers are told.
* **ScanJobs, Jobs.** Leases are counted in ticks left; a clock reading that is
  `d` ticks old compares and grants leases `d` ticks off (`Lags`). An operation is
  one step where its UPDATE repeats the conditions of its SELECT, and two steps
  where it does not: `ReleaseRead` and `ReleaseWrite`, and a `claim` that reaps, whose
  SELECT names scans (`ReapRead`) that are then refreshed whatever its UPDATE finds
  (`ReapWrite`). `OneProcess` says whether the write lock is shared: under it nothing
  but time, a reader of the progress or a crash comes between the two. `held` is what the worker believes it owns; `Forget` is
  the worker's crash or its going on to other work.
* **ApprovalFlow.** `ask`, `receipt`, `resumed` are tables and survive `Crash`;
  `plan` and `req` are memory and do not. A request is a sequence of the steps
  decide, resume, publish and append (of the decided card), read, write, offer,
  publish and append (of the next card), save, complete; each is one transaction or
  one critical section of the code. `Decide` is atomic here because `Hitl` shows it
  is (theorem `Implementation`). The body of a request does not name its interaction:
  its digest is all a receipt is bound to (`Body`, `SameBody`), and a form may be
  named by a payload hash that all forms share (`Names`). `Offer` makes the next
  interaction answerable; what announces it comes after. `log` is what has been
  announced: `Publish` counts it and `AppendEvent` needs the same count, else the
  handler ends in an exception (`AppendRefused`). This is the protocol of `EventLog`
  seen by one conversation. `effects`, `activations`, `answers` are history
  variables: what happened because of each interaction, and what clients got.
* **EventLog.** `version` is what an interaction is (1 created, 2 decided), decided
  by `Hitl`; a handler that changed it publishes it, in `task`: read the card's
  version, save, count the events, append. Each is a transaction; the SELECT and
  the INSERT of the last two stores are one step because the tables have a unique
  index on (aggregate, version) and on (run, sequence). `Stop` is a failure or a
  crash at any of them. Events that carry no card only shift the numbers and are
  left out.
* **ChatClient.** `view`, `seen`, `cursor`, `active` are the page's snapshot,
  `lastSequenceByRun`, cursor and active run; `cursor` and `active` are in
  sessionStorage and survive `Reload`. `stream` is the `ReconnectingEventStream`
  with the cursor it keeps; the server replays what is stored when it is opened
  (`upto`) and ends, so every connection ends in `Disconnect`. `fetch` is a
  recovery under way; the server reads the events first and the rest later, so it
  is two steps. The page does what the code does in the two known cases in which the
  cursor passes events it does not show (see Findings); `gap`, and `late` of a
  recovery under way, are history variables that record it: "joined", a run joined
  with the cursor of another, and "overtaken", an event overwritten by a snapshot
  that had been read before it. No action looks at them.

* **ResearchToPlan.** `questions` are the run's interactions, `handlers[i]` what is
  left of the handler that answer `i` started (0: the message that started the
  run). A handler is the list of backend calls, publications, writes and questions
  of its method, in their order, the save of a recorded review among them (as a
  publication); a next question may be answered before its card is published, so
  handlers overlap. `Raises` ends a handler at any step, and nothing
  runs the rest; `AgentMoves` are the planning tools. What a request does around
  its handler is `ApprovalFlow`, how publications collide is `EventLog`: here a
  publication either happens or raises.
* **Plans.** Callers build a command from the plan as they read it (`planSent`); it
  may arrive any time, and again. The service is one critical section per command.
  A plan name stands for an (owner, plan id) pair. `entitled` is the permission
  check, and an approval's hash is the pair it is computed from. `PlansRestart` loses
  plans and receipts (they are in memory), not the commands on their way.
* **Reminders.** A step is what happens between two awaits of `run_once`:
  `StartRun` lists the active rules, `AwaitObservation` hands one to the provider,
  `Observe` is everything from its answer to the next await. The rule is the one
  that was listed. `RunDies` is a crash or an exception; `lost` remembers which
  trigger it left pending.
* **Watchlists.** `classified` is what callers hold between `classify_import` and
  `approve_import`. A member is the set of what imports said of it (sources, tags
  and notes are merged in the same way).
* **Strategies, Scans.** A scan freezes a strategy version, inputs and a model;
  evaluation asks the registry for the production model again. `ScansRestart` loses
  the registry and the strategies, not the submissions, which are jobs.
* **ModelCalls.** A step is what happens from one await to the next; the semaphore,
  the budget and the endpoints of one route.
* **NodeRuns.** `BeginCommand`, `Operate`, `CompleteCommand` are the two store
  transactions and the awaited operation between them; `AttemptEnds` is an
  exception or the timeout, before or after the effect; `ReplayNode` a crash.
* **ToolCalls.** The checks before the tool contain no await and are one step;
  then the service's effect, a failure or timeout before or after it, and the check
  of the output. A service is its ledger of receipts per owner and key, which refuses
  other content under a known key; the ledger of the reminders has no owners and
  returns what was saved first, whatever is asked (`LedgerKey`, `Repeats`), and
  `set_status` may find the status it asks for and write nothing.
* **MarketEvidence.** One caller, who collects, assesses and assembles; values of
  one fact are numbers, ages are compared with thresholds. What was collected is a
  sequence, and an assessment speaks of positions in it: the first complete item of
  a fact is the baseline (`InConflict`), the others are compared with it (`Differ`).
* **Capabilities.** The services share no state, so the model is their sum and not
  their product: the first state chooses one, and the others stand still. For the
  properties, each about one service, this loses nothing: they are proved of the
  service alone. In `MCCapabilities` it also lets one set of model values stand for
  the keys of several services.

## 3. Runs

Every run finishes without an error unless it is marked *violation*, in which
case TLC finds the counterexample it is there for.

| Run | Question | Bounds |
|---|---|---|
| `MCHitl` | Two clients and a sweeper race for one interaction: one decision, on time, final, told truthfully; refinement of `OneShot`. | 1 interaction, 2 callers, 1 sweeper, 2 payloads, 2 accepted answers and a bad one, 3 instants; 410k states |
| `MCScanJobs` | Do scan and units agree; are outcomes final, attempts bounded; is a report made of two snapshots consistent; are the counters exact and live leases respected; does every scan end? | one process; 1 scan of 2 securities, 2 workers, 1 reader, 2 results, 2 attempts, clock lag 1; liveness, no symmetry; 32k states |
| `MCScanJobsCancel` | *violation* of `CancelSticks`: see finding 1 | API and worker in two processes |
| `MCJobs` | Job store: outcomes are final whatever arrives late, and retries go on | 2 jobs, 2 workers in processes of their own |
| `MCApprovalFlow` | Does an answer act at most once, does only an answer act, do repeated requests agree, whatever crashes or is refused? | 3 interactions, 3 keys, 2 handlers, 4 plan versions, crashes, a second writer, blank fields |
| `MCApprovalChain` | Is one interaction open at a time, is the open approval about the current draft, is the approved draft activated; does every accepted answer move the conversation on, if clients answer announced cards? | 4 interactions, 2 keys, 2 handlers, no crash, the workflow as only writer; liveness, no symmetry; 50k states |
| `MCApprovalEarly` | *violation* of `AnswersResume`: finding 3 | 2 interactions, 2 keys, 2 handlers, no crash |
| `MCApprovalStale` | *violation* of `ApprovedIsActivated`: finding 2 | 2 interactions, 2 keys |
| `MCChatClient` | Are events numbered without gaps, are announced cards saved, does the cursor get ahead of the page in the recorded ways only, does an announced card get shown? | 2 runs, one of them without cards, 1 card, 2 publishers; liveness, no symmetry; 129k states |
| `MCChatNewRun` | *violation* of `JoinsWhole`: finding 4 | 2 runs with a card each, 1 publisher |
| `MCResearch` | Does a run ever fork, is what an answer did what was asked, are people asked only about what is stored? | 6 questions (every kind, with one edit), 5 plan versions, agents and crashes at every step; 283k states |
| `MCCapabilities` | What each service promises, in its own words below | 554k states, symmetry over keys and over callers; see below |

The properties of `MCCapabilities`:

| Property | Service | What it says | Bounds |
|---|---|---|---|
| `OneCommandPerVersion` | Plans | every version was made by exactly one command, and its receipt says so | 1 plan, 3 keys, 4 commands, 3 contents, a restart |
| `ActivatedAsApproved` | Plans | an active plan has the very content that was approved, also when a restart used its version number again | same |
| `ReviewsAgree` | Plans | a plan's review is of its last version, and the only one | 2 reviews |
| `AlertsSpaced` | Reminders | alerts of a rule are a cooldown apart, a scheduled review fires once, however runs overlap and observations come late | 1 rule, 3 versions, 2 runs, 3 instants |
| `OneRunPerTrigger` | Reminders | one run delivers a trigger; it is pending as long as that run works on it, or for good if the run died | budget of 2 |
| `MembersAreImports` | Watchlists | members are what the approved imports said, in any order | 2 securities, 2 imports of 2 rows, 2 sources, 1 group |
| `RunsAgree` | Scans | evaluations of one scan agree, except where one could not evaluate | 2 models, 2 securities, 6 kinds of inputs, 2 evaluations |
| `BudgetHeld` | Models | what is spent passes the budget by less than one answer per admitted call | 3 calls, 2 admitted, 2 endpoints, a repair |
| `SameResult` | Nodes | everyone gets the stored result | 2 replays, 2 attempts, 4 effects |
| `WritesAuthorised` | Tools | a write is by an allowed agent, for the bound owner, approved where it must be, with a key, and made once; success means that it was made (a reminder: the first one under the key) | 22 requests, 2 owners, 2 callers, 3 effects |
| `ClaimsSupported` | Evidence | no claim without trusted, timely evidence that does not conflict; what was rejected is a gap | 8 answers of providers, 3 collected, 2 claims |
| `CapabilitiesTypeOK` | all | the state of each service keeps its shape; with `Reminders`, delivery attempts keep the budget | |

Why the bounds suffice. A decision needs at most one winner and one loser of each
kind, so two callers and a sweeper over one row show every race for it; a second
row matters only to a sweep, which has a list. A lease can be lost to one other
worker; two attempts give a first, a last and an exhausted one; two units of a
scan show the order of claims and a counter between its ends; scans share nothing
but the claim that picks among their units. A conversation of four interactions is request form,
approval, edit form, approval: the whole cycle once, without crashes (with crashes the
two invariants checked there are theorems); three, with a second writer and crashes, are
two forms and the approval between them. A third edit repeats the states of the second.
Three keys are a click, its competitor and the next click; two are a click and its
competitor, which is every race for one interaction.
Two handlers show every race for a decision and for a number in the log. A card has two
revisions, so two publishers of one card show every race for a version and for a
number, and announce them in either order.
A cooldown of two instants has its boundary within three. Four commands draft, revise, activate
and review a plan, and three of them meet one that is late. Two evaluations of a scan, two
replays, two worker runs and two tool callers show one before and one after a change.
Bounds that the code does not have are named where they are used (`MaxTime`,
`MaxSubject`, `MaxLag`, `MaxBorn`, `MaxVersion`, `PlanMaxSent`, `MaxClock`, ...), each
commented as a bound at its declaration.

Deadlock is checked except for the job and scan stores, where all work may be done,
and for `MCResearch` and `MCCapabilities`, where a conversation ends and a service has
used its bounds.

### Fairness

* `Hitl`: a call that has begun runs on (straight-line code); the clock ticks; a
  deployed sweeper calls `expire_due` again. Nobody has to answer. No listed run
  needs it: the repository has no caller of `expire_due` yet. `DueDecided` says what
  holds once one is deployed, and holds for 2 interactions, 1 caller, 2 sweepers.
* `ScanJobs`, `Jobs`: some worker polls `claim` (weak fairness of the union, not
  of each worker); a worker does not hold a unit for ever, it finishes it, gives
  it back or crashes; time passes; in `ScanJobs`, of claims that begin to reap again
  and again not every one is cut off before it has reaped (strong fairness of
  `ReapWrite`). Since the worker loop is not written, this is what the stores ask of
  it, not what existing code guarantees.
* `ApprovalFlow`: a handler runs to its end, or raises, unless a crash cuts it off.
  No click is forced. `MCApprovalEarly` assumes in addition that
  a client repeats a request it got no result for, with the same key, as the API
  invites it to; the web client takes a new key for every click. The violation is
  the stronger for it. `ResolvedResumes` supposes that clients answer a card when it
  has been announced (`AnswersWait`), which the web client does that shows cards of
  the stream, and not one that lists the open interactions; without it `AnswersResume`
  is refuted (finding 3).
* `ChatClient`: a page that waits for its next connection opens it, a connection
  ends, and of connections opened again and again not every one breaks before its
  first event. `EventShown` asks besides that the user does not refresh for ever and that the
  page is in the end left without a gap.
  Nothing is assumed of publishers: any of them may stop anywhere.

### Findings

1. `release_or_fail` (`scan_jobs.py:389`) writes by unit id only: a cancel from the
   API process between its SELECT and UPDATE is undone.
2. Confirming an approval activates the plan as it is *now*; the version and hash
   the user approved are not compared, so with a second writer (the registered
   `planning.create_draft` tool) an unseen draft becomes active. Today no
   component calls that tool, so this is a gap in the check, not an observed run.
3. A card that is answered before its publisher has announced it (`runtime.py:286`):
   the handler of the answer and the publisher both count the events of the run and
   then append, one of them is refused and raises after its interaction was decided.
   Its resume receipt is not saved, every retry is answered 409, and the workflow
   stays where it was, without any crash.
4. The web client keeps one cursor, a bare sequence number, for whatever run is
   active: after a second message the events of the new run are asked for from the
   last number of the old run, and its first events are not shown until a reload.

Stated by a property of a module, refuted by TLC, and not a run of its own:

* `ResolvedResumes` (`ApprovalFlow`) with `Crashes`, already for 2 interactions, 1 key
  and 1 handler, and with requests that are repeated (`RetrySpec`): a crash between
  resolving an interaction and saving its resume receipt (`conversation_runtime.py:203`)
  has the outcome of finding 3.
* `OneResultPerKey` (`ApprovalFlow`), for 4 interactions, 2 keys and 2 handlers: the
  digest that binds an idempotency key (`apps/api/__init__.py:217`) leaves out the
  interaction, which is in the path. One key with one body for two forms is carried
  out twice and told two results, where `agent-workflow-runtime/spec.md:112-113` has
  a repeated key return what was committed. The web client's keys hold the
  interaction's id, and then repeated requests agree (`RepliesAgree`).
* `JobEnds` (`Jobs`): the job store has no reaper, and claims only jobs with an
  attempt left, so a job whose worker dies in its last attempt stays `running`.
* `EffectOnce` (`NodeRuns`): a receipt that is still pending does not stop the
  operation, so an effect is repeated by a crash, a timeout or a second replay
  before `complete` (`execution.py:192`), while task 9.9 of
  `src/openspec/changes/create-langgraph-trading-agent/tasks.md:94` asks that a replay
  repeat no side effect. Its callers are tests so far; an operation that takes the
  same key to its own service is safe.

With a constant of the model switched on: a form field of blanks passes
the response schema and the workflow refuses it after the interaction was resolved,
with the same outcome as 3 (`BlankForms`).

Recorded by a history variable: an event that arrives while a snapshot is under way is
overwritten by it, while the cursor has moved past it (`gap = "overtaken"`). The page
lacks the event until the next snapshot; `NothingSkipped` says that this, and finding 4,
are the only ways the cursor gets ahead of the page.

Seen by the way, and part of the models:

* `resolve` answers "expired" for a row that is already resolved when its deadline has
  passed by then (the deadline is tested first).
* A failed resume handler of the research conversation is not run again, so a run may
  end with no question open; `NeverForks` says it never has two. `activate_reminder`
  does not look at the plan's status, so a reminder may be set for a plan that an
  agent has cancelled. `start_run` ignores the policy decision of the supervisor.
* `TransitionPlanTool` admits `reviewed` as a target: a plan may be reviewed without
  a review.
* A rule disabled while its observation is awaited may still trigger. A trigger whose
  run dies before its delivery is known and stays pending for ever. A rule whose
  observation has the wrong type ends the run for all later rules.
* `create_group` replaces an existing group by an empty one.
* Approving a second model for a task leaves the task without a production model.
* An answer that takes a route over its budget is paid for and dropped; streams and
  cancelled calls are not charged.
* The gateway's contract (`core/tools/contracts.py`) says every exception becomes a
  `ToolResult`; a `PermissionError` and a plain `LookupError` of a tool pass through.
* Values of a fact are compared with the first one only, so the verdict depends on the
  order of collection and accepted values may lie twice `absolute_tolerance` apart,
  which its docstring calls the allowed absolute error.

## 4. Proofs

Every invariant and every safety property that a passing run checks is also a
theorem, checked by TLAPS for every value of the constants under the named
assumptions of the modules (`RowAssumption`, `HitlAssumption`, `LeasesAssumption`,
`ScanJobsAssumption`, `JobsAssumption`, `FlowAssumption`, `EventLogAssumption`,
`ResearchAssumption`, `PlansAssumption`, `RemindersAssumption`,
`WatchlistsAssumption`, `StrategiesAssumption`, `ScansAssumption`,
`ModelCallsAssumption`, `NodeRunsAssumption`, `ToolCallsAssumption`,
`MarketEvidenceAssumption`): model values are what they seem, bounds are natural
numbers, a lease and a budget are positive, ids of scans and units differ, a scan has
finitely many securities, ids of evidence are unique. TLC evaluates each of them.

* **Hitl**: type correctness, `OneDecision`, `DecidedOnTime`, `AnswerIffResolved`,
  `ExpiredReplyDecides`, `DecisionFinal`, and that `Hitl` implements `OneShot`.
  None is inductive. `IInv` adds what every call knows between its steps
  (`CallInv`: a call about to store has seen, by its own clock, a deadline that
  had not passed; a call that has committed finds its decision unchanged), who
  may still tell a decision (`ToldInv`), and that what a sweep lists was due by
  its clock (`SweepInv`). The steps are proved over two general lemmas: a step
  that only moves a call, and a step that decides one open row. The step from a
  decided row to a decided row (`RowSteps`) gives both action properties.
* **ScanJobs** (`ScanJobsProofs`): in two parts, because the store keeps two kinds of
  promises. `BaseInv` (types, leases of running units, `CountersExact`) and
  `NoEarlySteal` hold for any number of processes: a transaction that ends a unit or
  starts one counts the units of its scan anew, in the same transaction, and counting
  is what the proof is about (a count changes only by units that enter or leave an end).
  `JobAgrees`, `AttemptsBounded`, `ReportConsistent`, `CancelSticks` and the refinement
  of `OneShot` are proved under `OneProcess`: `LockedInv` says that while a transaction
  is between its two statements nobody else is in one, and what its SELECT has seen is
  still so: the unit it releases runs with the same attempts, or the scans it is to reap
  in have a unit that runs (`LockInv`); and that an end a progress reader has seen is
  still there when it counts (`SeenInv`). The hypothesis is needed: the run
  `MCScanJobsCancel` is the counterexample to `CancelSticks` without it (finding 1).
* **Jobs**: type correctness, `LeaseIffRunning`, `AttemptsBounded`,
  `NoEarlySteal`, and that `Jobs` implements `OneShot`. The budget is the
  interesting one: whether `release` requeues or fails was decided by its SELECT.
  `ReleaseInv` says that as long as the worker still owns the job, nobody has
  counted another attempt; the UPDATE asks for the owner, hence `AttemptsBounded`.
  Dropping that conjunct from the UPDATE is the mutant of `ImplementsOneShot`.
* **ApprovalFlow** (`ApprovalFlowProofs`): type correctness, `ResumedOnce`,
  `OnlyAnswersAct`, `RepliesAgree`, with any number of handlers and keys, crashes
  at every step, refused publications and a second writer of drafts. The
  compare-and-set of the decision lets one request past it per interaction, ever. So a
  request past it is alone with its interaction (`Alone`) and the interaction has not
  acted before the request acts (`ReqInv`). A repeated command is refused at the
  decision, which is why a crash or a refusal can lose the effect (finding 3) and
  never repeat it. A receipt is bound to a body, which two interactions may share: what
  the invariant says of it is that a receipt completed while a request is past its
  decision was answered for *another* interaction (`Holds`), so that a key whose
  answers are all about one interaction has the one result of its receipt
  (`ReceiptInv`). `RepliesAgree` says just that; without its premise it is `OneResultPerKey`, which
  does not hold (section 3).
  From the same invariant, the interactions, the command receipts and the resume
  receipts each implement `OneShot` (`Implementation`): every action leaves a decided
  row as it is (`RowsGrow`) and writes neither a completed receipt nor a saved card
  again (`ReceiptsKept`). No run checks this refinement: it is a theorem only.
* **ApprovalFlow**, as the only writer: under the hypothesis `~AgentDrafts`,
  `ApprovalCurrent` and `ApprovedIsActivated`. A conversation has one turn: an
  interaction is open or one request is between its decision and the next
  interaction (`TurnInv`), and who has the turn is about the draft as it is
  (`DraftInv`), unless a restart lost the plan. The hypothesis is needed:
  finding 2 is the counterexample without it.
* **ChatClient** (`ChatClientProofs`): type correctness, `LogGapless` and
  `AnnouncedSaved` and `NothingSkipped`, all for any constants and without a
  hypothesis on the client. For the log the invariant adds what a publisher knows that has saved
  its card (`TaskOK`). For the page: what is shown, and what is on its way from a
  snapshot, covers the events of the active run up to the cursor (`PageInv`), the
  stream asks for nothing later than what follows the cursor (`CursorInv`), and
  since numbers have no gaps a new event lies beyond it (`OldEvents`). That holds as
  long as `gap`, and `late` of the snapshot on its way, say "none"; a snapshot that had
  read as far as the cursor brings the page back to it, and the proof is that nothing
  else is needed.

* **NodeRuns** (this service and the following ones: `CapabilitiesProofs`): type
  correctness and `SameResult`. The invariant says what a replay holds between its steps
  (`Held`): once it has operated, the number of an effect that happened; and that a
  command, once completed, is not written over, which is what lets two results for one
  receipt agree.
* **Plans**: type correctness, `OneCommandPerVersion`,
  `ActivatedAsApproved`, `ReviewsAgree`, for any number of commands on their way and
  any restarts. The invariant: version numbers count the versions (`Numbered`), for
  each of them there is exactly one receipt (`MadeOnce`), and no receipt is of a
  version that is not there (`NotAhead`), without which the next version could find
  a receipt waiting for it. `ActivatedAsApproved` needs none of it: a version is never
  changed, and only an approval of just its content makes an active one.
* **Reminders**: `AlertsSpaced` and `OneRunPerTrigger`. A run holds rules as it listed
  them: the invariant says that each is still a rule of the same id and type (`Known`),
  and that a trigger has one holder (`OneHolder`) and is pending exactly while it is held
  or lost (`PendingHeld`). The distance of two alerts comes from the test against every
  recorded trigger of that version, made in the step that records the next one; the
  proof shows that no await lies between them, however old the observation is.
* **Watchlists**: `MembersAreImports` is inductive with the types: an approval adds to
  each security just what its import says, and a duplicate within or across imports
  adds to the set of what is known and takes nothing away.
* **Scans**: `RunsAgree`. Evaluation asks the registry again, so its inputs are not the
  frozen ones. `Reproducible` says what the registry can change: an evaluation is what
  the frozen model gives (`Reproduced`) or the one in which nothing could be predicted
  (`Unserved`), both functions of the submission alone.
* **ModelCalls**: `BudgetHeld`. `Covered` charges every call that may still be charged
  with the most an answer costs: the sum stays below the budget plus one such cost for
  each place of the semaphore, because a call is let through only while the route is
  below its budget, and takes a place (`SemaphoreHeld`).
* **ToolCalls**: `WritesAuthorised`. A call past the checks was granted (`CallOK`); an
  effect is of a granted request in a name it is bound to (`EffectOK`); keyed effects
  and receipts correspond one to one (`ReceiptsKept`, `ReceiptsEarned`,
  `OneEffectPerKey`), so a repeated call finds the receipt of its own effect, or, of a
  reminder, that of the first one under its key; a call that was handled or told of
  success has that effect (`Performed`), a `set_status` need not have any. What is
  needed of the nineteen manifests is one lemma (`RegistryFacts`).
* **MarketEvidence**: `ClaimsSupported`. What an assessment says of any sequence of
  collected items is lemma `AssessmentVouches`: of the complete items of a fact there
  is a first one (`LeastNumber`), the others are within the tolerance of it, hence
  within twice the tolerance of each other (`Triangle`) and no closer bound holds.
* **Capabilities**: a run of the services side by side is a run of each
  (`EachServiceRuns`), hence `CapabilitiesTypeOK`.
* **ResearchToPlan** (`ResearchProofs`): `NeverForks`, `ActsAsAsked` and
  `ResearchBeforeReview`, for any number of questions. A handler asks at most once,
  and writes nothing after it has asked (`Asking`, a lemma about each handler, proved
  over the concatenations it is built from). So the handler that answers the one open question is the only one
  that acts (`OneAtATime`), until it asks in its turn. For the other two, `ActInv`: what
  a step or a question presupposes is done and stored, by an earlier answer or by a
  step before it (`Backed`, `Founded`); a handler has one effect, the one its question
  is for, and has none left once it had it (`Working`, `Just`). Lemma `Handling` says
  so of each handler; the order of a draft, its activation, a reminder and a review
  over several answers follows from the chain of questions.

Only model-checked: liveness (`ScanEnds`, `RetriesGoOn`, `ResolvedResumes`,
`EventShown`), which is beyond the prover. `CancelSticks` and `ApprovedIsActivated`
are theorems under hypotheses only, without which TLC refutes them. No proof is an induction over data; where a first element of a
sequence matters, it is a least element of a set of positions.

## 5. Abstractions, and what is not modelled

* Owners: all queries are scoped by owner and a foreign row is answered like a
  missing one; the models show one owner's rows.
* Payloads, answers and results are model values; a hash is the value it hashes.
* Texts, card layout, tracing and logging are left out.
* `ApprovalFlow` keeps of a publication who is refused and what is announced; the
  revisions, numbers and contents of cards and events are in `EventLog`. The request
  form's own announcement, by the handler of the message that started the run, is one
  step (`AnnounceFirst`).
* Chat messages, which the page merges by id, and the optimistic message.
* `planning.create_draft` in `ApprovalFlow` is `AgentRevise`, off unless
  `AgentDrafts`.
* `entitled` in `Plans` stands for approval, actor and interaction id together; the
  gateway's own checks of them are in `ToolCalls`. Blank keys and ids, which handlers
  refuse at once, are left out.
* `planning.create_draft` and the transition tool in `ResearchToPlan` are `AgentMoves`.
* The graph of the supervisor is its outcome; the model that classifies is external.
* A hash, a factor value, a probability or a price is a small number or the thing it
  is computed from; a strategy's rule is whether it is complete. Datasets, training,
  calibration and inference are numeric and left out.
* Evidence ids are assumed unique; a ledger of `ToolCalls` is per service, owner and key.
* Not modelled: presentation contracts and cards (layout and validation without
  protocol state), settings and command line (parsing), token validation (an external
  issuer), migrations and backup (single offline commands), the worker's loop (not
  written), market providers and models (external).

## 6. Plan

What a further step would take, in order:

1. `Plans` composed with `ResearchToPlan` and `ApprovalFlow` over one plan.
2. The worker's loop and the caller of `expire_due`, once they are written: the fairness
   assumed of them becomes theirs to keep.
3. Datasets and the release gate of training against a reference definition.
