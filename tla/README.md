# TravelPlanAgent: TLA+ models and proofs

TravelPlanAgent plans trips with language and map tools. A run turns a request into
candidate itineraries; a *plan session* then lives on for days while its user selects a
candidate, locks parts of it, edits it and answers previews, and while the weather
changes under it. This directory holds TLA+ models of the parts of the program that keep
state between steps, the TLC configurations that check them on small instances, and
TLAPS proofs of their most important properties for every instance.

File names below are relative to `src/src/travel_agent/`, the Python package, unless they
start with `docs/` or `tests/`. `PROJECT.json` is the index: it maps every definition to the
lines it models, and lists runs, properties, mutants, findings, hazards and theorems.

- [1. The system](#1-the-system)
- [2. Modules](#2-modules)
- [3. What the runs check](#3-what-the-runs-check)
- [4. What is proved](#4-what-is-proved)
- [5. Disagreements between documents and code](#5-disagreements-between-documents-and-code)
- [6. What is not modelled](#6-what-is-not-modelled)
- [7. Plan](#7-plan)

## 1. The system

### Components

| Component | State | Operations | Talks to |
| --- | --- | --- | --- |
| **Plan lifecycle** (`lifecycle/service.py`, `lifecycle/workflow.py`) | graph checkpoint per session; graph state of a resume; a lock per session and process | start, resume with an action (select, lock, unlock, edit, clarify, approve, reject, refresh, dismiss), diff | plan repository, weather, edit gateway, local replanner |
| **Plan repository** (`lifecycle/repository.py`, `infrastructure/postgres.py`) | one `PlanSessionRecord` per session with `session_revision` | create, get, save (compare-and-swap on the revision) | lifecycle |
| **Weather** (`weather/`) | snapshot and event stores, forecast cache | fetch, derive a change event, deduplicate, assess, propose a repair | lifecycle |
| **Runs** (`execution/coordinator.py`, `application/service.py`, `infrastructure/queue.py`, `worker.py`) | run records and trace events; local tasks; Redis list and job keys | start, execute, cancel, close; replay of a command by `request_id` | run store, queue, planning graph, lifecycle |
| **Event streams** (`api/async_runs.py`) | cursor of each SSE stream | read page, read status, disconnect, resume with `Last-Event-ID` | run store |
| **Budget and trace** (`execution/budget.py`, `context.py`, `tracing.py`, `instrumentation.py`, `checkpoints.py`) | meters, deadline, fingerprint counter; event list | consume, record, wrap a node, wrap a checkpoint write | every component of a run |
| **Planning graph** (`graph/workflow.py`, `planning/`) | graph state of one run | parse, route search, optimise, validate, repair, criticise, explain | tools, models, critic |
| **Requirement intake** (`requirements/`) | checkpoint of the intake graph | parse, validate, ask, resume with an answer | model gateway, lifecycle |
| **Tool gateway** (`tools/gateway.py`, `cache.py`, `retry.py`) | TTL cache with single flight, semaphore | routes, places, with retry and timeout | providers, budget, trace |
| **Provider chain** (`tools/providers/chain.py`) | circuit of each provider | call, fail over, open and close the circuit | providers |
| **Model gateways** (`requirements/gateway.py`, `edits/gateway.py`, `critique/gateway.py`) | none of their own | call a model, validate and repair its output | budget, trace |
| **Preference memory** (`memory/`, `infrastructure/postgres.py`) | proposals, memories, personalization switch, each with a revision | propose, confirm, reject, edit, revoke, delete, switch | planning context |
| **Specialist agents** (`agents/`) | none; counts handoffs in the trace | hand an operation over | trace |
| **HTTP API, MCP server** (`api/`, `mcp_server/`) | none | decode, authorise, call the services | all services |
| **Assembly** (`runtime.py`, `config.py`), **evaluation**, **fault injection**, **web client** | settings | wiring, offline scoring, tests, display | |

### How they interact

- *Calls*: the API calls `TravelPlanService` and `PlanLifecycleService`; these run LangGraph
  graphs whose nodes call gateways. Every command and every planning run goes through
  `RunCoordinator.execute`, which installs a budget and a trace in a context variable.
- *Shared state*: the plan repository (between API processes), the run store (between
  API, workers and streams), Redis (API and workers), the tool cache (all runs of a
  process), the ledger and trace of one run (its event loop, its executor threads, its
  gathered calls and the background checkpoint writes).
- *Callbacks*: `instrument_node` and `ObservedCheckpointSaver` wrap the graph's nodes and
  its saver; what they raise takes the place of what the node or saver returned.

### What is hard, and what makes a component correct

*Plan lifecycle.* A resume is a chain of nodes. Each reads the record, decides, and saves
with compare-and-swap; another process may save in between; a node may raise; the process
may stop between the save and the checkpoint. Correct means: nobody overwrites what he has
not read; versions form one line and every one after the first was approved once; a lock
holds whatever the order of locks, edits, approvals and repairs; a decision on a preview is
final; a request takes effect once; a weather event leads to one preview and its receipt
tells its fate; every resume ends.

*Runs.* A run passes from the start call to the queue, to a worker, and perhaps to a cancel
call, each in a process that may stop; the final write of the store is unconditional.
Correct means: a run has one owner at a time and ends once; trace and final status appear
together; no run is left running; a stream ends, and loses nothing.

*Budget and trace.* Concurrent calls draw on one budget; calls that were gathered go on
after a sibling has failed and the run has been stored; two threads append to a list without
a lock; part of the trace and part of the steps is reserved for the end. Correct means: no
meter passes its limit; nothing is sent that was not paid for; usage and trace agree; the end
is always recorded; a graph that loops is stopped.

*Planning graph.* Validation, repair and critic loops share a step budget. Nodes replace lists
of plans, drafts, critiques and scores one by one and find their entries by id; a soft repair
empties the list that holds the legal plans. Correct means: every lookup succeeds, a legal plan
once found is delivered, the best one first, scores shown are grounded, no repair is made
twice, and the limits leave room for the paths that the edges allow.

*Requirement intake.* Two stores are written one after the other, the intake checkpoint
first; an answer whose call failed is sent again. Correct means: an answer changes only what
was asked, is counted once, and every round is offered; candidates come from a completed plan;
what the validation rules accept can be made a trip.

*Tool gateway and chain.* Joiners of a single flight share its failure; callers are cancelled
while the load they wait for goes on; a circuit is read at the start of a call and written at
its end. Correct means: at most one loader per key, no permit is lost, no answer is stale, no
circuit opens without a reason, every call ends.

*Preference memory.* Every repository call on PostgreSQL is a step of its own. Correct means:
no change that names the revision its caller read is lost or undone by another process (a
guessed revision may undo one, section 5), a proposal leaves one memory, a revoked or deleted
memory stays so under the same condition, and what the request of a trip says wins over what is remembered.

## 2. Modules

| Module | Models | EXTENDS / instances |
| --- | --- | --- |
| `PlanData` | plans, fingerprints, locks, conflicts and locality as operators (`lifecycle/fingerprints.py`, `lifecycle/impact.py`, `lifecycle/workflow.py`) | |
| `PlanHistory` | abstract: a linear history of plans and a set of held targets | `PlanData` |
| `PlanLifecycle` | repository, lifecycle graph and its processes, weather refresh | `PlanData`, instance `History` of `PlanHistory` |
| `AsyncRuns` | run store, coordinator, queue, workers, cancellation, streams | |
| `ExecutionLedger` | budget, trace, instrumented nodes, calls, checkpoint writes of one run | |
| `PlanningWorkflow` | the planning graph of one run: its nodes, routes, repairs, critic, and the limits that end it | |
| `TripRequirement` | the fields of a trip, the rules that check, merge and assemble them (`requirements/validation.py`, `clarification.py`, `anchors.py`) | |
| `RequirementIntake` | the intake graph, its checkpoint, the session, and the calls that start and resume it | `TripRequirement` |
| `ProviderAdapters` | which error an adapter makes of an answer (`tools/providers/`, `weather/providers/`) | |
| `ProviderChain` | circuits and failover (`tools/providers/chain.py`) | `ProviderAdapters` |
| `ToolGateway` | cache with single flight, retries, semaphore, budgets of the runs that share a gateway | `ProviderChain` |
| `PreferenceContext` | selection of memories for a trip, and what they change in it (`memory/context.py`) | |
| `PreferenceMemory` | memories, proposals, decisions, the personalization switch, on three repositories | `PreferenceContext` |
| `MC…` | values of constants and symmetry sets for TLC | the module they name |
| `…_proofs` | theorems and proofs (lemmas only in `PreferenceContext_proofs`, which `PreferenceMemory_proofs` uses) | the module they name, `TLAPS` |

### PlanLifecycle

`session` is the stored record, `ckpt` the latest checkpoint (none, at an interrupt, or at a
node that was about to run), and the rest is per process: `node` (the node it executes),
`phase` (before or after the node's `repository.get`), `seen` (the copy it read), `req`,
`patch`, `clar`, `forecast` and `event` (graph state). `Resume` is `resume_lifecycle` up to
the first node; `ReadSession` is the read of a node; then one action per node and outcome.
`Save` is the compare-and-swap and `Commit` a save with its receipt that leads back to
`await_user_action`. `Raise` is an exception in any node and leaves the checkpoint where it
was; `Crash` stops a process anywhere. Processes do not share the lock that serialises the
resumes of one process.

Abstracted: a plan is a function from items to placements; a placement has a day and is
otherwise opaque, which is what item and day fingerprints hash. What the replanner proposes is
any plan that passes the locality guard `Local` and agrees with the locks, or a failure. A
forecast is one of a few values, told apart by risk. The edit parser yields one of
`EditPatches`, whose `open` counts operations still to be clarified. A stale or replayed
request changes nothing and is a stuttering step.

### AsyncRuns

`status`, `key`, `prev` and `trace` are the run store (`trace` counts persisted events),
`ticket` and `pushed` the Redis list in the order of its pushes, `job` the job keys, `at`,
`by` and `outcome` say where each execution stands and in which process, `asked` holds the
local tasks with an undelivered `task.cancel()`, `call` and `target` are cancel calls,
`stream` the SSE streams. `Commands` are runs that a request executes itself (resumes,
edits), with the replay lookup by `request_id`. `UseQueue` chooses between Redis workers and
tasks of the API process. Every `await` on a store or on Redis ends a step.

### ExecutionLedger

One run. `used` are the meters of `ExecutionLedger`; `count`, `length`, `numbers` and
`fidelity` are the `TraceRecorder` (a trace is counted by kind of event, because no property
depends on anything else in it); `kept` counts those events whose sequence number was new when
they were appended, which is what SQLite and PostgreSQL store (`INSERT OR IGNORE`, `ON CONFLICT DO
NOTHING`), while the in-memory repository stores all of them (`Rows`); `pending` and `number` hold, for each of the two threads,
the event between the computation of its sequence number and its append; `node`, `at` and
`cause` are the graph, `call` and `tries` the calls of the node, `owed` and `broken` the
checkpoint writes that LangGraph makes in the background, `spent` the side effects that
happened, `closing` the steps of terminal nodes, `final` what `_persist` stored.

There are two threads because LangGraph runs a synchronous node in an executor thread, while
async nodes, calls, checkpoint writes and the coordinator share the event loop. Abstracted:
the order of nodes is arbitrary (the routes are those of `PlanningWorkflow`), one owed write
per node, input and output tokens are one meter, the kinds of node are those that the ledger
or the trace treats differently. Cancellation is part of `AsyncRuns`.

### PlanningWorkflow

One run of `run_planning` in the `single_graph` mode. The variables are keys of `TravelState`
(named in their declarations; `drafts` and `cands` are keyed by plan id, and an id records the
rounds of repair that made it), the node that runs next, the supersteps LangGraph has counted,
and what the ledger has left. Each node is an action, together with the route that leaves it:
`Enter` is the superstep and the accounting of `instrument_node`, `Edge` the fixed edges,
`Refused` a node that a limit turns away.

Abstracted: a validated plan has a level and, when it is illegal, a fingerprint of its
violations, the number of errors behind it and whether they are repairable; the validator may
give any verdict, except that a plan without places is illegal. A repair plan is the fingerprint
of its actions. The critic gives one of a few scores around threshold and minimal gain, about
all the plans it was shown or fewer, and its answer may be ungrounded for other reasons.
The list of digests is any set of legal plans, because the character budget may end anywhere;
without a digest `prepare_critic_context` raises (`no_evidence`). Ties that the code breaks by deterministic score and id are broken
either way. Routes are not modelled: a delta load happens or not, and may fail.

The days that a repair has declared unaffected are compared with fingerprints, and the validator
raises when one differs. That can happen after `ADD_AVAILABLE_POI`, the repair of a plan without a
stop: it declares only the day that the place goes to and takes the place from every day
(`DayChanged`; `EmptyPlans` are the fingerprints with such a violation). The other local actions
move a place from a day that they declare, and each place stands on one day; a day is built from
its own stops and routes alone, so that the days which are not declared come out the same. Soft
actions take stops only from declared days too, and the comparison after a soft repair is left
out.

### TripRequirement and RequirementIntake

`thread` is the checkpoint of the intake graph: `next` is the node it continues with, `asked`
whether the interrupt of `await_clarification` is pending, the other fields are keys of
`RequirementState`. `session` is the part of the stored session that the intake writes: its
status, the round of the question it shows (0 when it shows none), the fields that question
names, and the receipts. `planned` is what the planning graph answered, `lifecycle` whether
`start_lifecycle` has run, and `call` the call in progress. Each node of the graph is an action
with its route; a superstep writes the checkpoint. `AskFromText`, `AskFromTrip` and `AskResume`
begin `create_from_text`, `create` and `resume`; `StoreWaiting`, `StoreCompleted` and
`RefuseUnplanned` are what `_resume_requirement` does with the answer of the graph, `Fail` an
exception or the end of the process at any step.

Dates are days, times half days, hours numbers, because the rules compare them. What the model
reads in a text or an answer is any member of `Drafts` or `Patches`; a search finds any set of
the names it looks for. Abstracted: wording of questions, preferences (they fill what a draft
leaves open and touch none of the fields above), the contents of a plan. A lock per session
serialises its calls, so that `call` holds one; two processes that resume one waiting session
are left out. The checkpoints are durable; when they are kept in memory, a restart loses them.

### ProviderAdapters, ProviderChain and ToolGateway

`ProviderAdapters` is a table: for each adapter, operation and class of answer, the category of
the error and whether it may be retried, or that the adapter raises something the chain does not
know (`Crash`). `ProviderChain` adds the circuits: a provider is its position in the chain.

`ToolGateway` is one gateway shared by several runs. A *load* is the task that `get_or_load`
creates; it has the name of the call that created it, draws on the budget of that call's run,
and is shielded from the cancellation of the calls that wait for it. `load` holds its attempt
and its place in the chain, `inflight` and `entries` are the dictionaries of the cache,
`permits` and `queue` the semaphore, `left` the attempts of each run (or `Late` after its
deadline), `circuits` the chain. The steps of a load are `StartAttempt` (budget, then the
semaphore), `EnterChain` (permit, deadline, circuits), `ProviderAnswers` and `GatewayTimeout`.
The map and the weather gateway are two values of `service`. Keys stand for normalised queries;
the contents of an answer are left out.

### PreferenceContext and PreferenceMemory

`PreferenceContext` models `compose` and `apply_to_trip` as operators over sets of memories.
A value stands for category, value and scope together, which is what the content hash tells
apart; `Says` is what it says whatever its scope, which is what `compose` compares. Scores are their weights; ties are broken either way.

In `PreferenceMemory` the variables are the three tables (`rows`, `proposals`, `settings`), the
decisions that each process remembers (`decided`), and the call of each client. A call is a
sequence of repository calls, each one step (`Find`, `Insert`, `Get`, `Save`, `Resolve`, ...).
`backend` chooses the repository: on `postgres` the steps of all processes interleave; `sqlite`
and `memory` never suspend, so that a process finishes a call before it begins the next; the
`memory` store belongs to one process. `Duplicate`, `Found` and `Saved` keep the difference
between the hash column, which PostgreSQL leaves as it was inserted, and the stored value.
`made` records which proposal a memory was made for. A client that updates or revokes names any
of `Revisions`, as the API lets it, and the handlers hand it on without comparing it with the
revision they have read: `guessed` records the memories that were saved on a revision that the
call had not read. `RepositoryFails` is a query that raises, `Crash` the end of a process.

## 3. What the runs check

Deadlock checking is off where the system rightly stops: a session without requests, a run that
has ended, a stream that is closed. Progress is checked as liveness instead. The planning graph
has an explicit end (`Over`), and its runs check that nothing else blocks.

A run checks the liveness properties, which are not proved, and the safety properties that matter
most although they are proved, so that the model is seen to reach the cases they are about. What is left to the proofs
alone: `TypeOK` of `PlanLifecycle`, `AsyncRuns` and `ExecutionLedger`, `ApprovalHasPreview`,
`PreviewsCurrent`, `TraceWithStatus`, `CriticIsOptional`, `ReserveKept` and `RaisedForTheLoader`.

### Plan lifecycle

| Run | Checks | Bounds |
| --- | --- | --- |
| `lifecycle_single` | `LinearHistory`, `LocksHeld`, `AnswersAreFinal` | one process that may crash, 4 requests of every kind, 2 items, several days, `MaxRevision` 4 |
| `lifecycle_weather` | `WeatherAgrees` (one preview per event, an event follows its preview, attention is open), `ResumeEnds` | one process, 4 requests of every kind, 1 item, forecasts calm and storm, up to 3 versions, `MaxRevision` 4, `FairSpec` |
| `lifecycle_two` | `NoLostUpdate`, `ImplementsHistory` | two processes, 3 requests, 1 day, `MaxRevision` 3 |

`MaxRevision` bounds the requests a session takes: `Resume` is disabled past it, while what was
begun goes on. Four revisions suffice for select, lock, edit and approve, and for a weather
preview, its rejection and a second refresh that meets the same event. Three days with two items
give an edit that moves an item between days and leaves a third day alone, which locality and
day locks need. The request ids are symmetric, since the code compares them for equality only;
processes too. `lifecycle_weather` takes no symmetry, because it checks liveness.

*Fairness.* `FairSpec` asks that a process in the middle of a resume takes its next step or
crashes. `resume_lifecycle` is one coroutine without a wait for another client: its awaits are
the repository, the edit model and the tools, all with timeouts. Nothing obliges a client to
send a request.

### Runs

| Run | Checks | Bounds |
| --- | --- | --- |
| `runs_queue` | `SingleOwner`, `TerminalIsFinal`, `HandOversKeepRuns`, `RunsEnd`, `StreamsEnd` | 2 queued runs, 2 workers, 2 cancel calls, 1 stream, traces of 2 events in pages of 1, all faults, `FairSpec` |
| `runs_local` | `LateStreamsComplete` | a task of the API process, a command, a stream, all faults |

Two workers and two cancel calls are the fewest that race for one job, and two runs the fewest
whose order in the queue matters. In `runs_local` a trace has up to `MaxEvents` 3 events and a
page `PageSize` 2 (200 in the code), so that a stream needs a full and a partial page before the
empty one that ends it.

*Fairness.* `FairSpec` asks that a run whose execution can go on does, that a cancel call that
has taken a run stores it, and that a stream reads on: a planning call comes back because its
`ExecutionBudget` has a deadline, the worker's loop takes the next job, and the stream polls.
Faults stay possible at every step and nothing repairs them, so that the liveness properties say
what holds through faults: a run ends or loses its last owner (`RunsEnd`), a stream ends or is
disconnected (`StreamsEnd`). `HandOversKeepRuns` says that without a fault or a cancellation an
owner is never lost. With one, runs do stay running; `runs_orphan_crash.cfg` shows it.

### Budget and trace

| Run | Checks | Bounds |
| --- | --- | --- |
| `ledger_calls` | `WithinBudget`, `UsageMatchesTrace` | 2 gathered tool calls of 2 tries with 3 attempts in the budget, a requirement node and the critic with 1 model call, 2 attempts and sizes 1 and 2 against a limit of 2; 3 graph steps |
| `ledger_graph` | `EndRecorded`, `RunEnds` | four kinds of synchronous node and a tool call, in any order and number; 3 steps of which 1 is reserved, 1 checkpoint write, 7 events of which 3 are reserved; `LiveSpec` |

Every limit is small enough to be reached and passed in the run that is about it: attempts (two
calls want four, the budget has three) and prompt size in `ledger_calls`, steps, writes and
events in `ledger_graph`. `ledger_calls` has room for every event (14), because
`UsageMatchesTrace` speaks of complete traces. Of a trace in which two threads gave one number to
two events the databases keep one event, although the trace is marked complete; the number that
the second event should have had is then missing. `UsageMatchesTrace` therefore asks for equality
only of a trace without gaps, and of any complete trace that it shows no more than was used.

*Fairness.* `LiveSpec` asks that some step of graph, calls or checkpoint writes happens while one
is possible: every call carries a timeout and synchronous nodes return. Nothing obliges the
deadline to pass, so that `RunEnds` shows the other budgets to be enough on their own.

### Planning graph

| Run | Checks | Bounds |
| --- | --- | --- |
| `planning_main` | `ContextAgrees`, `LegalIsKept`, `OutcomeIsTrue` (an infeasible run had no legal plan, a delivered plan is the best), `RepairsDiffer`, `ScoresAreGrounded`, `TerminalNodesFit` | 3 plans, 3 repair rounds and a soft one, 4 fingerprints of 1, 1, 2 and 3 errors, 3 actions, 3 scores; 11, 14, 22, 33 or 100 graph steps left with a reserve of 2, 1 or 4 repair rounds left in the ledger |

Three is the number of plan styles. Four fingerprints, two of them with one error, let a repair
improve, go sideways and come back to violations met two rounds earlier, which three rounds
can reach; one of them is that of an empty plan. Of the scores 60, 63 and 72 two are below the threshold of 70 and one step is below
the minimal gain of 5. The opening takes 9 nodes and a repair round 8, so that the
graph steps run out early or late in the first repair, in the second or around the critic, at
the end of the third or in a soft repair, or not at all.

No liveness is stated: every run ends, if only because LangGraph counts supersteps. What is
worth knowing is how it ends, which the invariants on `outcome` say.

### Requirement intake

| Run | Checks | Bounds |
| --- | --- | --- |
| `intake_main` | `TypeOK`, `AssemblesUnlessHalfWindow`, `SessionTells` (candidates come from a plan, a receipt per question, all rounds offered), `OnlyAskedFieldsChange`, `EveryTurnEnds` | 6 drafts, 4 patches, 4 request ids, 2 answer texts, `MaxRounds` 3, a failure at any step, `FairSpec` |

The drafts are complete, lack a time, contradict themselves, have several faults, name a hotel
or a late start; the patches say nothing, repair one field or several, or go wrong. Three rounds
with four request ids let a session be exhausted and be asked once more. A session with a
question takes any number of failing retries.

*Fairness.* `FairSpec` asks that a call that has begun takes its next step or fails: the service
awaits the model, the tools and the stores, all with timeouts.

### Tools

| Run | Checks | Bounds |
| --- | --- | --- |
| `tools_main` | `WithinLimits` (types and permits), `SingleFlight`, `FreshAnswers`, `OpenHasReason`, `OnlySuccessIsCached`, `EveryCallEnds` | 2 callers of 2 runs with 2 attempts each, 2 keys in a cache of 1 entry, 1 permit, 2 attempts per load, map and weather chains of 2 providers, answers good, malformed and crashing, 2 points of time |

Two callers are the fewest that share a load or a permit; one permit and one entry make every
call wait and every entry replace another. A time to live and a recovery time of one unit both
pass within the run. Of the classes of answers one of each effect on the control is taken
(success, an error that may or may not be retried, a crash); a timeout of the gateway is an
action of its own.

*Fairness.* The event loop runs tasks that are ready, and `wait_for` ends every provider call.
Nothing obliges a provider to answer, a caller to be cancelled or a deadline to pass.

### Preferences

| Run | Checks | Bounds |
| --- | --- | --- |
| `memory_main` | `StoreFits` (types, one memory per proposal), `AnswersWhatWasAskedLocally`, `RequestWins`, `ContextAgrees`, `NoLostWrite`, `ErasedStaysErased` (both outside `guessed`) | 2 clients of 1 or 2 users at 1 or 2 processes, 3 calls, 3 memories, 1 proposal, 1 fault, 3 repositories, expected revisions 1 and 2, 4 values of which two contradict each other and two say the same in different scopes |

Three calls make at most two changes of a memory that exists, so that a third revision is never
read and no revision above 2 can match when a call saves.

Three calls are the fewest for the races that matter: one creates, and two others read and
write it. The clients, processes and users are symmetric. No liveness is stated: a call has at
most four steps and none waits.

`AnswersWhatWasAskedLocally` is restricted to the repositories that keep it: on PostgreSQL the
hash column is not updated, which `AnswersWhatWasAsked` shows (section 5).

### Mutants

Each property of a passing run has a mutant in `PROJECT.json`: an operator of the model, such as
`Within_OffByOne` or `Save_Unchecked`, that stands beside the definition it would replace and
differs from it as a slip in the code would. With the mutant in place the run must report the
property violated.

## 4. What is proved

The proofs hold for every value of the constants that satisfies the named assumptions of the
modules (`PlacesAssumption`, `LifecycleAssumption`, `RunsAssumption`, `LedgerAssumption`,
`RoundsAssumption`, `InputAssumption`, `DraftAssumption`, `ChainAssumption`, `GatewayAssumption`,
`PlanningAssumption`, `ContextAssumption`, `MemoryAssumption`): any number of processes, requests,
items, runs, workers, streams, tool calls, rounds, cache keys, providers, plans, scores, memories
and users, any drafts and patches, any bounds. The assumptions say no more than that sets are
disjoint, numbers are numbers and terms are strings, and what the code enforces: the reserves
(`ExecutionBudget.validate_reserves`), at most one soft repair and two attempts of the critic
(`config.py`). The set of gathered calls, the set of callers of a gateway and the plan styles are
finite. A theorem that needs more says so in its statement: `EndsAreRecorded` and
`TerminalNodesRun` a larger reserve, `AnswersStand` and `WeatherIsConsistent` one API process. In
each case a configuration of section 5 shows what happens without it.

Every safety property that a run checks is a theorem, or a conjunct of one.

**`PlanLifecycle_proofs`.** `TypeCorrectness`, `NoUpdateIsLost`, `HistoryIsLinear`,
`LocksAreHeld`, `ApprovalsHavePreviews`, `PreviewsAreCurrent`, and `Refinement`: every lifecycle
is a `PlanHistory`. The inductive invariant is

    IInv == TypeOK /\ SessionInv(session) /\ NoLostUpdate /\ CopiesInv /\ WeatherInv

`NoLostUpdate` is what makes it inductive. A save happens only at the revision the node has read,
so by `NoLostUpdate` the copy it decided on *is* the stored record (`SaveEffect`), and every
save is an update of a record that satisfies `SessionInv`. What remains is one lemma per kind of
update (`SelectInv`, `ChangeLockInv`, `NewPreviewInv`, `RejectInv`, `ApproveInv`, `KeepPlanInv`).
`LocksHeld` alone is not inductive: an approval installs the plan of a preview that was built
earlier, and needs `PreviewsCurrent`, that a preview of the current revision agrees with the
current locks. `LinearHistory` needs that a pending preview is based on the active version.
Refinement then follows step by step: a save either leaves plans and locks alone, or is a
`Choose`, `Hold`, `Release` or `Change`.

`DecisionsAreKept`, `AnswersStand` and `WeatherIsConsistent` sort the steps a second time, by what
they do to what the user was told (`Outcome`: nothing, an event noted, a preview proposed, decided
or dismissed; `Answers`: one receipt). Decisions stand for any number of processes, because only
the preview that `HasPreview` knows to be pending is ever decided. The other two are stated for
one API process (`OneProcess`), which serialises its resumes: `Alone` says that such a process
acts on the stored record, on a request without a receipt, and, between the deduplication and the
preview, on an event that has no receipt yet. `WeatherAgrees` is inductive once an event has a
single receipt (`OneReceiptPerEvent`): otherwise a dismissal could answer for a pending preview.
With two processes both fail (`lifecycle_receipt_race.cfg`, `lifecycle_event_race.cfg`).

**`AsyncRuns_proofs`.** `TypeCorrectness`, `OwnersAreSingle`, `EndsAreFinal` (an action
property), `TracesComeWithStatus`, `LateStreamsAreComplete`. `SingleOwner` is inductive together
with what commands, outcomes and cancel calls may be (`CommandInv`, `OutcomeInv`, `CallInv`):
each action hands a run from one owner to the next or drops it, and only an owner writes the
store, which is why an unconditional `finalize` never overwrites an end. `StreamInv` adds that a
cursor never passes the trace, and that a stream opened on a finished run reads an unchanging
one. `RunsAreKept` (`HandOversKeepRuns`, an action property) goes through the hand-overs once
more: without a fault or a cancellation each of them leaves its run owned or finished.

**`ExecutionLedger_proofs`.** `TypeCorrectness`, `BudgetIsKept`, `UsageIsExplained`,
`EndsAreRecorded`, `ReserveIsKept`, `CriticNeverEndsARun`. The inductive invariant adds to
`TypeOK`: `ControlInv` (which events and errors are possible where), `StepInv`, `LimitInv` and
`PaidInv` (arithmetic of the ledger; a call between its payment and its request counts as
paid), `TraceInv` and `LengthInv` (arithmetic of the trace; an event that a thread has numbered
but not appended counts), and `NumberInv`: numbers are at most the length of the list, so that an
event which is not kept leaves a gap, and a trace without gaps has every event. The theorem `EndsAreRecorded` needs `TraceReserve >= 3`. Two threads
may together overrun the normal part of the trace by one event (`LengthInv`); the reserve must
hold that one, `budget.exceeded` and the end. The default is 4; with the smallest value that
`ExecutionBudget` permits, 2, the end can be lost, as `ledger_end.cfg` shows.

**`RequirementIntake_proofs`.** `CandidatesComeFromAPlan`, `ReceiptsMatchQuestions` and
`AllRoundsAreOffered`, together `SessionsTellTheTruth`, and `OnlyAskedFieldsAreChanged` (an action property). The checkpoint runs
ahead of the session while a call is in progress and stays ahead when it fails; the invariant
says by how much. `RoundFits`: the graph of a running call is in the round of the question its
caller answered until it asks the next one. `TargetsFit`: as long as the checkpoint is in the
round of the question that the session shows, both name the same fields. `ThreadFits` adds that
an answer that is stored but not applied belongs to the round of the checkpoint, so that its
retry is a retry of the same question. After a failure beyond that round the session keeps its
old question, and `CallFits` holds because `Accepts` then takes no answer at all
(`WaitingCanGoOn`, in section 5, is the other side of this).

`TypeCorrectness` and `CheckedDraftsMakeTrips` (`AssemblesUnlessHalfWindow`) follow the draft
through the graph (`DraftInv`): `Checked`, past the validation the issues are those of the draft;
`Located`, past the anchors both places of the trip are resolved; `Asks`, a question names fields
of the draft. A draft that reaches `assemble` has then no issue, and the rules of the validation
imply those of the constructor, one by one, except for a daily window with one end.

**`ToolGateway_proofs`.** `OneFlight`, `PermitsComeBack`, `AnswersAreFresh`,
`BudgetErrorsHaveReason` and `OpenCircuitsHaveReason`. The invariant has one part per piece of
shared state. `SingleFlight` is inductive with the shape of loads and calls (`LoadFits`): a load
enters `_inflight` only when its key has none, and leaves it in the step that ends it. `Joined`
says that a call waits for a load of its key that was not over when the call joined, which gives
the freshness of joined answers; that of cached ones comes from `EntryFits`, an entry expires one
time to live after it was inserted. `PermitsFit` counts the loads that are calling, with
`QueueFits`: the semaphore's queue holds loads that hold no permit, and each once, so that a
permit is never given to a load that has one. `MeterFits` keeps the reason of a budget error
until it is raised, since an exhausted budget is never filled again. `CircuitFits`: a circuit with
an open window has counted `FailureThreshold` failures, although calls that began before it opened
go on noting theirs.

`LimitsAreKept` (`WithinLimits`) has an invariant of its own on top (`LInv`): attempts and
positions of a load are in range, since the chain of providers that are not shut is a nonempty
sequence of them (`RouteExists`, by induction over the chain); the cache is within its bound,
since an insertion into a full one evicts an entry, and a nonempty finite set of entries has an
oldest one; counters stay within their bounds. `FailuresAreNotCached` (`OnlySuccessIsCached`, an
action property) shows that the step that inserts an entry is the successful answer of a provider
to the load of its key, and that the entry holds that answer; `Fetches` names the load.

**`PlanningWorkflow_proofs`.** `LookupsSucceed` (`ContextAgrees`, which speaks of
lookups: the two errors that nodes raise over data, `changed_day` and `no_evidence`, are outcomes),
`OutcomesAreTrue`,
`NoRepairTwice`, `EveryScoreIsGrounded`, `LegalPlansAreKept` (an action property) and
`TerminalNodesRun`. The graph's state is a dictionary whose entries speak of the same plans only at
some nodes. The invariant therefore goes by groups of nodes (`Opening`, `Choosing`, `Repairing`,
`Improving`, `Judging`, `Scored`): `PlansFit`, which of `drafts` and `cands` have the same ids and
what the validator has seen; `RoundsFit`, the history has one entry per round, and a repair in
progress is new in actions and violations; `BaseFits`, the baseline of a soft repair still has the
plan and the score it is compared with; `CriticFits`, which plans digests, critiques and scores
speak of; `EndFits`, what an outcome says. `LegalIsKept` needs `BaseFits`: while a soft repair has
emptied the list, the legal plans are those of the baseline. `TerminalNodesRun` assumes a reserve
of two graph steps, one for the validator and one for the node that ends the run
(`ReserveFits`); with the smallest permitted reserve, 1, `planning_smallest.cfg` refutes it.

**`PreferenceMemory_proofs`.** `StoreIsFit`, `CreatesWhatWasAsked`, `NoWriteIsLost`,
`ErasureIsFinal` (two action properties), `RequestIsHonoured` and `WhatARunIsToldAgrees`. A call
reads in one step and writes in a later one, so the invariant says what a call still knows of what
it has read: a row, or a switch, that has the revision it had when it was read is the one that was
read (`RowAsRead`, `SwitchAsRead`), a proposal keeps its owner and value (`ProposalAsRead`). Each
step only moves the store onward (`RowsOnward`, `SettingsOnward`): revisions grow, nothing that
was deleted returns. The knowledge is lost for a memory in `guessed`: a save that named a
coming revision leaves the number as it is, and from then on equal revisions no longer mean equal
rows. These carry the knowledge of one call over the steps of all others, so that
each action is looked at once. `OneMemoryPerProposal` rests on the unique key of the table, and
`AnswersWhatWasAskedLocally` on `HashesFit`, that outside PostgreSQL a row is found only by the
hash of its present value.

**`PreferenceContext_proofs`.** What the composer selects and what `apply_to_trip` makes of it are
folds over sequences of any length. Library theorems with an operator parameter cannot be
instantiated here, so the proofs unroll the fold's recursive function once, as a function on
`1..k`, and do the induction on `k` from the well-foundedness of the naturals (`UpTo`). The
lemmas say that the selection has no two memories of one category that disagree and fits the characters, and that
an explicit field of the draft is left as the request gave it.

Only model-checked is liveness (`ResumeEnds`, `RunsEnd`, `StreamsEnd`, `RunEnds`,
`EveryTurnEnds`, `EveryCallEnds`), since the proof system does not reason about fairness and `ENABLED` here.

## 5. Disagreements between documents and code

The run `lifecycle_error_stuck` checks `ActiveIsResumable`, a statement of docs/v0.8/design.md,
and finds it violated: an exception in a node leaves an active session without an interrupt. The
quotation and the lines are in `PROJECT.json`, under `findings`.

Further configurations lie beside it, which are not part of the regular runs. Each checks one
statement of a document, a comment or a test and ends with a violation too. A configuration
`..._statements.cfg` names one statement in its last line; the other statements of the table
that belong to it take its place there. Those marked with * are formulas about steps and stand
under `PROPERTY`, the others under `INVARIANT`.

| Configuration | Statement | Document | What happens |
| --- | --- | --- | --- |
| `lifecycle_error_stuck.cfg` with `SPECIFICATION Spec` | `ActiveIsResumable` | docs/v0.8/design.md:334 | a stop between save and checkpoint leaves an active session without an interrupt |
| `lifecycle_pending.cfg` | `PendingIsOpen` | docs/v0.9/design.md:756 | dismissing an older weather event strands a pending preview |
| `lifecycle_event_race.cfg` | `OnePreviewPerEvent` | docs/v0.9/design.md:675 | two processes that refresh together build two previews of one event |
| `lifecycle_receipt_race.cfg` | `ReceiptsAreFinal` * | docs/v1.1-v1.2/design.md:1058 | one request delivered to two processes takes effect twice |
| `runs_orphan_cancel.cfg`, `runs_orphan_crash.cfg` | `NoOrphan` | docs/v1.0/design.md:884 | runs that stay running and that nobody executes |
| `runs_statements.cfg` | `OneRunPerKey` | docs/v1.1-v1.2/requirements-traceability.md:168 | the Idempotency-Key of an asynchronous run is stored and never looked up |
| `runs_statements.cfg` | `ReplayedDidNothing` | docs/v1.0/design.md:155 | the retry of a failed command executes and is recorded as replayed |
| `runs_statements.cfg` | `StreamsComplete` | docs/v1.1-v1.2/design.md:1059 | a stream ends without the events of a run that ended between its two reads |
| `ledger_statements.cfg` | `ChecksComeFirst` | execution/budget.py:12 | a checkpoint is written before it is counted |
| `ledger_statements.cfg` | `StepsMatchTrace` | docs/v1.0/design.md:469 | a refused repair round leaves a counted step without an event |
| `ledger_statements.cfg` | `NodesPaired` | docs/v1.0/design.md:466 | an interrupt whose accounting raises leaves `node.started` alone |
| `ledger_statements.cfg` | `AttemptsEnd` | docs/v1.0/design.md:467 | attempts of gathered siblings are open when the run is stored |
| `ledger_statements.cfg` | `NumbersUnique` | docs/v1.0/design.md:470 | two threads give one sequence number to two events |
| `ledger_statements.cfg` | `CompleteUsage` | docs/v1.0/design.md:469 | of two events with one number the databases store one, and the trace still counts as complete |
| `ledger_end.cfg` | `EndRecorded` | docs/v1.0/design.md:376, 465 | with the smallest reserve, 2, the end of the run is dropped |
| `planning_statements.cfg` | `LevelIsKept` * | docs/v0.7/design.md:349 | a soft repair trades a valid plan for one with warnings |
| `planning_statements.cfg` | `CriticIsHarmless` | docs/v0.7/design.md:443 | without critic and digest the explanation raises and the run fails; an evidence budget too small for one item raises before the critic is asked |
| `planning_statements.cfg` | `PreservedDaysStand` | docs/v0.5/README.md:11 | the repair of an empty plan changes a day that it has not declared |
| `planning_statements.cfg` | `OptionalStagesDegrade` | docs/v1.0/design.md:367 | a soft repair without a repair round left ends a run that has a legal plan |
| `planning_smallest.cfg` | `TerminalNodesFit` | docs/v1.0/design.md:370 | with a reserve of 1, `mark_infeasible` is refused its step |
| `planning_statements.cfg` | `RecursionSuffices` | docs/v0.5/README.md:107 | two repair rounds and a soft repair pass the recursion limit made for them |
| `intake_statements.cfg` | `ValidDraftAssembles` | requirements/validation.py:52 | a day that starts at 21:00 and has no end passes validation and is refused by `TripSpec`, whose default end is 20:00 |
| `intake_statements.cfg` | `WaitingCanGoOn` | docs/v0.8/design.md:332 | after a failure of planning or of the save, the session shows a question whose answer is refused |
| `tools_statements.cfg` | `BudgetIsOwn` | execution/budget.py:12 | the exhausted budget of one run fails a call of another that joined its load |
| `tools_statements.cfg` | `TimeoutFailsOver` * | docs/v1.1-v1.2/design.md:654 | the timeout of the gateway ends the chain, and the next provider is not asked |
| `tools_statements.cfg` | `ServerErrorGoesOn` * | docs/v1.1-v1.2/design.md:654 | status 500 of AMap is an invalid request, neither retried nor passed on |
| `tools_statements.cfg` | `DeniedIsFinal` * | docs/v1.1-v1.2/design.md:657 | Baidu's 401 and 403 are upstream failures and are retried |
| `memory_statements.cfg` | `RefusedForAChange` * | tests/test_preference_memory.py:140 | on PostgreSQL the first switch of a user is refused as stale |
| `memory_statements.cfg` | `ConfirmIsIdempotent` | docs/v1.1-v1.2/design.md:1058 | a confirmation whose value is created by another call between its lookup and its insert fails with a conflict, and the proposal stays pending |
| `memory_statements.cfg` | `DecisionIsFinal` * | memory/service.py:299 | of a confirmation and a rejection at once both succeed |
| `memory_statements.cfg` | `AnswersWhatWasAsked` | infrastructure/postgres.py:251 | after an update a memory is found under the value it had before |
| `memory_statements.cfg` | `EveryWriteIsSeen` * | docs/v1.1-v1.2/design.md:344 | an update that names the coming revision overwrites a revocation it has not read |
| `memory_statements.cfg` | `RevokedStaysRevoked` * | docs/v1.1-v1.2/requirements-traceability.md:71 | in the same way a revoked memory is active again |
| `memory_statements.cfg` | `InterestsAreNotAvoided` | docs/v1.1-v1.2/implementation.md:125 | a remembered dislike is avoided although the request asks for it |
| `memory_statements.cfg` | `NeedsAreApplied` | memory/context.py:193 | a walking tolerance that is applied later takes back the rests that another memory needs |

## 6. What is not modelled

- *Later parts of the plan*: the filling of an edit clarification, event retention, agent
  handoffs (section 7).
- *Intake*: checkpoints that a restart loses, resumes of one waiting session by two processes,
  planning without a session.
- *Tools*: the location that the AMap forecast takes over from QWeather, and the metrics.
- *Data*: search, scoring, optimisation and validation of schedules, prompts and the parsing of
  model output, evidence and explanations, thresholds of weather risk. The models choose their
  results among those the control flow tells apart.
- *Evaluation paths of the planning graph*: the ablations (`select_best`, forced heuristic,
  unvalidated selection), and the specialists, which wrap single operations of its nodes.
- *Pure input and output*: the contents of provider answers, HTTP encoding, authorisation of a request, MCP
  transport, logging, the web client.
- *Assembly, evaluation and fault injection*: wiring and tests. Every call of the models may
  fail at any attempt.

## 7. Plan

In order of what matters most:

1. **Done**: `PlanLifecycle` over `PlanHistory`, `AsyncRuns`, `ExecutionLedger`,
   `RequirementIntake`, `ToolGateway`, `PlanningWorkflow` and `PreferenceMemory`, each with proofs of
   all the safety properties that its run checks.
2. **Abstract specifications**: a planning run that collects legal plans, improves them, and
   delivers one or declares that there is none; a preference store in which each service call is
   one step; a run record that ends once, which `AsyncRuns` implements; and that every completed
   `AsyncRuns` run is a run of `ExecutionLedger` from `reserve` to `_persist`.
3. **`EditClarification`**: the part of `PlanLifecycle` that fills an edit's open operations one
   answer at a time, with operations as a sequence.
4. **Weather retention and agents**: the window of stored events beside deduplication; the handoff
   limit beside a trace that drops events.

The regular runs stay a dozen, so that they can all be repeated in a few minutes. A new module
brings one run that checks all of its properties.
