# Anum: TLA+ specifications and proofs

This directory specifies the part of Anum that acts in the world on a person's
behalf. A **task** is planned by a model within a **budget**, judged by a policy,
**approved** by people along a chain, executed by a tool inline or by a **workflow**,
and may be cancelled, retried, archived or taken over at any moment, by requests,
workers and timers that run beside each other. **Automations** create tasks and wait for
them, and every change is announced through an **outbox** to the **streams** of open
browser tabs. All paths are relative to the repository (`src/`); `api/` stands for
`services/api/anum_api/`.

1. [Modules and runs at a glance](#modules-and-runs-at-a-glance)
2. [Inventory of the system](#inventory-of-the-system)
3. [The models and the code](#the-models-and-the-code)
4. [What the runs check](#what-the-runs-check)
5. [Disagreements found](#disagreements-found)
6. [What is proved](#what-is-proved)
7. [Not modelled](#not-modelled)

To check a run: `tlc -workers 2 -config TaskRuns_safe.cfg TaskRuns` (`PROJECT.json` names
the module of each). To check the proofs: `tlapm TaskRunsProofs.tla` and so
on for each `...Proofs` module.

## Modules and runs at a glance

| Module | What it is | Checked by |
|---|---|---|
| `AgentRuntime` | The rows of one task (task, runs with checkpoints, approvals) and the atomic changes `runtime.py` makes to them. No behaviour of its own. | through the next three |
| `TaskRuns` | Inline runs: the requests that claim, plan, apply, execute, settle, release, decide, cancel, archive. Extends `AgentRuntime`. | `TaskRuns_safe`, `TaskRuns_live`, `TaskRuns_CancelledClaimStops` |
| `ConnectorTasks` | Tasks born with a planned run (direct sends, held drafts). Composes with all of `TaskRuns`. | `ConnectorTasks_safe` |
| `DurableRuns` | Durable runs: queueing, the Temporal workflow, activity attempts that die or time out. Extends `AgentRuntime`. | `DurableRuns_live`, `DurableRuns_handoff` |
| `ApprovalChain` | Who may decide the approvals of a task: routes, bands, chains, delegations, the two-person rule and switch, rules that change. | `ApprovalChain_safe` |
| `AutomationRuns` | The runs of an automation and the deferred work of its steps: dispatchers, reports, wake-ups, retries. | `AutomationRuns_live`, `AutomationRuns_UnfinishedWork` |
| `ModelBudget` | The monthly budgets of workspaces and the organization: check before, record after. | `ModelBudget_safe` |
| `EventDelivery` | The promise of the outbox, abstractly. | as `DeliversOnlyCommitted` of `EventOutbox_live`, and proved |
| `EventOutbox` | Events, marks, relays with locked rows, the bus with its duplicate window. Implements `EventDelivery`. | `EventOutbox_live` |
| `EventStream` | The hub of an API process and a tab's event stream on top of all of `EventOutbox`. | `EventStream_live` |
| `AgentRuntimeProofs` | What the writes of `AgentRuntime` return and keep: lemmas that the next three share. | tlapm |
| `TaskRunsProofs`, `ConnectorTasksProofs`, `DurableRunsProofs`, `ApprovalChainProofs`, `AutomationRunsProofs`, `ModelBudgetProofs`, `EventStreamProofs` (with the theorems about `EventOutbox`) | Theorems for every value of the constants. | tlapm |
| `MCDurableRuns`, `MCApprovalChain`, `MCAutomationRuns`, `MCModelBudget` | Rulebooks, workflows, limits and symmetry sets for TLC. | |

## Inventory of the system

The repository holds a FastAPI service, a Temporal worker, a set of timer-driven
workers, web and mobile clients, and infrastructure. `PROJECT.json` lists every part
with its status; the parts that keep state with hard behaviour are these.

| Component | State | Operations | What makes it hard | What makes it correct |
|---|---|---|---|---|
| Agent runtime `api/runtime.py` | task, run with checkpoint (phase, version, call, approval), approval | plan, pause, begin, settle, continue, fail, cancel, recover | the same rows are written by requests, workers and route handlers | one open run; a pending approval and its run point at each other; the task row tells the truth |
| Inline runs `api/inline_runs.py` | a claim held in a request's memory | claim, plan, apply, execute, settle, release, quiet failure | no transaction between the units; processes die, streams stop, leases expire | a tool is called once per go-ahead; nobody's claim is undone; no task stays running |
| Durable runs `api/durable_runs.py`, `api/temporal_workflow.py` | one workflow per task, attempts | queue, start or reuse the workflow, advance, recover, poll, resume | the workflow starts before its transaction commits; attempts overlap; signals are lost | a call is never repeated unless idempotent; every run is served |
| Task routes `api/main.py`, `api/tasks.py` | the same rows | run, retry, cancel, archive, hand-off, resume | races with all of the above | a finished task starts only through a claim |
| Approvals `api/approval_*.py`, `api/tool_governance.py` | approval, approvers, routes | decide, expire, remind, page | partial approvals, expiry at the moment of the decision, changed targets | the approved call, and only that, executes; n distinct people approved it |
| Agent controls `api/agent_controls.py` | the emergency stop | stop, resume, cancel in flight | read outside any transaction by each tool call | after the stop no new call begins |
| Connectors `api/delivery.py`, `whatsapp.py`, `email_api.py`, `developer.py` | drafts and messages that remember a task and an approval | send, hold, retire, settle | settle with objects loaded before the tool ran | as for the runtime |
| Chat tasks `api/chat_tools.py` | the stream's task | create, run, reset | the stream stops while its threads work on | its clean-up undoes only its own claim |
| Outbox relay `api/outbox_relay.py` | domain events, publication marks | claim rows, publish, mark, park, back off | dies between publish and mark; several relays | every committed event is published at least once |
| Realtime `api/event_bus.py`, `realtime.py` | bus connection and hub per process, bounded queue, cursor and remembered ids per stream | subscribe, mirror, offer, drain, catch up | overflow, lost connections, duplicates, two ways an event can come | no event is missed or shown twice, whichever way it comes |
| Model budget `api/model_budget.py` | monthly usage | check, record | check before, record after | overspend is bounded by the calls in flight; a crossing is told once |
| Valkey `api/valkey.py` | lock, rate limits | acquire, release | TTL runs out under its holder | release only frees one's own lock |
| Automation `api/automation*.py` | runs of steps, waits, wake-ups | trigger, claim, defer, resume, retry | reports are lost, steps handed over again | a step is passed only by work of its own; every run moves on |
| Tenant lifecycle `api/tenant_lifecycle.py` | jobs with leases | schedule, export, purge, cancel | a lease runs out under a worker | a cancelled deletion purges nothing |
| Secret rotation `api/rotate_secrets.py` | ciphertexts | compare-and-set rewrites | concurrent changes | no secret is lost |
| Meetings, calls, finance, marketing | see `PROJECT.json` | | leases, provider callbacks | |

How they interact: the routes, chats, connectors and automations create tasks and ask
the inline runner or the dispatcher to run them; both runners change the rows only
through the agent runtime, inside a unit of work that locks the task row
(`get_task_for_update`); every model call they make passes the budget gateway; decisions
arrive through `main._decide_approval`, pass the rules (`ApprovalChain`), and the last one
either executes at once (inline) or signals the workflow; the end of a task wakes the
automation run that waits for it; every unit of work also stores its domain events, which
the relay publishes after the commit and the streams show.

`PROJECT.json` lists under `hazards` what is hard to test here, line by line, and which
property watches over it.

## The models and the code

### AgentRuntime

One task. `task` is the task row (`stale`: not touched for
`ANUM_INLINE_RUN_LEASE_SECONDS`), `runs` the run rows numbered in order of creation,
`latest` the newest one (`find_run_for_task` orders by `created_at, id`), `approvals`
and `asked` the same for approvals. A run keeps the phase, the version and the two
references that decide what may happen: the number of its proposal (`call`; the payload
hash binds tool, arguments, task, run and step, so two proposals never hash alike) and
the approval it waits for. The prompt, the plan's text, the tool's arguments and its
result are left out; the model's answer, the policy's verdict and the tool's outcome are
free choices of the actions. `PauseForApproval`, `SettleOutcome`, `CancelRows` are the
runtime's compound writes. "blocked" and "failed" tool results take the same path and
are one outcome. Events, audit and learning records are written in the same transaction
and decide nothing.

Undo (`undo_run`) works on completed runs through the tool's own records and leaves
these rows as they are; it is not modelled.

### TaskRuns

| Code | Action |
|---|---|
| `main.start_task_run`, `start_task_retry`, `run_task_for_automation`, `chat_tools._run` | `ClaimRun`, `ClaimRetry`, `ClaimHandOff`, `ClaimChat`, `RefuseChat` |
| `claim_expired` | `ClaimExpired` (a guard), `LeaseLapses` (time) |
| `start_planning`, `plan_with_model` | `PlanReturns`, `PlanFails` |
| `_apply` under `_locked_claimed_task` | `ApplyBlocked`, `ApplyPauses`, `ApplyAllowed`, `ApplyLoses` |
| `execute_committed`, `ToolRegistry.execute` | `ToolReturns`, `ToolRefused`, `ToolRaises` |
| `_settle`, `_settle_failure` under `_locked_executing_run` | `Settle`, `SettleFailure`, `SettleLoses` |
| `_release`, `_settle_failure_quietly`, `chat_tools._reset_unrun` | `Release`, `SettleQuietly`, `ResetUnrun`: units in threads of their own (`todo`) |
| cancellation of `run_inline`; a dying process | `StopEarly`, `Die` |
| `_decide_in_unit` | `DecideLapsed`, `Reject`, `RefuseChangedTarget`, `ApproveBlocked`, `Approve` |
| `cancel_task_record`, `_cancel_batch` | `Cancel`, `EmergencyStop` |
| `archive_task`, `unarchive_task` | `Archive`, `Unarchive` |

A unit of work is one action because it holds the task's row lock from its first read to
its commit. `req[r]` is what a request keeps between its units. `gone` and `todo` are
the part that is easy to get wrong: `asyncio.to_thread` cannot be cancelled, so a unit
already in its thread finishes although its request is gone, and the clean-up runs
beside it.

Left out, with the reason:

- The task's run lock (`_task_lock`): the default backend has none, and the Valkey lock
  has a TTL that nothing extends; nothing here relies on it.
- The inline branch of `resume_agent_run`: it needs a committed `tool_ready` checkpoint,
  and inline runs never commit one.
- Partial approvals of a chain, routes and the two-person rule: they leave the three
  rows alone until the last approve (`ApprovalChain`).
- Editing a task: no status or run changes with it.

### ConnectorTasks

A task that a connector creates together with a planned run, in one of three ways
(`ProposeAllowed`, `ProposeHeld`, `ProposeBlocked`), and after that everything in
`TaskRuns` may happen to it. `sender` is the direct send's request with **its own copy**
of the run: `finish_execution_in_units` saves that copy without reading the rows again.
`held` is the approval a draft remembers; `Retire` is what a changed draft does to it.

### DurableRuns

The queueing request is the one unit that does something visible while its transaction
is open: it starts the workflow. `queue` is that transaction: while it is open, all
other units wait for the row lock (`Unlocked`), but the workflow may already start an
attempt, which finds no run (`Missing`) or waits. `QueueAborts` rolls it back.

`wf` is Temporal, modelled from how the code uses it: at most one open execution per
task, `USE_EXISTING` for a run and `TERMINATE_EXISTING` for a retry, one current attempt
of the activity, retried when it fails or times out, results of superseded attempts
ignored. `at[w]` is an attempt at a worker: `advance` has a first unit
(`AdvanceStopped` to `AdvanceRecovers`, one per branch on the checkpoint's phase) and,
when that committed `executing`, a second one (`SecondSkips`, `SecondSettles`), and then
it reports. `TimesOut` gives an attempt up **without stopping it**; `Dies` stops it,
possibly after its handler was reached. Signals are not assumed: `Wakes` covers the
signal, the poll and the expiry timer alike.

Idempotence is a property of the tool a run plans, so `Idempotent` names runs; both
kinds occur in every run of the model. No idempotent tool asks for a continuation. The
workflow's `MAX_STEPS` is not reached by any run and left out, as is continue-as-new.

### ApprovalChain

The approvals of one task and the governance rules in force, which an administrator may
replace by another rulebook, and the two-person switch an owner may turn
(`EditRules`, `TurnSwitch`). `Steps(a)` is `build_route`: the rules whose band holds for
the **total** of the task's approvals (`Related`, `Total`: splitting a request does not
help), their steps merged position by position. `MayApprove`, `RulesAllow`,
`SwitchAllows` and `Counts` are the refusals in the order the code makes them;
`CanApprove` is the separate code that tells the card what a decision would answer.
`Approve` records an approver, and decides with the last one. `Lapse`, `DecideLapsed`,
`CancelTask`, `RefuseChangedTarget`, `Reject` are what else can end an approval.

Left out: patterns (all rules match the one tool, so relating approvals by rule does not
differ), percentage and disputed-amount conditions, required roles without a route, the
payload hash (a client that shows something else is refused before anything changes).

### AutomationRuns

`run[r]` is the row of a run with the state of its current step, `task` the agent tasks
that steps created, each with the step and attempt it belongs to, `draft` the email
drafts by their deterministic id, `queue[p]` and `work[p]` the in-memory queue and the
job at hand of a process's dispatcher. `Executes` is the loop of `execute_run`: steps done
in place until one halts. `Advance` is `advance_state` with a report (`WithReport`), for a
wake-up (`NoReport`) or a retry that is due. The deferred work is split where the code
commits: `RunTask`; `StoreDraft`, `AskToSend`, `LinkDraft`; `Report`. `Crash` empties a
process; `GoesStale` is the passing of `STALE_DEFER_SECONDS`, after which the job is
handed out again although a first copy may still be at work.

With the inline backend the dispatcher *awaits* the whole run of the task
(`automation_dispatch.py:271`, `main.py:1567`): `RunTask` starts it (the task is `handled`
by this process), `TaskReturns` is its end, `TaskReleased` a failure before the plan was
applied, and a `Crash` in between takes the run with it (`LeavesTask`): it dies, and the
task is `stranded`, running with nobody at it, or the shutdown cancels it, and it is
released or failed. With a durable backend `RunTask` only queues the run (`working`).
`TaskMoves` and the actions that name it are what else the other modules do with the
task: a person claims, retries, takes over or decides it, a claim is released, a process
dies, a run asks or ends.

Left out: triggers, schedules, cron and webhooks (one cursor row each, moved in the
transaction that starts the run); conditions, templates and delays; the `fail` step and
steps that create a task without running it; deleted tasks.

### ModelBudget

A caller checks the tenant's and the workspace's use against the limit, calls the model,
adds its use to the workspace's row of the month, commits, and announces the crossings it
saw (`ComparesTenant`, `ComparesWorkspace`, `Calls`, `Adds`, `Commits`, `Tells`), each its
own step because nothing is reserved in between. `Dies` may lose the rest. The row of a
workspace is locked from the upsert to the commit (`RowFree`); the tenant's sum locks
nothing. `MonthEnds` may come anywhere. Limits change (`SetLimit`); `peak` is a history
variable, the highest limit of the month.

A behaviour is about limits of tokens or about limits of cost (`kind`). Tokens are whole
numbers, and a call finds exactly the shares it crosses (`Crossings`). Of a cost the code
takes `before = after - delta` in floats, from a total that is stored with eight places
and a cost that is not rounded, and compares it with a share of the limit in floats
(`model_budget.py:378`, `budget_alerts.py:30`). Limits have six places, so every share is
a multiple of the total's smallest unit, and what can go wrong is a comparison of equals
(`Ties`): `Found` lets those come out either way.

Left out: the cap of a single agent (one more scope of the same kind), the emergency
stop, both limits at once, calls cheaper than the smallest unit, the in-memory store (its
lock makes atomic what interleaves here).

### EventDelivery and EventOutbox

`EventDelivery` says what publication promises: only committed events are sent, each is
sent or parked, nothing is taken back. `EventOutbox` has the rows' marks (due, backing
off, published, parked), one pass per relay with the rows it has locked
(`FOR UPDATE SKIP LOCKED`), what it has sent and what was refused, and the bus with its
window of remembered ids (`recent`). `Publish`, `PublishFails` (with or without the bus
having taken the event), `Reject`, `Finish`, `Abort` (a death, a lost database: the
transaction rolls back, the bus does not) are `relay_once`. A published event outside the
window is taken again.

Events are numbered in the order of their commits; see the first bullet about events in
[Disagreements found](#disagreements-found) for the difference to the order in which the
API lists them.

### EventStream

All of `EventOutbox`, and one API process that serves one tab. `hub` is its bus connection,
subscription (`start`: new messages only) and how far the bus has fed it; `live` follows
the connection a second late (`Mirror`). `stream` is `live_event_source`: it listens
before it lists (`Open`), lists and shows the history (`Lists`, `Shows`), then takes from its queue
(`Take`), goes idle (`Idles`) or catches up again when the queue overflowed or the hub is
not live (`CatchesUp`). `client` keeps what the tab was shown; when the connection breaks
(`Breaks`) it comes back with the last id it received. A hub that never subscribes is one whose
connection to NATS does not come up: its streams only list.

Left out: a process without a bus (`ANUM_EVENT_BUS=memory`), whose streams are a polling
generator of `main.py` of their own; which events a person may see (the same filter on
both paths); keep-alives.

## What the runs check

| Run | Instance | Distinct states |
|---|---|---|
| `TaskRuns_safe` | a request and a chat, 3 run rows of which the limit allows 2, 1 approval, dying processes | 1.4 million |
| `TaskRuns_live` | two requests, 2 runs, 2 approvals, nobody dies | 339 thousand |
| `ConnectorTasks_safe` | a request, a sender and a draft, 2 runs, 2 approvals | see the run |
| `DurableRuns_live` | two worker slots, 2 runs, 1 approval, 1 lost attempt | 496 thousand |
| `DurableRuns_handoff` | the same with an automation's hand-off and a chat | see the run |
| `ApprovalChain_safe` | six people, 2 approvals, 4 rulebooks, 2 changes | 70 thousand (symmetry) |
| `AutomationRuns_live` | task, note, pause and email steps, 2 runs, 2 attempts, 3 agent tasks, 1 fault | 517 thousand |
| `AutomationRuns_UnfinishedWork` | 1 run, 2 agent tasks, 1 fault | a counterexample |
| `ModelBudget_safe` | tokens and cost, 2 workspaces, 2 callers, 2 months, 1 changed limit, 1 death | 1.1 million (symmetry, view) |
| `EventOutbox_live` | 2 relays, 3 events of which one is refused, batch 2, 2 faults | 25 thousand |
| `EventStream_live` | 1 relay, 2 events, queue 1, memory 1, 1 fault | 146 thousand |

### Inline

`TaskRuns_safe` (a request and a chat; the chat's `_reset_unrun` does not know whose claim
it resets):

- `OnlyLatestOpen`, `PendingIsAwaited`, `WaitingIsDecidable`, `StatusAgrees`: the rows
  fit together in every state. `begin_execution` does not look at the run's phase when
  it is given an approval; `PendingIsAwaited` is why it need not.
- `OneWorker`: two requests never both settle one execution, however takeovers,
  continuations and quiet failures overlap.
- `ToolCallsBacked`: counted over the whole history, a run's handler is reached at most
  once for the policy's go-ahead plus once per approval.
- `ToolCallsAuthorised`: each call that reaches a handler is the approved call under an
  approval that stands, or a first call that policy let through.
- `ArchivedIsIdle`: an archived task has no open run and nothing pending.
- `WithinRunLimit`: the limit is counted at the claim and the run stored at apply.
- `EndedRunsStay`: a finished run is never rewritten.
- `EndedTaskNeedsClaim`: a late release or reset never revives a finished task.

`TaskRuns_live` (`MayDie = FALSE`, two requests, two approvals so that an approved call
may continue into another one): `RunningEnds`, no claim is left behind.
*Fairness*: each request's planning, applying, tool, settling and clean-up steps are
weakly fair. The code justifies it: the model call and the tool call have timeouts and
both answers and exceptions are handled, units run in threads that nothing cancels, and
only a dying process (excluded here) stops them. No fairness is assumed of people: a
decision, a cancel or a retry may never come.

### Connectors

`ConnectorTasks_safe`: with a sender that settles without looking, `ToolCallsBacked` and
`ToolCallsAuthorised` still hold. The invariants of the rows, and `EndedRunsStay`, do not
(see [Disagreements found](#disagreements-found)) and are not claimed.

### Durable

`DurableRuns_live` (two worker slots, a lost attempt, 2 runs, an approval, retry, resume,
queueing requests that roll back): `OnlyLatestOpen` and `PendingIsAwaited` of the rows, and

- `NeverRepeated`: a call that is not idempotent reaches its handler once at most,
- `HandlerRunsTheCheckpoint`: the second unit compares the phase only, not the version
  as the inline runner does; yet no attempt executes a call from stale memory,
- `CompletedRunsStay`: no late attempt rewrites a completed or cancelled run,
- `OpenRunIsServed`: an open run has the open workflow that moves it, and the task row
  tells what it does. A queueing request that rolls back leaves a workflow that knows no
  run: a retry replaces it, only a first run that is queued again reuses it (`Orphaned`,
  see below);
- `RunSettles`: every run but that one ends or waits for a pending approval.

*Fairness*: a queueing transaction ends (it commits, or has rolled back), Temporal
schedules an attempt when one is due and a slot is free, workers execute, and a waiting
workflow wakes (its wait has a timeout). All weak. With at most `MaxLosses` lost attempts;
with unboundedly many, nothing can settle.

`DurableRuns_handoff` adds automation hand-offs and chats. Those
break the invariants about one open run (see below); what a reader should know is what
they do *not* break: `NeverRepeated`, `HandlerRunsTheCheckpoint`, `HandlerIsAuthorised`.

### Approvals

`ApprovalChain_safe`:

- `DelegatedWithinLimit`: what people who are no owners approve of one task stays, taken
  together, within the largest delegation, in whatever order approvals are asked for,
  decided, dropped, and rules are edited.
- `DecidedByEnough`: an approval is approved only by as many different people as the
  rules of that moment ask for, never last by the person who asked while two people are
  needed.
- `RoutedViewIsTrue`: what the card of a routed approval shows (`_routing_view`) is what
  a decision answers, in every state.

### Automations

`AutomationRuns_live`:

- `OneActiveUnderSkip`: one active run, whatever is paused, waits or is retried.
- `StepsAreBacked`: a run is past a step only because a task of that step's last attempt
  completed; no late, repeated or misplaced report moves it on.
- `EndedRunsStand`: nothing late changes a run that ended.
- `RunsMoveOn`: a running run settles, pauses, or comes to wait for a person: to decide,
  or to see to a task whose process stopped in the middle of its run.

`AutomationRuns_UnfinishedWork` is the promise of the documents, without that last
exception, and fails.

*Fairness*: each process's dispatcher goes on, time passes (a step grows stale, and the
scheduler of some process looks at a run whose wake-up is due), and an agent run that
somebody is at ends or asks (`TaskEnds`, `TaskReturns`): its model and tool calls answer
or time out, and a durable one outlives its worker (`RunSettles`). A run nobody is at
(`stranded`) does nothing by itself: `RunningEnds` needs processes that do not die, and
no fairness replaces them here. What a person does (a decision, a takeover, a retry) may
never come. At most
`MaxFaults` crashes and errors; a job is handed out again at most while `MaxCopies`
copies of it are at large (a bound of the model on `GoesStale`).

### Budgets

`ModelBudget_safe`:

- `WithinOvershoot`: no scope passes its highest limit of the month by more than one call
  of each caller, although scopes are read one after the other, limits change and the
  month rolls over in between.
- `CrossedOnce`: a share of a workspace's limit of tokens that was reached, of a limit
  that was not changed, has been announced exactly once, or is about to be, or was lost
  with a process that died. The tenant's limit and limits of cost are excepted, see below.

What is announced of a cost guards no action and no property speaks of it, so the run's
view leaves it out.

### Events

`EventOutbox_live`: `MarkedIsOnBus` (a mark tells the truth), `CopiesAreFaults` (racing relays never duplicate; every copy beyond the
first was paid for by a fault), `DeliversOnlyCommitted` (the refinement of
`EventDelivery`) and `EventsLeaveTheOutbox` (every event is published or parked).
*Fairness*: weak, of every relay's pass and of the end of a back-off. `Abort`,
`PublishFails` and a closed window stay optional and are bounded by `MaxFaults`.

`EventStream_live`: `NothingElseMissed` (an open stream misses nothing but an event
overtaken by a later one, or what fell in the subscription gap), `SentOnce` (a
connection never receives an event twice while it remembers its ids) and `EventsArrive`.
*Fairness*: the relays', and weak fairness of the reconnecting bus client, the mirror
loop, the dispatch, and of the stream's own steps, browsers reconnecting included.
`Subscribe` is not fair: NATS may stay out of reach.

### Bounds

| Bound | Value | Why it is enough |
|---|---|---|
| `Reqs` | 2 (one a chat in the safety run) | every interference found is between two requests: one holding a claim or execution, one that takes, cancels or settles it; routes (cancel, decide, archive) need no slot of their own |
| `MaxRuns`, `RunLimit` | 3 and 2 (2 and 2) | first run and a retry; the third row is room to exceed the limit |
| `MaxApprovals` | 1 (2 for liveness and connectors) | a retry's approval is asked for when the first run's was not; two allow a continuation's beside it |
| `Workers`, `MaxLosses` | 2, 1 | a late attempt beside its successor |
| `Idempotent` | {2} | the first run is not repeatable, the retry is |
| `People`, `Rulebooks` | 6, 4 | the requesting owner, three more owners (a chain of three without the requester), a member with a delegation, an organization administrator; a delegation, a smaller one, a chain of three, and two people beside a delegation |
| `Approvals`, `Amounts`, `MaxChanges` | 2, {2, unknown}, 2 | two approvals of 2 exceed the delegation of 3 that one keeps; a change and the change back |
| `Steps`, `MaxAttempts`, `MaxTasks`, `MaxCopies` | 4, 2, 3, 2 | every kind of step once; a retry; a task too many; a stale copy beside its successor |
| `Callers`, `Limits`, `MaxCost`, `MaxUsed` | 2, {3, none} from 1 and 2, 2, 2 | two calls of two workspaces at one tenant limit; a call that crosses two percentages at once |
| `Relays`, `MaxEvents`, `Batch`, `MaxFaults` | 2, 3, 2, 2 (1, 2, 2, 1 for streams) | a relay that skips another's rows, a batch with a refused event in it, a lost pass and a lost answer |
| `QueueSize`, `SeenLimit` | 1, 1 | the second event overflows the queue and pushes the first out of the memory |

`MaxApprovals` stands in the guard of `PauseForApproval`; the alternative of a blocked
continuation keeps the system from stopping there. `TakeClaim` and `Queue` are guarded
by `latest < MaxRuns`. Symmetry is used in safety runs only (workers, owners, approvals, callers). The theorems below hold for every value of these bounds.

Type invariants: all are proved. Those of `TaskRuns`, `ConnectorTasks` and `EventOutbox`
are not model-checked again; those of the other modules are the first conjunct of one
invariant each (`OpenRunIsServed`, `NothingElseMissed`, `DelegatedWithinLimit`,
`OneActiveUnderSkip`, `WithinOvershoot`).

Every property has a mutant in `PROJECT.json`: a plausible bug in one definition that
makes it fail in the same run. The mutated forms stand above the definitions they
change, marked "Mutant of".

## Disagreements found

Two runs end in a counterexample; the quoted lines are in `PROJECT.json`.

`TaskRuns_CancelledClaimStops`: `_locked_claimed_task` compares status, archive and
newest run, not the claim. Cancel followed by Retry restores all three, so the cancelled
request executes its plan and the retry is refused.

`AutomationRuns_UnfinishedWork`: `docs/automation.md:88` says that "work that a process
could not finish is picked up by the scheduler pass". `advance_state` hands out a task
again only while it is `created` (`automation.py:1209`), but the dispatcher awaits the
inline run. A process that dies during it leaves the task running or executing; every
later look of the scheduler finds it so and sets the next wake-up, until a person takes
the task over, retries or cancels it.

What else a reader of the models will meet, where the code does not do what a document
or comment beside it says; no property claims these.

Runs:

- `finish_execution_in_units` saves its own copies, so a cancel during a direct send is
  overwritten (`SaveOwnCopy`, `SettleSend`; `runtime.py:1213`, against
  `docs/agent-controls.md:16`).
- Retiring a draft's task expires only the approval the draft remembers; a newer one stays
  pending on the cancelled run, and approving it executes that run (`Retire`;
  `developer.py:995`, against `docs/tasks.md:18`). `begin_execution` relies on
  `PendingIsAwaited`, which connectors break.
- `run_task_for_automation` checks the task without its row lock: while a Run is
  queueing, the task gets a second open run without a retry, which the workflow of the
  first serves (`HandOffReads`, `HandOffQueues`; `main.py:1555`).
- The workflow starts before the commit; a Run after a rollback reuses it, and its run
  stays queued for ever (`QueueAborts`, `Orphaned`; `main.py:1519`, against
  `docs/agent-runtime.md:51` and the comment of `RunDispatcher.start`, which replaces the
  workflow for a retry so as not to "leave the new run queued forever").
- A takeover of an expired claim remembers "running" as the status to restore, so a
  failed takeover whose predecessor died leaves the task claimed by nobody for another
  lease (`TakeClaim`, `Release`).
- `_reset_unrun` resets any unrun task, so a chat that stopped can take away the claim of
  a person's Run, which is then refused at apply (`ResetUnrun`).
- The hand-off and the chat do not look at `archived_at` when they claim, so an archived
  task can be set running; the plan is refused by `_locked_claimed_task`
  (`ClaimHandOff`, `ArchivedIsIdle`).
- `chat_tools._queue_durable` does not look at the task's status, so a task cancelled
  before its chat queued it is queued and executed (`QueueChat`).
- `advance` looks at the task's status before the run's, so a late attempt of a failed
  run may rewrite it as cancelled (`AdvanceStopped`); a completed or cancelled run is
  never rewritten (`CompletedRunsStay`).

Approvals:

- Recorded approves count for whatever step stands at their position in the chain of the
  moment. When the rules are edited between two approves, a chain can complete without
  anybody eligible having approved one of its steps, or with one who would by now be
  refused (against `docs/approvals-and-risk.md:151`). A requirement lowered below what is
  already recorded decides nothing by itself: the approval needs one more person or its
  expiry.
- A route of explicit steps does not become a two-person route by `minimum_approvers`;
  only the default steps do (`TwoPersonRoute`).

Automations:

- `request_email` asks to send in one transaction and links the draft to the task in
  another; a stale copy of the job between them asks again, and two approvals of one email
  are pending (`AskToSend`, `LinkDraft`; against `docs/automation.md:88` and the comment
  at `automation_dispatch.py:19`). A job still queued when its run is cancelled asks too
  (against `docs/automation.md:90`).
- A step that is retried leaves the task of its failed attempt alive (`RunTask`);
  `StepsAreBacked` says that this task never moves the run.

Budgets:

- "Crossings of a workspace limit are exact" and are announced "never a missed one"
  (`docs/model-gateway.md:145`, `:152`), but not of cost (`Ties`, `Found`). A limit of USD
  1.00 of which exactly 0.50 is used has announced 50%; a call of 0.20 gives
  `0.7 - 0.2 = 0.49999999999999994` and announces it again. Of a limit of USD 0.10, 0.075
  is used: `75 / 100 * 0.1` is `0.07500000000000001`, so that 75% is not announced, and
  after a call of 0.20 `0.275 - 0.2` is the same number, so that it never is.
- Two calls of two workspaces that finish at once each add to a sum that lacks the other,
  and both may miss the crossing of the tenant's limit (against
  `docs/model-gateway.md:152`, "never a missed one"); `CrossedOnce` covers workspaces
  only. A process that dies between the commit and the notice loses it, and a limit that
  is lowered below the use is never announced.

Events:

- Events are listed by `(created_at, id)` but become visible at their commit; a stream
  that lists in between passes over an event with an earlier stamp. The bus still tells a
  subscribed process of it. The model numbers events by commit and keeps what is left of
  this, an event that is *published* after a later one was listed, as the first exception
  of `NothingElseMissed`.
- A stream that is up to date before its process first subscribes misses what is
  published before the subscription (new messages only) and is not told to list again
  (against `docs/realtime.md:26`): the second exception.

## What is proved

Every invariant and action property that a passing run checks is a theorem here, for every
value of the constants; five of them under a hypothesis that is stated beside them. The runs show
each property on a small instance first, and their mutants that the code could break it.
What the theorems rest on beside the named assumptions of the modules (which TLC
evaluates on every run) is nothing but the definitions.

Sums, maxima and listings are folds, and what a fold computes has to be proved by
induction over sets. That induction is done by hand: among the finitely many subsets for
which a statement fails, take one with the fewest elements (`SmallestSet`, from the
library's well-foundedness of the naturals), and remove an element.

### AgentRuntimeProofs

The effect of `Proposed`, `Executing`, `Waiting`, `EndedAs`, `Save`, `PauseForApproval`,
`SettleOutcome` and `CancelRows` on single fields, and that they keep the types. Both
kinds of runs are proved from these lemmas, so that no leaf there unfolds nested
`EXCEPT`s.

### TaskRunsProofs

For every set of requests and chats, every number of runs and approvals and every loop
limit:

| Theorem | Statement |
|---|---|
| `TypeCorrect` | `Spec => []TypeOK` |
| `OneOpenRun` | `Spec => []OnlyLatestOpen` |
| `DecisionsMeetTheirRun` | `Spec => []PendingIsAwaited` |
| `WaitingCanBeDecided` | `Spec => []WaitingIsDecidable` |
| `StatusIsTrue` | `Spec => []StatusAgrees` |
| `LoopLimitHolds` | `Spec => []WithinRunLimit` |
| `EndedStays` | `Spec => EndedRunsStay` |
| `ExecutionsHaveOneWorker` | `Spec => []OneWorker` |
| `HandlerCallsAreBacked` | `Spec => []ToolCallsBacked` |
| `HandlerCallsAreAuthorised` | `Spec => ToolCallsAuthorised` |
| `ArchivedTasksRest` | `Spec => []ArchivedIsIdle` |
| `EndedTasksRest` | `Spec => EndedTaskNeedsClaim` |

Assumptions: `BoundsAssumption` (a run row exists) and `ReqsAssumption` (chats are
requests, the limit is positive), which TLC evaluates on every run.

The argument. None of the four store invariants is inductive alone: `OnlyLatestOpen`
fails when a request applies over an open run, so one must know that whoever holds a
claim saw the newest run *ended* (`ClaimsSawTheEnd`: `prev = latest` implies that run
has ended), and `WithinRunLimit` needs that each claim in flight left room for its run
(`RoomForClaims`). A settle or a decision writes to a run by number, so it must be the
newest: that follows from `OnlyLatestOpen` and, for decisions, `PendingIsAwaited`. The
inductive invariant is therefore

    RunsInv == TypeOK /\ StoreInv /\ ClaimsSawTheEnd /\ RoomForClaims /\ WithinRunLimit

with `StoreInv` the four store invariants and `Unborn` (rows beyond the newest are
untouched). The proof has one lemma per kind of
write (apply, settle, fail, decide, cancel), each over an arbitrary store, and one step
per action that reduces to them; the operators' effect on single fields is stated in
`RunFields`, `TaskFields` and `ReqFields` so that no leaf unfolds nested `EXCEPT`s.

The last five theorems are about what requests remember of rows that others go on
writing. Their invariant is

    WorkInv == RunsInv /\ VersionsSeen /\ OneEach /\ CallsBacked({}) /\ ArchivedIsUnapplied

A request settles a run at a version that run has reached (`VersionsSeen`), and no two at
the same one (`OneEach`): whoever starts an execution writes a version nobody has seen,
which is why `_locked_executing_run` may compare versions. `ToolCallsBacked` counts; it is
not inductive, because a request that stands before its handler will raise the count. So
`CallsBacked` gives every such request an *authority* of its own, policy's go-ahead for
the run or one approved approval of it, that no other request holds (`AuthoritiesHeld`),
and says that the calls already made are no more than the authorities that nobody holds
(`CallsPaid`). An approval becomes an authority in the very unit that hands it to one
request, and `approved` is never taken back (`DecisionsStand`).

### ConnectorTasksProofs

For every number of requests, runs and approvals beside the direct send or the draft:

| Theorem | Statement |
|---|---|
| `ConnTypeCorrect` | `ConnSpec => []ConnTypeOK` |
| `ConnCallsAreBacked` | `ConnSpec => []ToolCallsBacked` |
| `ConnCallsAreAuthorised` | `ConnSpec => ToolCallsAuthorised` |

The steps of `TaskRuns` are `TypeStep` of `TaskRunsProofs`; what remains are the sender's
saves of its own copy and the retirement. `RunsInv` does not hold here (the sender
overwrites cancelled rows, see above), so the authorities are carried on without it:
`CallsBacked` takes as a parameter the authorities held outside the requests, and
`ConnInv` says that while the sender is sending it holds policy's go-ahead for run 1.

### DurableRunsProofs

For every number of workers, runs, approvals and lost attempts:

| Theorem | Statement | Hypothesis |
|---|---|---|
| `DurableTypeCorrect` | `Spec => []DurableTypeOK` | |
| `CallsAreNeverRepeated` | `Spec => []NeverRepeated` | |
| `HandlersRunTheCheckpoint` | `Spec => HandlerRunsTheCheckpoint` | |
| `DurableHandlersAreAuthorised` | `Spec => HandlerIsAuthorised` | |
| `DurableOnlyLatestOpen` | `Spec => []OnlyLatestOpen` | `NoHandOver` |
| `DurablePendingIsAwaited` | `Spec => []PendingIsAwaited` | `NoHandOver` |
| `EndedRunsStay` | `Spec => CompletedRunsStay` | `NoHandOver` |
| `OpenRunsAreServed` | `Spec => []OpenRunIsServed` | `NoHandOver` |

The hypothesis is where the code stops keeping the property. `NoHandOver` (no automation
step hands the task over, `Automations = {}`): `HandOffReads` reads the task without its
row lock, and what it saves later gives the task a second open run, see
[Disagreements found](#disagreements-found). `DurableRuns_live` checks an instance
with the hypothesis, `DurableRuns_handoff` one without. Chats, which queue
without looking at the task's status, and queueing transactions that roll back are
allowed throughout.

The argument has three layers. Every action is first shown to be a `GoodStep`: it keeps
the types, does to each run one of six things (`Moves`: keep, end, bear, propose, pause,
start), leaves given approvals alone (`DecisionsStand`), and moves the transaction, the
workflow and the attempts in one of three ways (`Books`). Then everything follows from
`GoodStep` alone:

    DurableInv == Bounded /\ Placed /\ SecondUnits /\ ExecutingIsAuthorised /\ ReachedOnce

An attempt in its second unit works on a run that has ended or still executes exactly the
call it remembers, alone (`SecondUnits`); and for a run that is not idempotent no handler
was reached yet for a call that is still ahead, or that an attempt is about to make
(`ReachedOnce`). Runs never propose more calls than approvals were asked for plus one
(`Bounded`), which keeps the calls within the type.

`RowsInv` (a task row that tells what its newest run does, ended or not; a run is
followed only when it failed or was cancelled) is inductive without hand-overs, although
a queueing transaction is open while others wait, and `ServedInv` adds that the
workflow belongs to the newest run or the one about to commit (`Served`), unless it was
left by a request that rolled back (`Lost`), and that an attempt reports an end only of a
run that has ended (`AttemptsServe`): a workflow completes on such a report, and then
needs no successor. An attempt of a workflow that was left knows no run to end.

### ApprovalChainProofs

For any people, number of approvals, amounts, rulebooks and edits:

| Theorem | Statement | Hypothesis |
|---|---|---|
| `ChainTypeCorrect` | `Spec => []ChainTypeOK` | |
| `RoutedViewsAreTrue` | `Spec => []RoutedViewIsTrue` | |
| `DecisionsAreEnough` | `Spec => DecidedByEnough` | |
| `DelegatesStayWithinLimit` | `Spec => []DelegatedWithinLimit` | `DelegationsAreLimited` |

Assumptions: `ChainAssumption`, and `RulebookAssumption`: approvals and rules are finitely
many, rules have the shape of `GovernanceApprovalRule`, and nobody is called like a role
(the code prefixes people with `user:`). `DelegationsAreLimited` says that the last step of
a rule without `amount_at_most` names owners only. Otherwise an administrator has left every amount
to delegates, and there is no limit to stay within; the code allows such rules.
`MCApprovalChain` assumes it of its rulebooks, where TLC evaluates it.

The argument. `CanApprove` leaves out two things that the refusals ask, that the decider
belongs to the workspace and that a delegation covers the step; both follow because every
step of a merged route asks for somebody (`RouteSteps`) and whoever a step asks for is
invited (`EligibleAreInvited`). For `DecisionsAreEnough` nobody is recorded twice
(`ChainInv`), so an approval that completes has as many different people as positions,
and positions as many as the chain of the moment. For the limit, the invariant
`LimitInv` names one limit for the sum (a maximum of nothing is no number); the delegate who
completes an approval stands at the last step, which contains the last step of a longest
applicable rule, which therefore has a limit that the total keeps (`LastIsLimited`); the
total counts every approved approval, and a sum of amounts only grows with the set
(`SumIsMonotone`). Steps that decide nothing leave approvers and approved amounts alone
(`Undecided`).

### AutomationRunsProofs

For every workflow (any sequence of task, email, pause and note steps), overlap policy,
set of processes and number of runs, agent tasks, attempts, copies and faults:

| Theorem | Statement |
|---|---|
| `AutoTypeCorrect` | `Spec => []AutoTypeOK` |
| `OnlyOneIsActive` | `Spec => []OneActiveUnderSkip` |
| `EndedRunsStay` | `Spec => EndedRunsStand` |
| `StepsStayBacked` | `Spec => []StepsAreBacked` |

Assumption: `AutomationAssumption` (a workflow has steps, a step an attempt), which TLC
evaluates on every run.

The argument. The types need to know a little of each row: that a row that waits runs, at
a step and an attempt of the workflow, and that one that waits for its retry has an
attempt left (`RowOK`), and that a dispatcher at work has a job (`Busy`). From this,
every step but the start of a run leaves the rows of all runs that are not active as they
are (`Stand`), which is nearly all of the first three theorems.

`StepsAreBacked` speaks of the past; to carry it on one must exclude that something still
about could undo it. `StepInvariant` therefore says that every task and every job, queued
or at work, is of an attempt its run is at or has been at (`Begun`); that rows, reports
and drafts only name tasks of the very attempt they are about (`RowLinked`, `WorkLinked`,
`DraftLinked`), which is what makes a late report harmless; and that the attempts of the
jobs still about do not exceed that of the task that completed a passed step (`Backed`),
so that a stale copy of an email job cannot add a later task to it. `Grown` is what all
actions have in common: tasks keep their attempt, what is new is of the attempt a run is
at or of a job's, and a run goes ahead past backed steps only. Each action is shown to be
`Grown`, and `Grown` to keep the invariant.

### EventStreamProofs

First the outbox, for every set of relays, number of events, set of events the bus
refuses, batch size and number of faults; then a stream above it, for every size of its
queue and of its memory:

| Theorem | Statement |
|---|---|
| `OutboxTypeCorrect` | `OutboxSpec => []OutboxTypeOK` |
| `RowsAreClaimedOnce` | `OutboxSpec => []OneClaim` |
| `MarksAreTrue` | `OutboxSpec => []MarkedIsOnBus` |
| `CopiesArePaidFor` | `OutboxSpec => []CopiesAreFaults` |
| `OutboxDelivers` | `OutboxSpec => DeliversOnlyCommitted`, that is `Delivery!Spec` |
| `StreamInvHolds` | `Spec => []StreamInv` |
| `StreamsMissNothingElse` | `Spec => []NothingElseMissed` |
| `StreamsSendOnce` | `Spec => []SentOnce` |

The argument for the outbox. A mark is written at the end of a pass from what the pass remembers, so one
must know that what it remembers is true: `PassInv` says of each relay that the rows it
holds are committed and due, and that those it will mark published are on the bus;
`EventInv` says of each event that it came to the bus only committed and publishable, and
that what is published or remembered by the window is there. With `OutboxTypeOK` and
`OneClaim` this is inductive (`OutboxInv`). The refinement maps `sent` to the events on
the bus and `parked` to the parked marks: `Commit` is `Record`, an accepted publish is
`Send` or, for a copy, a stutter, and `Finish` is `Park`; everything else stutters. That
an event is never both sent and parked is `EventInv`. For the copies, `CopiesInv` counts
them event by event: an event nobody has settled yet has at most as many copies as there
were faults, one that is settled (marked, or acknowledged in the pass that holds its row)
at most one more; by `OneClaim` no second pass can bring it back.

The argument for the stream. Every step of `EventStream` takes a step of the outbox or
leaves it alone, so `OutboxInv` stays. To it `StreamInv` adds that the consumer stands at
or before the end of the bus (`HubInv`), that the generator sent what it remembers
(`SeenIsShown`), that a listing starts behind the cursor (`ListsAhead`), and that every
committed event is shown, behind the cursor or *coming*: in the listing, in the queue,
ahead of the consumer, still to be published, or, when the queue has overflowed, to be
listed again (`NoneMissed`, `OnItsWay`). Draining the queue loses what is in it, which is
why the code must list after it drained and not before. `SentOnce` needs its own
invariant: until a connection has received more than the generator remembers, what it
remembers is exactly what it received, each event once (`Recalled`). A page of events is
a sequence that lists a set in order. `InOrder` defines it by ranks, because the
community modules' `SetToSortSeq` takes the order as an operator and sorts with `TLC`'s
`SortSeq`, which the provers know nothing about.

### ModelBudgetProofs

For every number of workspaces and callers, every cost, limit, percentage and number of
months, changes and deaths:

| Theorem | Statement |
|---|---|
| `OvershootIsBounded` | `Spec => []WithinOvershoot` |
| `CrossingsAreExact` | `Spec => []CrossedOnce` |

Assumptions: `BudgetAssumption` and `FirstAssumption` (the first limits are amounts or none),
which TLC evaluates on every run.

The argument. The usage that was recorded says nothing about the calls under way, so
`OvershootInv` keeps, for each scope, room for them: use plus one call of every caller
that has passed the check of this scope stays below the highest limit plus one call of
every caller (`ScopesKeepRoom`). A check passes only below a limit that is at most the
highest of the month; a record moves one caller from the calls under way to the use; use
of past months stays (`MonthsPassed`). The tenant's use is a sum over workspaces, of which a record changes
one summand. `CrossingInv` says that while a caller's row is locked what it read is the
row (`RowIsLocked`, `SeenIsTrue`), and that a threshold of a workspace has been announced
if and only if the use has reached it, unless its limit was changed. It is inductive for
tokens only (`TokenCrossings`); for cost (`Ties`) and for the tenant (the row lock is the
workspace's) the statement is false and not claimed.

### Only model-checked

The liveness properties (`RunningEnds`, `RunSettles`, `EventsLeaveTheOutbox`,
`EventsArrive`, `RunsMoveOn`): liveness under fairness and `ENABLED` are outside what the
prover does. And what the hypotheses above exclude: with hand-overs `DurableRuns_handoff`
checks only what still holds, and that is proved, too.

## Not modelled

`PROJECT.json` gives the reason for each part. In groups:

- *Systems of their own beside the agent runs*, with their own concurrency: live meetings
  and calls (turn leases, provider callbacks), the broker orders of `finance/`, the
  publishers of `marketing/` and `commerce/`, the mailbox. They share no rows with the
  models here, except through the tasks they create, which `ConnectorTasks` covers.
- *Leased jobs over data*: tenant export and purge, secret rotation, retention. One lease
  or compare-and-set each; what can go wrong is in the data of some hundred tables.
- *Pure rules*: policy verdicts, autonomy levels, retrieval, memory, skills, prompts. A
  free choice in the models.
- *Provider I/O, layout, clients, generated contracts, record keeping* with single-row
  transactions: most of the lines of the repository.
- *Left out of modelled parts*: the sections above, module by module. In particular
  `api/idempotency.py` is imported by nothing but its test, and `api/valkey.py`'s run lock
  is optional and expires, so that the runs are checked without it.

Of the theorems, the ones worth adding next are those that say more than a run checks: what
a hand-over may and may not break of `RowsInv`, and an abstract specification of one
task's runs (planned, waiting, called, ended) that both `TaskRuns` and `DurableRuns` implement.
