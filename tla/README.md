# boring_agent in TLA+

A verification development for `boring_agent` (the `boa` command): TLA+ models
of its durable task core, of the opening, migration and retention of its store,
of its workflows and native sessions, of its calls to model providers and the
consented probes that discover them, of the supervisor that stops an ACP agent,
and of the operator's driver of a Coddy session with its idle watchdog. They are
model-checked with TLC on small instances. Every safety invariant and action
property checked there is also proved with TLAPS for every instance, and so are
three contracts: what the task core promises its callers, a workflow its owner,
and the session lifecycle its jobs. The models are translated from the Python
sources under `src/boring_agent` and `src/tools/coddy_driver`; where the code
and its documentation differ, the code is what is modelled.

## 1. The system

All durable state is one SQLite database per home directory. Every write is a
`BEGIN IMMEDIATE` transaction (`Store.transaction`), so writers are serial; a
reader sees a consistent snapshot. What makes the system hard is everything
*between* transactions: separate processes, each of which can die at any point.

| process | how many | guarded by | what it does |
|---|---|---|---|
| callers (CLI, HTTP API) | any | - | submit, cancel, workflow and session commands |
| manager | one | flock `manager` | `Manager.tick`: sweep, settle, admit; validates results outside the transaction |
| worker | one per id | flock `worker:<id>` | `Worker.tick`: heartbeat, launch runner processes, relaunch with backoff |
| runner | detached, maybe several per attempt | flock `attempt:<id>` | claims its attempt, works, reports by sequence number |
| operator | - | - | resolves an `Unknown` attempt after confirming the work stopped |

### Components

| component | state | operations | hard behaviour | correct when |
|---|---|---|---|---|
| Task store and commands (`store.py`) | tables tasks, attempts, workers, commands, outbox, events | submit, cancel, register/heartbeat worker, observe, resolve | repeated commands, late and reordered reports | one key binds one task for good; a report changes only a current, open attempt, in sequence |
| Manager (`manager.py`) | round-robin cursor; in memory, its list of validations | tick (sweep, settle, schedule), validate and settle | stop intents against successes being validated, worker and runner loss, limits inside one tick | see section 3 |
| Worker (`worker.py`) | children and launch counts in memory | register, tick | restart forgets children; relaunch of a crashed launch | an attempt runs at most once |
| Runner (`runner.py`) | Controller: sequence, tokens | claim, checkpoint, report, request, publish | crash at any point, provider calls whose outcome is unknown | no effects before the claim, none after being overruled, budget respected |
| Process identity, locks (`process.py`) | /proc start time, flock | identity, alive, lock | pid reuse, unreadable /proc | a lost runner is never taken for a finished one |
| Artifacts (`artifacts.py`) | result files | publish, read, prevalidate, checksum | file replaced between validation and settlement | a rejected result never succeeds a task |
| Retention (`store.py`) | tombstones, retention_intents | expire_artifacts, retain, capacity | crash between the phases of a deletion | a purge resumes; a kept key still answers |
| Migration (`store.py`) | user_version, schema_migrations | connect, _migrate | two openers, crash after the intent | exactly one migration |
| Workflows (`workflows.py`) | roots, children, dependencies, usage | create, settle_plan, replan, deliver, claim_attempt, record_usage | replanning a launched child, shared budgets, failed dependencies | budgets shared by all children hold; handoffs delivered once |
| Session lifecycle (`session_lifecycle.py`) | sessions, runs, jobs, warm-up steps | ensure, register, warm, start, complete, retry, recover, transfer | restart during a warm-up, late results, two jobs on one session | a completed warm-up step is never repeated; a session runs one job |
| ACP policy, cancellation (`acp.py`) | the supervisor's stage | plan isolation, negotiate, cancel/poll | two kinds of evidence, late polls | cancelled only on both kinds of evidence |
| Parent watchdog (`parent_watchdog.py`) | idle episode | start, record progress, poll | one decision per episode, while three threads report progress | never two decisions for one episode |
| Discovery (`discovery.py`) | inventory, approvals, evidence | approve, authorize, handshake, generative, record | a file, a route or an environment that differs from, or changes after, the approval | only what was approved is executed or sent a credential |
| Providers (`providers.py`) | permission mode read last | complete, command, session snapshot, ensure, set mode | cut streams, errors after side effects, modes changed by others | what may have had effects is never called temporary or complete; a mode only narrows |
| Coddy driver (`tools/coddy_driver`) | what it has seen of turns and background tasks of an external server | launch, attach, supervise, poll, follow, escalate, finish | server loss and return, turns that wake, cut streams, four threads | an outcome other than unknown speaks of work that is over |
| API, CLI, validation, workspace tools | - | parsing and rendering | - | pure input and output |

How the components meet: callers and the manager share nothing but rows;
`worker` learns of an attempt by reading it as Queued; `runner` and `manager`
meet in the attempt row (`desired_action` one way, `sequence` and outcome the
other) and in the result file; `retain` deletes rows and files that callers may
still name; `runner` calls the session lifecycle before it talks to a native
agent, and a provider for every step of its work; `discovery` makes the same
provider calls, once per probe; every process opens, and may migrate, the same
file. The driver is a tool beside all this: it talks to a Coddy server alone.

## 2. Modules

| module | role |
|---|---|
| `TaskLifecycle` | the task core: store, manager, workers, runners, result files |
| `TaskProperties` | its type invariant, safety invariants, action properties, liveness |
| `TaskContract` | what the core promises callers, with neither rows nor processes |
| `TaskRefinement` | the mapping under which `TaskLifecycle` implements `TaskContract` |
| `MCTask` | the instances of the task core that TLC checks |
| `TaskProofs` | every safety and action property of the task core, and the refinement |
| `SumLemmas` | sums over finite sets, for the accounts of `TaskProofs` and `WorkflowProofs` |
| `StoreOpening` | creating, opening and migrating the database file, with its properties |
| `Retention` | expiry of results and the phased deletion of tasks, with its properties |
| `StoreProofs` | nothing a row or an intent names is lost sight of and keys outlive their tasks (`Retention`); no command is lost (`StoreOpening`) |
| `Workflows` | one workflow: plans, replans, budgets, handoffs and children, with its properties |
| `WorkflowContract` | what a workflow promises its owner, without rows, attempts or deliveries |
| `WorkflowRefinement` | the mappings under which `Workflows` implements `WorkflowContract`, and its children `TaskContract` |
| `MCWorkflow` | the plans of the workflow instances that TLC checks |
| `WorkflowProofs` | every safety property of a workflow, its budget included, and both refinements |
| `SessionLifecycle` | native sessions and jobs |
| `SessionProperties` | what the session lifecycle must keep true |
| `SessionContract` | what sessions and jobs promise, without rows, processes or deadlines |
| `SessionRefinement` | the mapping under which `SessionLifecycle` implements `SessionContract` |
| `SessionProofs` | every safety and action property of sessions and jobs, and the refinement |
| `MCSession` | the instances of the session lifecycle that TLC checks |
| `Cancellation` | the supervisor that stops an ACP attempt, with its properties |
| `CancellationProofs` | its type, release and signal theorems |
| `Providers` | one client of a model provider, a runner's or a probe's, with the remote it talks to, and its properties |
| `Discovery` | probes under consent: composes a prober with the client of `Providers`, with its properties |
| `MCProbes` | the configurations of clients that TLC checks |
| `DiscoveryProofs` | every property of probes and of their clients |
| `CoddyDriver` | the driver's threads, its watchdog and the Coddy server, with its properties |
| `DriverProofs` | a known outcome is a settled one; supervision ends when nothing known of goes on |

`Discovery` extends `Providers`: a generative probe is its client in the form
`probe`. The other groups do not share variables: each is about other rows
and files, and the task core's reads and writes of a row do not depend on them.
`Retention` abstracts the task core to what it writes of the rows and files that
retention deletes: `Submit`, `LateCancel`, `Attempt`, `Publish`, `Report` and
`Finish`. `Workflows` cuts it
down to what a workflow reads of its children: placed, launched, ended, settled.

### How `TaskLifecycle` corresponds to the code

One write transaction is one action. Work done outside a transaction is an
action of its own, so TLC interleaves it with every other process.

| code | model |
|---|---|
| rows of tasks, attempts, workers, commands; `settings.last_worker` | `task`, `attempt`, `worker`, `command`, `lastWorker` |
| the `validations` list of one tick | `check` (the stage each has reached, the attempt number and the intent it saw) |
| a runner process with its `Controller` | `proc`, by task, attempt number and launch |
| `Worker.children`, `Worker.launches` | `launched` |
| result file on disk | `artifact`: none, good, bad |
| `time.time()` | `now`, advanced by `ClockTick`; assumed not to go back |
| `submit`, `cancel` | `Submit`, `Cancel` |
| the transaction of `Manager.tick` (sweep, settle, `schedule`) | `Tick`, one action: `SweptTask`, `SweptAttempts`, then `Admit` |
| `_validate_and_settle` | `Prevalidate`, `Recheck`, `SettleValidated`; `ValidationFault` is the isolation boundary of tick |
| death of the manager | `ManagerCrash`: its list is lost, the store is not |
| `resolve` | `Resolve` |
| `Worker.__init__`, `Worker.tick` | `Register`, `WorkerTick` |
| `run_attempt` up to the claim's commit | `Claim` |
| `_warm_coddy`, a command of which is a request like any other | `StartWarmup`; `RefusedInWarmup` in `Heartbeat` |
| checkpoint, report, request, publish, final report | `Proceed`, `CheckpointStop`, `Announce`, `Heartbeat`, `StartRequest`, `Answer`, `RequestFails`, `WorkFails`, `Publish`, `Finish` |
| kill, reboot, unexpected exception | `RunnerCrash` |

`Tick` decides admission through `IsSchedule`: a placement that gives each
ready task the worker the loop of `schedule` would give it, in submission
order, with the slots and the capacity used by the tasks placed before it.

What is folded together, and why nothing is lost:

- `desired_action` and the reason of a Cancel are one field, `intent`.
- A checkpoint followed by a decision that touches only the runner is one step;
  before a report it is not (`Proceed`, then `Announce`), since a cancel may
  fall in between.
- `WorkerTick` joins the heartbeat, the read of the queue and the launches: a
  launched process may make its claim arbitrarily later, so every interleaving
  of a claim with the rest is kept.
- The relaunch backoff is a free choice of which relaunches are due; an attempt
  this worker process never launched is always launched.
- A refused report ends the runner, except in a warm-up. There the `Conflict` of
  `heartbeat` is taken for the failure of the command
  (`session_lifecycle.py:669`), `_warm_coddy` makes a permanent error of it, and
  the runner goes on to its final report with the next sequence number. How many
  commands an attempt sends depends on what earlier ones recorded, so
  `StartWarmup` may come any number of times up to `WarmupCommands`.
- The end of `attempt_seconds` ends the run like any permanent failure, which
  `WorkFails` allows at any checkpoint.
- The path and checksum columns never change after success, so the staleness
  comparisons of the settling transaction cannot fail and are not modelled.
- `retry.on` holds only transient and validation (`model.py` 320-321), so
  Unknown and permanent failures never retry.
- The operator's `--confirm-stopped` is taken as true: `Resolve` requires that
  no runner of the attempt executes.
- Events, wording, `observation_condition`, versions and merged_sequence are
  left out; no decision of the core reads them.

The tasks are those of a plain `submit`. For them the three workflow calls made
by `settle` and `schedule` return without effect; `Workflows` models them.

### `StoreOpening`

| code | model |
|---|---|
| `O_CREAT\|O_EXCL` of `initialize` | `Create`; the loser is refused |
| `executescript(SCHEMA)`, which runs in autocommit mode | `WriteTables`, then `WriteVersion`: others may look in between |
| settings and `seed_passive_inventory` | `WriteSettings`, `Seed` |
| `except sqlite3.Error` | `InitFails`: the file goes, with whatever was accepted in it |
| `connect`, the reads at the head of `_migrate` | `Connect` with `Verdict`, outside any transaction |
| the two commits of `_migrate` | `CommitIntent`, `Migrate`; `MigrationFails` for a rollback |
| `transaction` | `Transact`: version check, then a command |
| a killed process, a caller that tries again | `Kill`, `Retry` |

`OpeningInit` starts from no file, or from a version 1 store with a command in it.

### `Retention`

| code | model |
|---|---|
| `expire_artifacts` | `ExpireArtifacts`: one transaction, `Expired` results only |
| first transaction of `retain` | `Mark`, for the tasks in `Old` |
| the loop, one phase per transaction | `DropDependents`, `DropTask`, `DropArtifacts` for the `First` intent; `NoneLeft` |
| deletion of tombstones | `DropTombstones`, with the `now` the call began with |
| `stop_after`, a killed process | `Crash`; `CrashAfterUnlink` between the unlink and the commit |
| a foreign key that refuses `DELETE FROM tasks` | the second disjunct of `DropTask` |
| `submit`, `cancel` of a task that ended, `settle` | `Submit`, `LateCancel`, `Finish` |
| an admission; `publish`, then the report that stores `result_path` | `Attempt`; `Publish`, then `Report`: between them no row names the file |
| the rows of `attempts`, the files `artifacts/<attempt>.json` | `attempts[t][n]`: none, plain, or with a result; `file[t]` |

Whether a task is a child of a workflow, plans one, or neither, is fixed before
it is submitted and kept in `task[t].role`: `retain` leaves both kinds alone,
`expire_artifacts` asks only for children. A runner that publishes after the rows
of its task are deleted is not modelled: its file is one more that no row names.
A file whose report was refused or never sent stays on disk: `retain` reads the
`result_path` of rows only (`store.py:349`), and the documentation says nothing
of it.

### `Workflows`

| code | model |
|---|---|
| rows of `workflow_roots`, `_plans`, `_children`, `_deliveries` | `root`, `plans`, `child`, `delivered` and `failed` |
| the children's rows of `tasks`, and their current attempt | `task`, `attempt` |
| `workflow_plan_commands`, by idempotency key | `command` |
| what a handoff finds of the declared result and files | `output`: whole, missing (`Invalid`), or unreadable (another exception) |
| `create` | `Init` |
| `_settle_plan_locked` | `SettlePlan`: `AcceptPlan` or `RejectPlan`, by `Acceptable` |
| `settle_plan`, `replan`; settlement of the planner task | `Command`; `PlannerSucceeds`, `PlannerFails` |
| `_deliver_dependencies_locked`, one call for one child | `Wait`, `HandoffFails`, or the `Handed` of the next two |
| `claim_attempt_locked` and the placement after it | `Refuse`, `Admit` |
| a runner's claim and its end; a queued attempt given up | `Launch`, `End`, `Unlaunched` |
| `settle` with `record_usage_locked` | `Settle` |
| `Store.cancel`, a passed deadline | `Cancel`, `Deadline` |
| what is written to or removed from a child's workspace | `Written` |
| an exception that leaves `schedule` and undoes the tick | `TickFails`, in which no step of the manager is due |

- A task is named after the revision and the key that inserted it, so a row
  carried over shows the task of an earlier revision.
- The workflow has a token ceiling; without one the whole allocation is skipped.
  The root's own budget sets none, so a share is not capped any further.
- `Manager.tick` is one transaction over all tasks. Here every child is handled
  by an action of its own: what else may happen between two of them is more
  than the code allows, and the properties hold nevertheless. Which worker is
  chosen, and in what order, is left to the task core.
- While `TickFails`, a tick commits only if no worker fits the child in question.
  So the steps of the manager stay possible, and fairness asks none of them.
- A resent command returns its receipt, and a second plan is refused: neither
  changes a row, so both are guards of `Command`.
- The checks of `_child_spec` against the root's authority are one bit of a
  plan (`Narrow`).
- The payload of a delivery is written and never read in this tree; only that
  it was written, and from which source, is modelled.

`WorkflowContract` knows a child by its phase, the keys it waits for and the
tokens it may still use. `WorkflowRefinement` reads them off the rows: `Phase`
off `tasks.status`, `Halted` off `desired_action`, `Awaited` off the plan that
inserted the child, and `Reserved` is what `_settle_plan_locked` counts for an
open child. An accepted plan or replan is one step of the contract (`Plan`),
with the children it drops and inserts. A delivery, a rejected plan, a changed
file and the run of an attempt are stutters.

### `SessionLifecycle`

| code | model |
|---|---|
| rows of `lifecycle_sessions`, `_jobs`, `_runs`, `_transfers` | `session`, `job`, `run`, `transfer` |
| a process inside `start_job`, `warm_session`, `retry_warmup` or `_warm_coddy` | `caller` |
| - | `doubt`, `recorded`: history, for the properties only |
| `_warmup_claim` | `ClaimWarmup` |
| the loop of `warm_session` | `BeginStep`, `Execute`, `RecordStep`, and its exits `DeadlinePassed`, `Rejected`, `OutcomeUnknown`; then `FinishWarmup`, which looks at no state, also when there was nothing to do |
| `adopt_prepared_session` | `Adopt` |
| `retry_warmup` | `OperatorRetries`, `RunnerRetries` |
| `register_job`, `ready_jobs`, `retry_job` | `RegisterJob`, `ReadyJobs`, `RetryJob` |
| `start_job`: first read, last transaction | `ReadJob`, `StartRun`, with the warm-up between them |
| `complete_run`, with `_prepare_dependents_locked` in the same commit | `CompleteRun`, `PrepareDependents` |
| `_warm_coddy` of `runner.py` | `RunnerWarms`: what it found when it read the row |
| a killed process; `recover` | `Crash`, `Recover` |

- A session that is branched or created for a job is named after the job.
- The deadline is a choice of the environment: it may have passed at each place
  where the code looks at the clock, if the caller gave a deadline.
- A transfer is written as delivered in the commit that makes its job ready, so
  the transfers that `recover` marks as failed do not occur.
- A warm-up that found nothing to do still runs its last transaction, and writes
  `ready` over the `running` of a job started in between (`session_lifecycle.py`
  695). The state of a session is no evidence that it is free; `start_job` asks
  the rows of the runs as well, which is what keeps runs apart.
- `recover` has no caller in this tree. It is modelled as its comment says:
  after a restart, when no process is inside the lifecycle. Runners are
  processes of their own, so whoever calls it one day must see to that:
  `warm_session` writes its outcome without looking at the row, and a command
  that returns after `recover` would take the session out of `recovering`.
- Job documents are immutable and registering one again changes nothing.

`SessionContract` knows a job by its phase, session, number of runs and the
results it was given, and a session by the commands its context has, those being
sent, and those of which nobody knows. `SessionRefinement` reads them off the
rows; `Sending` is what the callers inside `warm_session` have sent, and
`Unknown` is the history variable `doubt`. A crash of a caller, a deadline and
an unknown answer are one step there (`Learn`), by which a command sent turns
out to have worked, to have failed, or to be lost.

### `Cancellation`

| code | model |
|---|---|
| `requested_at`, `term_sent_at` | `requested`, `termed`: the time since, up to what the code compares it with |
| `kill_sent_at`, `adapter_stop_reason`, `signals` | `killed`, `reason`, `signals` |
| the dictionary returned | `answer`, by status and `reserved` |
| `request`, its callback raising | `Request`, `RequestRaises` |
| `adapter_stopped`, `poll` / `tick` | `AdapterStopped`, `Poll`, both through `Polled` |
| `killpg` raising because the group has just gone | `PollRaises` |
| the agent's process group (external) | `GroupEnds`, `GroupKilled` |

### `Providers`

| code | model |
|---|---|
| configuration of the provider and the task's Coddy options | `form` |
| the Coddy session and the turn at the server (external) | `session`, `remote`; `Refuse`, `Accept`, `Gateway`, `Act`, `Finish`, `Break`, `ModeChange` |
| the response body, in blocks | `wire` |
| `Controller.llm`, `_warm_coddy` up to the warm-up | `Begin`, `Inspect`, `LookupFails` |
| `session_snapshot`, `ensure_session`, `_set_permission_mode` | `Snapshot`, `Ensure`, `SetMode` |
| `_complete_coddy`, the mention and its child's mode | `Turn`, `Mention` with `ChildMode` and `Narrow` |
| `_open_coddy` and what `complete` makes of its exceptions | `Send`, `Receive`, with `ErrorKind` |
| `_parse_coddy_stream`, `_parse_coddy_json`, the bodies of the other providers | `StreamVerdict`, `BodyVerdicts` |
| `Controller.request` giving up, a checkpoint | `GiveUp` |
| the manager's new attempt after a temporary failure | `Retry` |

- A block is a text, a tool call, an error with its status, a terminal reason
  (`reason`, or `elsewhere` when the metadata with it names another session),
  `done`, or `malformed`. A body that breaks anywhere is a prefix, possibly
  followed by a malformed block.
- A terminal reason, a tool call or an error decides by its position; texts,
  usage and sizes do not, and are left out. A body beyond its size limit is one
  more unknown answer.
- The check of the session ID in an answer fails or not as the remote likes.
- Warm-up commands themselves are those of `SessionLifecycle`; here they are a
  turn that comes before the work.

### `Discovery`

| code | model |
|---|---|
| the executable's file, and the overrides resolved with it | `file`, a content and how often it was replaced |
| `discovery_approvals`, `discovery_evidence` | `approval`, `evidence` (the row of the probe under way) |
| a process inside `handshake` or `generative`, its process group | `probe`, `group` |
| `_resolve`, the fingerprint | `Resolved`, `Fingerprint` |
| `approve`, `_authorize` | `Approve`, `Authorize`: each in an environment of its own |
| `_run_handshake`, `_terminate_group` | `Spawn`, `Waited`, `Terminate` |
| `generative` with its `Provider` | `Request`, `Answered`, and the client's steps between them |
| `_record_evidence` and the `except` of `generative` | `Record` |
| an exception or signal that passes through | `Interrupt` |

- The checksum of a file is its content: two contents have one checksum only if
  they are equal.
- A route states its whole endpoint or, for any field it leaves open, takes what
  the environment says; a mixture of both resolves like one of the two.
- An unlisted use is an audit row and no approval; its audit row is written
  before the probe, in `Authorize`.

### `CoddyDriver`

| code | model |
|---|---|
| the server, its turns and background tasks (external) | `server`, `turn`, `turns`, `child`; `Stop`, `Return`, `WakeTurn`, `TurnEnds`, `Spawn`, `Speak`, `ChildEnds` |
| the stream of `/coddy/events` | `events`, `watching`; `Connect`, `Disconnect` |
| `Driver.tasks`, `running_turns`, `last_activity`, `failed_polls` and `server_lost`, `incomplete_turns`, `outcome` | `seen`, `running`, `quiet`, `poll`, `cut`, `outcome` |
| `launch`, `attach`, the job turn | `Launch`, `PostJob`, `JobTurnEnds`, `Attach` |
| `on_server_event`, `follow_composer`, `stream_turn` | `HandleEvent`, `Follow`, `CloseComposer`, with `StreamDone`, `StreamCut`, `StreamFails` |
| `poll_tasks`: answered, refused, unanswered | `Poll`: `PollRows`, `PollRefused`, `PollFails` |
| the rest of a round of `supervise`; `escalate` | `Judge`, `Handed`, `EscalationEnds`, `EscalationFails` |
| `finish`; the handler of SIGTERM and SIGINT | `Finish`, `Terminate` |
| `ParentIdleWatchdog`: start, `record_visible_progress`, `poll` | `watchdog` with `Launch`, `RecordVisibleProgress`, `Tick` and `Due` |
| - | `told`, `broken`: history, for the properties only |

- Time is a number of poll intervals, and the state keeps ages: that of
  `last_activity` and, as `lag`, that of the clock reading a round works with.
- Each thread's step from one blocking call to the next is one action. The
  counters of the threads are only added to and read, so no step is split.
- A watchdog's deadline may or may not have passed at each tick; what it
  says in its decision is left out.

Definitions named `Faulty...` are seeded faults: slips that code of this kind
invites. No action uses them; each stands before the definition it would
replace and breaks the property that guards against it.

## 3. What is checked

| run | instance | properties |
|---|---|---|
| `TaskRunner` | one task, retried once, with a budget of two tokens and two steps, after a warm-up command; two launches and a heartbeat for the first attempt, a worker that restarts, unreadable /proc; time to 3 around a deadline at 2 | `AcceptedOutcome`, `RetryDiscipline`, `ExecutionHoldsSlot`, `OneRunnerPerTask`, `OverruledUnheard`, `UsageConservation`, `RequestWithinBudget`, `TerminalFrozen`, `UnknownAwaitsOperator`, `ClaimedOnce` |
| `TaskShared` | two tasks, one worker that registers again with other slots and offers, `max_active` 1, one fault of the manager, `FairSpec` | `CapacityBound`, `SlotsMatchTasks`, `ImplementsContract`, `EventuallyDecided` |
| `StoreOpening` | two processes, one old and one new command, two kills, `FairOpening` | `CommandsKept`, `EventuallyMigrated` |
| `Retention` | two tasks of one attempt, one of which may belong to a workflow, two keys, two calls of `retain`, time to 1, `FairSpec` | `NothingOrphaned`, `KeyRemembered`, `EveryIntentCompletes` |
| `Workflows` | two revisions of a pipeline, a single child with a ceiling or a ring, from the planner or one command; 4 tokens, 2 attempts, `FairSpec` | `BudgetNotOversold`, `EndedIsStopped`, `OnlyCurrentPlanRuns`, `HandedOverFirst`, `ChildrenEnd`, `KeepsContracts` |
| `Sessions` | two processes; two jobs that share a session, one that follows the first of them in it, and one that needs that one and the second; two runs each; `FairSpec` | `RunHoldsSession`, `GivenInFull`, `UnknownRunIsLast`, `SentSafely`, `DependentsReleased`, `KeepsJobContract` |
| `Cancellation` | a grace period of two steps of the clock, `FairSpec` | `ReleaseIsSafe`, `KillIsLast`, `EventuallyStopped` |
| `Driver` | launching or attaching to a session with one child; two turns, one stop of the server, `QUIET_SECONDS` and `SERVER_LOST_GIVE_UP` of one interval, two failed polls for a lost server | `KnownOutcomeIsSettled`, `QuietMeansIdle` |
| `Probes` | every configuration of a runner's client over two attempts of two turns, a stream of two blocks before its end and one change of mode by others; a probe under one approval, with two endpoints, two contents of the file and two replacements | `KnownOutcomeIsTrue`, `UsedAsApproved`, `EvidenceIsLast`, `ModeNotWidened` |

In `UsageConservation`, `CommandsKept`, `NothingOrphaned`, `BudgetNotOversold`,
`RunHoldsSession` and `KnownOutcomeIsSettled` the type invariant of the module is the
first conjunct. `NothingOrphaned` also says that the result of a workflow's child stays
as long as its attempt names it, and that a file which a row or an intent names and a
step leaves on disk is still named after the step: what was reported can always be
collected. It says nothing of a file that was published and not reported, which nothing
collects. `OverruledUnheard` speaks of what may still be sent: an overruled runner is
behind its row, or about to report a failure that the transition table refuses.
`RunHoldsSession` rests on the rows of the runs, since the session's own row may say
`ready` while a run is in it. `ChildrenEnd` has a condition: not every tick from some
time on fails. `BudgetNotOversold` also says that the counters of a root agree with its
children. `KeepsContracts` is `KeepsOwnerContract` and `ChildrenKeepContract`; no key
succeeds twice in the former, so that `WorkDoneOnce`, which is proved, has no place of
its own in the run. The properties of `Providers`, `Discovery` and `CoddyDriver` compare
what a process *believes* with what is so elsewhere: the verdict on an answer with the
turn at the server, what the driver recorded with the children it saw, what a prober was
granted with what it then found in place.

### Bounds

In the task core `MaxTime`, `MaxRows`, `MaxLaunch`, `Relaunched`, `MaxSequence` and
`MaxFaults` appear only as conjuncts of the guards marked "bound of the model". Two
attempts per task are enough for an earlier attempt to be superseded, two launches for a
replay, two tasks for competition within a tick, and three ticks of the clock for a
retry whose backoff ends before, at and after the deadline. A budget of two tokens and
answers of one let a first attempt leave one token to the next, whose second request
must then be refused; an answer that never came leaves the usage unknown. One warm-up
command (`WarmupCommands`; the code has two) lets a report be refused in a warm-up. One
heartbeat raises an attempt's sequence between its start and its end. The first attempt
is the one with a heartbeat and a second launch, the second one, which settles what the
first has left, has neither. Keys are interchangeable (symmetry, in `TaskRunner` only,
which has no liveness property). Faults of the manager, which need two rows to be of
interest, are in `TaskShared`; crashes of workers and runners are in both.

`StoreOpening`: two openers are what it takes to migrate twice, and two kills let
both die between their commits. `Retention`: two tasks give a first and a second
intent, and two calls of `retain` let one delete what the other has marked. With
a retention of 1 and a horizon of 0, what happened at time 0 is old at time 1
and what happened at 1 is not, and a call that began at 0 still runs at 1.
`MaxAttempts` is 1 there: a file that was reported, one that was not and one that
is yet to be written need no second attempt (the proof covers any number).
`Workflows`: `MaxRevisions` bounds the plan rows, in a guard marked "bound of the
model". Two revisions are a plan and its replacement; two keys a source and a
consumer; two attempts a run and its retry, or one attempt on each side of a
replan; usage of 1 and 3 stays within and goes beyond a share of 2.
`SessionLifecycle`: `MaxAttempts` bounds the runs of a job; two runs are a run
and its retry, two processes are what it takes to claim one session twice. Four
jobs give every way to a session: named, taken over (when `next` is released
before `both` is registered) and branched. `Cancellation`
has no bound: ages are counted as far as the code distinguishes them.
`CoddyDriver`: two turns are the job and one that wakes or escalates; one child
can be seen before the server stops and be lost with it; ages beyond
`GiveUp + 2` are not told apart by any comparison; one event under way is
enough for it to overtake nothing and be overtaken by a poll. `Providers`: two
attempts give a retry, two turns a work turn after a warm-up and one after a
mention; two blocks before the end give an error or a cut before, between and
after text and a tool call; a mode changed once by others goes stale.
`Discovery`: one probe, since a probe shares nothing with the one before but
the approval; two endpoints and two contents give a wrong one of each, and a
file replaced twice may hold its old content again.

### Fairness

Task core (`FairSpec`): weak fairness of the manager's tick and of each
validation (the manager loop of `cli.py` keeps calling tick and survives failed
ticks), of the clock, and of a living runner's own steps (each call it makes
has a timeout). Workers, callers, the operator, crashes and faults are not
fair: a task whose worker never comes back must still end, by its deadline.
`EventuallyDecided` therefore holds because the deadline sweep ends what never
started, and the only wait without end is the documented one, for the operator.

`Workflows`: the manager ticks and, while not `TickFails`, its ticks commit; a queued
attempt is launched or found unlaunched, and a live one ends (its time limits see to
that; an Unknown one needs the operator, whose answer is assumed). Planners, commands,
cancels and deadlines are not fair: a child ends without them. Nothing repairs a file
that makes ticks fail, so `ChildrenEnd` is claimed only for behaviours in which such
ticks end.

`StoreOpening`: strong fairness of connecting and of both commits, since the
loops of the manager and the workers open the store again and again, and since
a migration that is killed or rolled back on every attempt never ends; creating
and failing processes are not fair. `Retention` and `SessionLifecycle`: nothing
in this tree calls `retain`, `expire_artifacts`, `ready_jobs` or `recover` except
the tests, so here fairness states what whoever calls them must provide.
`retain` leaves its intents "for the next manager": it is called again and again,
and among all calls some turn of the loop is committed if turns are attempted
for ever (strong fairness, as each call may be killed in between). `ready_jobs`
is called repeatedly. Nothing else is fair: the release of a dependent must not
depend on anything else. `Cancellation`: the
caller polls on a schedule, as the documentation demands of it, time passes,
and a group that was sent SIGKILL goes away. `CoddyDriver`, `Providers` and
`Discovery` are checked for safety only: their waits have timeouts of their
own, and what they promise is about answers, not about progress.

### Where the code and its documentation differ

Each of these runs checks one sentence of the documentation and finds a
behaviour of the code that violates it.

| run | property | the sentence | what the run shows |
|---|---|---|---|
| `MigratedOnce` | `MigratedOnce` | "Concurrent openers cannot apply the same migration twice" (`features/hardening.feature:72`) | the version is read before the lock; both openers rebuild `commands`. Harmless to rows: `CommandsKept` holds |
| `DriverCut` | `CutTurnIsUnknown` | the outcome is "`unknown` when a turn ended without `data: [DONE]`" (`docs/exec.md:89`) | a composer stream that breaks with an exception is logged and not counted (`driver.py:252`), and a known outcome is recorded |
| `SessionRerun` | `RecordedNeverRerun` | "a recorded successful command is never run again" (`docs/exec.md:120`) | the deadline passes between the steps; the retry resets the step recorded last |

The models contain more such behaviours. They were met while modelling and
are kept here for the reader; no run states them.

| the sentence | what the code does |
|---|---|
| "every dependent gets an independent child session" (`docs/exec.md:131`) | a dependent takes over its parent's session and fails; the next one, for which a failed consumer does not count (`session_lifecycle.py:493`), takes it over too, and the first is retried in it. They never run at the same time: `RunHoldsSession` holds |
| "Only a confirmed rejection (...) marks the warm-up `failed`" (`docs/exec.md:124`) | a deadline that passes while a command succeeds does so too (`session_lifecycle.py:681`), and a runner retries a failed session by itself |
| "A single late poll escalates through `SIGTERM` and `SIGKILL` in one call" (`docs/cancellation.md:31`) | the second comparison uses the time the first has just stored (`acp.py:534`), so SIGKILL waits for another poll; `KillIsLast` proves the distance |
| "a missing or new session (...) starts at `ask`. The task's requested mode is never treated as inherited, so it can only narrow an observed mode" (`docs/architecture.md:61`) | for a fresh session nothing is read (`runner.py:128`), and the task's own `permission_mode` stands in for the parent's when a mention narrows (`providers.py:417`): `accept_edits` is then set on a session that started at `ask`. `ModeNotWidened` states what does hold: never above a mode that was read, and no bypass unread |
| "A committed migration intent is resumed by the next opener" (`docs/architecture.md:34`) | an opener that read version 1 may set the row of a completed migration back to `started` (`store.py:196`) and die; every later opener returns at `store.py:187` |
| "A half-written database must not make the next init report 'Already initialized'" (`store.py:145`) | only `sqlite3.Error` removes the file; a killed init leaves it |
| "a missing retained result is reported as `gone`" (`docs/architecture.md:31`) | between the first two phases of its deletion a Succeeded task has no attempts, and `cli.py:136` takes the last of none |
| "becomes `recovering` and requires an operator-confirmed retry" (`docs/exec.md:123`) | not if the process that warms the session outlives `recover` (see above) |
| "An absent result or named file records a failed dependency transfer and the consumer is not started" (`docs/workflows.md:116`) | when the file disappears between two attempts of the consumer, the delivery of the first stays recorded as delivered (`INSERT OR IGNORE`, `workflows.py:732`), and the consumer has started |
| the same sentence | only `Invalid` is caught where a payload is read (`workflows.py:710`). A file that is not UTF-8 (`:683`) or may not be read (`:680`), or a result that is gone (`:668`), raises through `schedule`, and the tick is rolled back; `cli.py:83` starts the next one, which fails alike. No child is admitted or settled, of whichever workflow, as long as the file is like that |

## 4. What is proved

TLAPS proves each theorem below for all values of the constants that satisfy the
assumptions of the model's module, however many tasks, processes, children and keys
there are and however long it runs. The assumptions say that bounds and durations are
natural numbers and that sets the code enumerates are finite or drawn from the form the
code validates. Three are worth naming: `max_attempts` is at least 1 (`SpecForm`;
`model.py:316` refuses less), the backoff of an execution is a natural number
(`DelayAssumption`), and the bounds in guards marked "bound of the model" are natural
numbers.

Every safety invariant and every action property of the passing runs is proved.
Few of them are inductive by themselves; what follows says which facts each
rests on.

### The task core (`TaskProofs`)

| theorem | states | rests on |
|---|---|---|
| `TypeCorrect` | `Spec => []TypeOK` | itself |
| `CapacityHolds` | `Spec => []CapacityBound` | `TypeOK` |
| `SlotsAlwaysMatch` | `Spec => []SlotsMatchTasks` | `TypeOK` |
| `ExecutionsHoldSlots`, `OneRunner` | `Spec => []ExecutionHoldsSlot`, `Spec => []OneRunnerPerTask` | `Safe` |
| `OverruledNeverHeard` | `Spec => []OverruledUnheard` | `History` |
| `NeverClaimedAgain`, `UnknownStands`, `TerminalStays` | `Spec => ClaimedOnce`, `UnknownAwaitsOperator`, `TerminalFrozen` | `History` |
| `AcceptedOnlyInTime` | `Spec => []AcceptedOutcome` | `History`, `Vouched`, `Shown` |
| `ContractImplemented` | `Spec => ImplementsContract` | `History`, `Seated`, `CapacityBound` |
| `RetriesDisciplined` | `Spec => []RetryDiscipline` | `History`, `Seated`, `Discipline` |
| `UsageConserved` | `Spec => []UsageConservation` | `History`, `Seated`, `Ledgers` |
| `RequestsAffordable` | `Spec => []RequestWithinBudget` | these and `Figures` |

*Capacity.* Either the tick places nothing, and the sweep only gives slots back;
or the last task it places was placed when the slots of the swept rows and of
the tasks before it were below `max_active`, and it adds one. The last task
exists because the finite set of placed tasks is well ordered by submission.

*One runner* (`Safe == TypeOK /\ SlotsMatchTasks /\ ExecutionHoldsSlot`). A
second claim can be excluded only if an executing runner is the one its attempt
records, and this attempt the task's current one; that in turn needs the slots,
since a slot given back while a runner works would let `schedule` replace the
current attempt. A task with an executing runner is Scheduled or Running on an
attempt that is Launching, Running or Unknown, and none of settlement, requeue
or admission applies to such an attempt.

*The rows* (`History` adds `RowStory`, `RowsInOrder` and `RunnersLevel` to
`Safe`). First it is shown what any step may make of an attempt row: it is
admitted, swept, settled, claimed, reported or resolved. `RowStory` says what a
row tells by its state (nothing ran before the claim, nothing is settled before
the end, an end other than success has a reason), `RowsInOrder` that rows are
filled by number, so that `max(number) + 1` is free. `RunnersLevel` says that an
executing runner is level with its row, unless the row is Unknown; then it is behind
the row, or was refused in a warm-up and is about to report a failure (`Retiring`),
which the transition table refuses whatever its sequence number: from Unknown it
knows no way to Failed (`RefusalCases`, `LevelUnheard`). Frozen terminal tasks, the
single claim and the wait for the operator follow, step by step.

*Accepted success.* The verdict of `_validate_and_settle` acts on what a tick
saw some transactions ago. `Vouched` says of a verdict under way, if no stop was
asked for when it was listed, that its attempt is still a success reported by
the deadline; a terminal report is never overwritten, so this survives whatever
happens between the tick and the verdict.

*The contract.* `Seated` says which tasks have a current attempt, and `RowMove`
lists what one step may make of a task row: nothing, or one of six moves. Each
maps to a step of `TaskContract`: `Accept`, `Grant`, `GiveBack`, `Succeed`,
`Fail`, `StopNow`, or a stutter. A tick moves many tasks at once; the contract
allows that as long as `max_active` bounds who holds afterwards, which is
`CapacityBound` in the state after the step.

*Retries.* `Discipline` speaks of the rows *before* the current one: each is a
confirmed non-start or a failure the policy replays, and they leave room for one
more execution. That is what a requeue must establish and an admission may use.

*Usage.* `Ledger` says of one task that it counts its settled rows, and that all
rows except the current one are settled. A step then settles one row and charges
its usage, or does neither; both halves of `settle` are needed, and a validation
that is repeated finds the row settled. `Figures` says that what a runner read
at its claim stays the figure of its task while it executes: no attempt of a
task is settled while one of its runners works, by `Safe`. The comparison in
`Controller.request` is then enough.

### Workflows (`WorkflowProofs`)

| theorem | states | rests on |
|---|---|---|
| `EndedStaysStopped` | `Spec => []EndedIsStopped` | `Inv` |
| `ReplacedPlanStops` | `Spec => []OnlyCurrentPlanRuns` | `Inv` |
| `SucceedsOnce` | `Spec => []WorkDoneOnce` | `Inv` |
| `SourcesBeforeChild` | `Spec => []HandedOverFirst` | `Inv` |
| `BudgetKept` | `Spec => []BudgetNotOversold` | `Funds` |
| `OwnerContractKept` | `Spec => KeepsOwnerContract` | `Inv`, `Funds` |
| `ChildrenAreTasks` | `Spec => ChildrenKeepContract` | `Inv`, `Slots` |
| `ContractsKept` | `Spec => KeepsContracts` | these two |

`Inv` relates plans, rows and tasks: an accepted plan names only keys it has
rows for; a row stands for a task inserted by its own or an earlier revision,
under the same key (`RowsKept`, `OwnRow`); only a Scheduled child has an
attempt; what may still run was inserted by the latest accepted revision
(`Current`); every later revision that has the key of a succeeded task carries
that task (`CarriedOn`, the reason why work is done once); and a child that was
placed had every source handed over (`HandedOver`), which stays true because a
succeeded source is never replaced and a failed transfer fails its target with
it. A replan must not report a launched child cancelled: `Obsolete` and the
reset of its attempt go by the same test, `NotStarted`.

The budget is a matter of sums over the children. `Balanced` states it
over *all* identifiers, not only those created, so that the set summed over
never changes: a child that was not inserted counts for nothing (`Blank`). A
child's step changes one summand of each sum (`ChildBalance`), and what it takes
from the reserve goes to what is used or comes free. An accepted plan releases
the reserve of every child it drops and adds that of every child it inserts:
`Acceptable` compares the new shares with `Available`, and `AvailableIs` shows
that this is the ceiling less what is used and less the reserve of what a replan
cannot take back.

*Both contracts.* `Turn` says what any step but an accepted plan may make of the
children: nothing, or one of six moves of one child, each with the facts a
contract asks for (who may still begin, what was handed over, what it used).
`PlanTurn` says the same of an accepted plan, whose children move together. Both
contracts follow from these two by their mappings alone. The owner's `Plan` has
to show that the reserves after a replan fit in what is left, which is `Funds` in
the state after the step. `ChildrenAreTasks` composes the proofs: `Workflows` cuts
the lifecycle of its children down, and `TaskContract` is what this abstraction
and the core (`ContractImplemented`) have in common. The core's `Grant` bounds who
holds a slot, for which `Slots` adds to the invariant that `max_active` is never
exceeded by children.

### Sessions and jobs (`SessionProofs`)

| theorem | states | parts of `Inv` it needs most |
|---|---|---|
| `RunsExclusive` | `Spec => []RunHoldsSession` | `RunsHold`: a run is its job's last and is alone in a session with both commands recorded |
| `ResultsGiven` | `Spec => []GivenInFull` | `ReleasedGiven`, `SuccessRan`, `OwnSession` |
| `UnknownStops` | `Spec => []UnknownRunIsLast` | `UnknownLast`, `ReleasedGiven` |
| `CommandsSentSafely` | `Spec => SentSafely` | `WarmedAlone`, `DoubtBlocks` |
| `JobContractKept` | `Spec => KeepsJobContract` | all of it, with `DoubtType` and `JobRuns` |

A warm-up reads and writes its session in several transactions. `WarmedAlone` says that
the row shows a warm-up as long as a process has commands left to send or to record, and
that there is one such process only. One that has none left may still write `ready` over
what has become of the session; both commands are recorded by then, and neither runs nor
doubts are read off that state (`LateReady`). `DoubtBlocks` says that a command whose
outcome is in doubt keeps its session out of every state from which a warm-up may be
claimed without an operator. `complete_run` may release many jobs in one commit;
`Between` states what holds between the completion and the releases, and what they do is
shown from it at once.

*The contract.* `JobRuns` adds to `Inv` that a running job is the one of a
running run in its own session: the contract knows of jobs only, the code
excludes a second run by looking at runs. The commands a session sends are those
of one caller at most (`Sent`), so that a step of any caller maps to `Send`, to
`Learn` or to a stutter (`CallersShow`). The step that needs most is a success:
the code goes through the pending jobs and releases those whose dependencies
have all succeeded; the contract releases exactly the jobs that wait for nothing
any more (`FreedRipe`), and `CompleteShows` shows that the session each gets is
one the contract allows and the results those of the runs that succeeded.

### The store (`StoreProofs`)

| theorem | states |
|---|---|
| `NothingLostSightOf` | `Spec => NothingOrphaned` |
| `KeyOutlivesTask` | `Spec => KeyRemembered` |
| `AcceptedCommandsKept` | `OpeningSpec => []CommandsKept` |

For retention the invariant is a table, `Stage`: for each phase of a deletion,
what there still is of the task, its attempts, events and file. A call that dies
leaves one of these stages, and another call goes on from it. `CallsInTime` says
that no call is ahead of the clock, which is what `KeyRemembered` needs: keys
are dropped with the time at which the call began.

That no command is lost needs to know that
nobody can remove the file a process is about to migrate: `Stays` says that
while a process is between reading version 1 and its second commit there is no
initializer, `OneWriter` that a failing initializer is the only one, and
`Written` that a file being written is never of version 1.

### The supervisor (`CancellationProofs`)

| theorem | states |
|---|---|
| `SupervisorTyped` | `Spec => []TypeOK` |
| `CapacityReleasedSafely` | `Spec => []ReleaseIsSafe` |
| `SignalsInOrder` | `Spec => KillIsLast` |

`KillIsLast` speaks of one step, but is not a consequence of `poll` alone: that
SIGKILL never comes without SIGTERM before it needs to know that a group which
exists now existed when the second timer was started, and so was sent SIGTERM;
and that two periods have passed since the request needs to know that the second
timer runs a full period behind the first. The invariant `Inv` says these two
things, that the signals sent are a prefix of TERM, KILL, and that a released
answer is still true. Every call goes through `Polled`, so `PollKeepsInv` is
proved once, for any request time and stop reason, and used for `request`,
`adapter_stopped` and `poll`.

### The driver (`DriverProofs`)

| theorem | states |
|---|---|
| `KnownOutcomeSettled` | `Spec => []KnownOutcomeIsSettled` |
| `QuietDriverIsIdle` | `Spec => QuietMeansIdle` |

`finish` looks only at what polls have seen. For the first the invariant adds
`SeenIsTrue` (a child seen ended has ended, and nothing makes it run again or
loses it: `Stop` loses running children only) and `JudgedLast` (a known outcome
was recorded by a process that is over, and that saw no child active, so no
later poll can see more). The `seen[c] = "active"` test of `finish` is where the
proof stops without it.

For the second, `Idle` follows what may happen between a poll and the judgement
on it. The stream tells of turns in order, and of the active turn only in its
last event (`TurnsInOrder`); a turn the driver was told of is counted until it
ends (`ToldIsCounted`); a child the server lists nothing of does not run
(`RunningIsListed`, `Forgotten`). So after a poll that found nothing, a child of
a turn the driver was told of can only appear if the turn is counted or an event
has just arrived, and then `quiet` is no longer above the lag of the round
(`NothingTold`).

### Clients and probes (`DiscoveryProofs`)

| theorem | states | invariant |
|---|---|---|
| `ModesOnlyNarrow` | `Spec => ModeNotWidened` | `MInv` |
| `KnownOutcomesTrue` | `Spec => []KnownOutcomeIsTrue` | `AInv` |
| `ProbesAsApproved` | `Spec => []UsedAsApproved` | `DInv` |
| `EvidenceTrue` | `Spec => []EvidenceIsLast` | `EInv`, on top of these |

`SetMode` is judged by what was observed two or more steps before. `MInv`
carries the order of modes from the snapshot through `Inspect`, `Ensure` and
`Mention` to the target: the mode held is at most the one observed, no step
after `Ensure` holds a bypass that no snapshot showed (`ModesBelow`), and no
turn is under way, which could create the session or be mistaken for a change,
while a mode is set (`Steps`).

`AInv` says what the wire shows: a terminal reason or a whole body that the turn
is finished, an error that it failed and that no text follows, and of a stream
that acted, a text or tool call (`WireHolds`); and that a known result stands
until the client begins another turn (`ResultHolds`). `VerdictShown` takes this
to any prefix of the wire with any break; in a stream it needs the first bad
block, which exists because the natural numbers are well ordered
(`LeastNatural`).

`DInv` says what a probe under way still knows of its grant: an approval of its
tier with the very endpoint and content it resolved (`GrantHolds`), and that the
file read then is the file there now unless it was replaced (`ReadHolds`).
Approvals are never changed once given, so the grant outlives the probe. `EInv`
adds that a group is over when its probe comes to record (`GroupHolds`), and
that what is called completed is over from the status to the row
(`CompletedHolds`): an executable that ended by itself, or a turn the remote had
finished, which `AInv` knows from the client's result.

### Sums (`SumLemmas`)

`SumFunctionOnSet` of the community modules is a fold, defined by recursion on a
finite set. The library's induction theorems take an operator as a parameter, so
what the fold computes is shown by a least counterexample instead: `SmallestOf`
gives, of any family of subsets of a finite set, one that has no smaller member
in the family, from the well-ordering of the natural numbers. `IsSum` states the
recursion, and from it follow the effect of removing one element, of changing
one summand, of a disjoint union, and of pairing the elements with a constant.
The models use `SumFunctionOnSet` over explicit functions for this reason.

### Only model-checked

- Liveness: `EventuallyDecided`, `EventuallyMigrated`, `EveryIntentCompletes`,
  `ChildrenEnd`, `DependentsReleased` and `EventuallyStopped`. Fairness and
  ENABLED are out of the proof system's reach.
- The three violations of section 3: counterexamples, with nothing to prove.

What the proofs are about is the models: that a module says what the code does
is argued in section 2 and by the map.

## 5. What is not modelled, and the plan

Not modelled, by choice:

- the HTTP API, the CLI, document validation and workspace tools (pure input and
  output), and the release scripts;
- isolation and negotiation of ACP policies (pure checks of a requested policy
  against advertised capabilities);
- `attach_digest`, `branch_session` and the read views of the session lifecycle;
- of discovery, the passive inventory and the sanitizing of evidence (nothing
  decides by them), a descendant that leaves its process group with `setsid`, and
  a group that may not be signalled;
- of the driver, permission prompts with their policy and the derivation of the
  server's configuration: no outcome depends on them. Two things there are worth
  attention: a prompt is marked as answered before its answer is sent
  (`driver.py:168`), so one that fails is not answered again; and the handler
  of SIGTERM writes the log under a lock that the interrupted thread may hold (`driver.py:501`);
- of the providers, texts, usage and the commands recorded in an earlier warm-up.
  `KnownOutcomeIsTrue` leaves one case out: an answer of Coddy that is not
  streamed and holds an error does not show what preceded the error, and one
  with status 429 or 409 is retried (`providers.py:478`).

Open, for whoever takes this further:

1. The runner of `TaskLifecycle` composed with the client of `Providers` in place of
   its free outcomes of a request, so that a retry of the core is shown to
   repeat no turn that had an effect.
2. Several workflows at once, which share `max_active` and nothing else.
3. A session left in `warming` by a process that died between two steps, with the
   last one recorded: `recover` leaves it (`session_lifecycle.py:865`) and no call
   takes it out of that state. No document promises that one does, so no
   property says so.
