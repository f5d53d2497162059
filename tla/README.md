# Harness-AgentOS in TLA+

This directory holds a TLA+ development of Harness-AgentOS: its two runtimes, the agent
loop both of them run, and what surrounds the durable worker (outbox, container, Git
worktree).  The durable runtime (`src/orchestrator`, `src/web/api_v1.py`): the store with its leases and
fencing tokens, the controller that schedules, completes and replans, and the worker and
API processes that share both.  The legacy runtime (`src/orchestrator/scheduler.py`,
`src/web/server.py`): a scheduler that keeps a run in one state file, under a web console
that edits the same file.  Paths below are relative to `src/`.

## 1. The system and its parts

| Part | State | Operations | Interacts with |
|---|---|---|---|
| Domain and reducer (`orchestrator/domain.py`, `durable_reducer.py`) | the aggregate of a run: status, plan, item statuses, approvals, `verified_revision`, latest checkpoints | `apply_event` for 15 event types, transition tables, plan validation | called inside every transaction of the repository |
| Plan graph (`plan_graph.py`) | none | `ready_work_item_ids`, `blocked_work_item_ids`, `plan_is_complete`, `apply_plan_patch` | controller and reducer |
| Workflow repository (`workflow_repository.py`) | event log, outbox, `runs`, `work_items`, `attempts`, `checkpoints`, `approvals`, `integration_locks`, `effect_ledger` | create a run, append events with an expected version, claim, start, renew, checkpoint, complete, release expired leases | every other part; each operation is one transaction |
| Controller (`controller.py`) | none | `reconcile`, `advance`, `replan_from_evidence`, `apply_patch`, `commit_plan`, approvals, status changes | reads a snapshot, then appends to the repository |
| Worker (`runtime.py`) | the attempt it holds, a heartbeat thread | `run_once`, `_execute`, `_heartbeat` | repository, controller, agent adapter |
| Control API (`web/api_v1.py`) | none | create, pause, resume, cancel, decide an approval | controller, concurrently with the workers |
| Outbox dispatcher (`outbox.py`, `durable_cli.worker_main`) | what it has listed and not marked | list, publish, mark | outbox table, sink; one thread in every worker process |
| Sandbox (`sandbox.py`, `durable_activity.py`, `DockerProfileAgentAdapter`) | a running container, its journal of checkpoints, the outcome file | start, poll, drain, cancel, time out, remove | worker, heartbeat, the workspace that attempts of an item share |
| Git worktree (`git_workspace.py`, `GitWorktreeAgentAdapter`) | worktree and branch of an item, the target repository | prepare, commit, inspect, compare, merge, remove | the attempts of execute, verify and integrate items, in whatever order their workers go on |
| Command line (`durable_cli.py`), legacy import (`legacy_import.py`), artifacts, security | see the code | | around the same repository |
| Legacy scheduler (`scheduler*.py`, `hooks.py`, `state.py`, `store.py`) | `harness_state.json` and its SQLite index | route, plan, contract, build, evaluate, analyze; rounds, retries, recovery | agents, hooks, web console |
| Acceptance progress (`acceptance_progress.py`, `analytics.py`) | in the state file: artifact and verified revision, tokens seen, progress count | `decide` on an observation of the workspace | called by the scheduler after a phase, an error and before the end |
| Web console (`web/server.py`) | one worker thread per run | create, pause, resume, confirm a profile | loads and saves the state file while the worker does |
| Agent loop (`agents.py`, `context.py`, `middlewares.py`, `tools.py`) | a message list, error counters, the fields of its hooks | iterate, call the model, execute tools, compact, reset, refuse an exit | model API, the worker's checkpoint callback |

What is hard here: several workers, the API and the reaper act on the same rows; a
controller operation is a read followed by an append that may be refused; a worker's
lease can end while it works, and its heartbeat, checkpoints, evidence and result come
late; a replan replaces the plan under running items and open approvals; processes stop
anywhere.  `PROJECT.json` lists the hazards line by line with the properties that would
show each one going wrong.

What makes the parts correct:

* repository: one open attempt per item, a bounded number of attempts, one recorded
  success, tables that agree with the aggregate, an integration lock that is not leaked;
* plan and controller: nothing starts before its dependencies, a run completes only
  verified, finished work and terminal runs stay as they are, a cancelled run is quiet,
  risky items are claimed only with an approval of the current plan, replans are bounded by
  the budget and by how many processes may plan at once;
* processes: what they do together is what the atomic controller allows; leases end,
  runs that can proceed do;
* agent loop: every request is one the API accepts, the exit gate neither opens early nor
  holds an agent for ever, a verification counts only until the next edit the gate hears
  of, and an agent whose lease is gone stops;
* outbox: no row is marked that was not delivered, events of a run are heard in order,
  and copies are bounded by restarts;
* sandbox: an attempt commits its own checkpoints only; the outcome that is accepted is its
  own unless the container of an earlier attempt survived; the container of a lost lease
  is stopped;
* worktree: what is merged was verified and what was verified is what was committed,
  attempts that lost their lease and go on working apart;
* legacy scheduler: a run completes only on evidence about its present artifacts, rounds
  and retries are bounded, an unfinished run can always be taken up again, the worker
  comes to rest.

## 2. The modules

| Module | Models |
|---|---|
| `Domain` | statuses and transition tables |
| `PlanGraph` (EXTENDS `Domain`) | the plan as a set of items; readiness, blocking, completion, validation, patches, the planner's obsolete set |
| `WorkflowRepository` (EXTENDS `PlanGraph`) | the tables and the aggregate, one action per transaction |
| `DurableController` (EXTENDS `WorkflowRepository`) | decisions, replans, approvals and cancellation, each atomic, and their most general client: `Spec` |
| `DurableProperties` (EXTENDS `DurableController`) | what `Spec` guarantees |
| `DurableProofs` (EXTENDS `DurableProperties`, `TLAPS`) | the proofs |
| `DurableRuntime` (EXTENDS `DurableController`) | worker, heartbeat and API processes step by step, with stale snapshots, refused appends, crashes and stalls: `RuntimeSpec` |
| `RuntimeProperties` (EXTENDS `DurableRuntime`) | what the processes guarantee, and what the documents say of them |
| `RuntimeProofs` (EXTENDS `RuntimeProperties`, `DurableProofs`) | the proofs, the refinement first |
| `AcceptanceProgress` | the acceptance policy, a function of a state and an observation |
| `LegacyScheduler` (EXTENDS `AcceptanceProgress`) | the state file, the worker thread with its agents, the requests of the console, crashes: `Spec`, `FairSpec` |
| `LegacyProperties` (EXTENDS `LegacyScheduler`), `LegacyProofs` | what the legacy runtime guarantees, what its documents say, and the proofs |
| `ContextWindow` | the message list and how compaction cuts it, as operators |
| `Middlewares` | the hooks of terminal's builder and app-builder's evaluator, as functions of their fields |
| `AgentLoop` (EXTENDS `Middlewares`) | one run of an agent: `Spec` |
| `AgentProperties` (EXTENDS `AgentLoop`), `AgentProofs` (and `ContextWindow`) | what a run guarantees, and the proofs |
| `EventStream` | the abstract outbox: events are recorded and heard in order |
| `Outbox` | transactions that record events, dispatchers, their crashes: `Spec`, `FairSpec` |
| `OutboxProperties` (EXTENDS `Outbox`, INSTANCE `EventStream`), `OutboxProofs` | delivery, the refinement, and the proofs |
| `Sandbox` | the attempts of one item in containers: `Spec`, `FairSpec` |
| `SandboxProperties` (EXTENDS `Sandbox`), `SandboxProofs` | shared files and cancellation, and the proofs |
| `WorktreeChain` | execute, verify and integrate in one worktree: `Spec` |
| `ChainProperties` (EXTENDS `WorktreeChain`), `ChainProofs` | what reaches the target branch, and the proofs |
| `MCStandard`, `MCIntegration`, `MCRuntime`, `MCLegacy`, `MCAgent`, `MCChain` | instances for TLC; `Outbox` and `Sandbox` need none, their constants are plain values |

`DurableController!Spec` is the abstract specification: any client, any interleaving, each
operation atomic.  `DurableRuntime` is the detailed one, whose control flow is that of
the code.  `ImplementsController == Spec` in `RuntimeProperties` is the refinement; the
variables of the repository are shared, so the mapping is the identity, and the session
variables are hidden.  `EventStream` is the abstract specification of the outbox; the
mapping takes the committed version of a run for what is recorded, and the highest version
the sink has got for what is heard.

How the modules meet.  `AgentLoop`, `Sandbox` and `WorktreeChain` contain the part of the
repository they talk to: the claim of an item, the end of a lease and the fencing of a
result are the guards of `WorkflowRepository` (`CanClaim`, `ExpiredItems`, `CanComplete`)
for one item or one chain of items, with the attempt number as fencing token.  `AgentLoop`
is what `Edit`, `Executed` and `Judge` of `WorktreeChain` and the container of `Sandbox`
stand for.  `LoseLease` of `AgentLoop` is the `StaleLeaseError` of `commit_checkpoint`.

How state corresponds:

* `run_status`, `current_plan_revision`, `verified_revision`, `work_item_statuses`,
  `approvals`, `latest_checkpoints` are `runs.snapshot_json`; `item_status`,
  `fencing_token`, `current_attempt_id`, `attempt_status`, `checkpoint_sequence`,
  `lease_live`, `integration_lock` are columns of the tables.  They are separate because
  the code writes them on separate paths (`project=False` in `_append_locked`), and
  `ProjectionAgrees` is about that.
* `claim_work` increments `attempt_count` and `fencing_token` together, so one number
  stands for both and names the attempt.
* Time is one Boolean per item, `lease_live`: whether `lease_expires_at` is still to come.
  `ExpireLease` lets it pass.  `not_before` is only a delay and is left out.
* The run's version is compared and never shown.  `DurableRuntime` keeps `fresh`, the
  processes whose snapshot is the latest of their run; every appended event empties it of
  that run's processes.
* A plan is a set of numbered items.  What the planner may add in each revision is fixed
  by the constants `RunOf` and `RevisionOf`; what it cancels is computed as the code does.
* Budgets are compared in seconds; tokens and cost are checked by the same comparison.
* Evidence and artifacts matter only for the version they consume (`Report`).

* In `LegacyScheduler`, `file` is `harness_state.json`; `mem` is the copy a step of the
  worker holds, `agent` the one its phase handed to the agent and a request's `copy` the
  one a request handler holds.  Each is a whole state and each save replaces the file,
  as `load_state` and `save_state` do: lost updates are part of the model.  `pc` follows
  `step_once` and `run_until_idle` from load to load.
* In `AgentLoop` the message list is the record `conversation`: how many calls of the last
  assistant message are unanswered, whether something was said in between, and which
  messages the hooks would still find (a worked tool call, a tool message, failures among
  the last ten, the finalization notice).  The list itself and the place compaction cuts
  it at are `ContextWindow`; `MCAgent` evaluates `compact_messages` on every list of a
  system prompt and seven messages and finds no well-answered list whose calls lose their answers.  `fresh`,
  `unheard` and `late` are ghosts: what a test said, which calls an earlier hook kept from
  `PreExitVerificationMiddleware`, tools executed after the lease was lost.
* In `Outbox`, `open` is the transaction that holds the lock of a run.  Events get their
  time of creation before the commit, so rows of two runs become visible out of order.
  `copies` counts what the sink got.
* In `Sandbox`, `call` is the local state of `_run_cancellable` and its adapter, one per
  attempt, `container` the process in the container, `journal` and `outcome` the files in
  the workspace.  The journal has the attempt's name, the outcome file the item's.  A line
  is written in two steps.  `container.program` is the entry point; `durable_activity` is
  the one in the repository, `external` any that keeps the contract of the two files.
  `outcome.author`, `call.author`, `beside` and `loose` are ghosts: whose container wrote
  the file, whose outcome an attempt took, which earlier attempts were not over when it
  began, and whether its lease ran out or `docker rm` failed.
* In `WorktreeChain` the contents of the worktree are the number of the edit that led to
  them, `changed` is what `git status` reports, `branch` the commits after the base.  The
  agent runs in the worker's process.  `interrupted` is a ghost: the attempts that lost
  their lease, raised or died before they completed.
* Artifact revisions are only compared with the current one, so the acceptance state keeps
  the results of the comparisons; verification tokens are numbers in trace order.
  `artifacts.tested` records what no code does: the verdict of the last verification of
  the present contents.

Definitions under a comment "Wrong form" are not part of the model: each is what the
next definition would be with a plausible mistake, and `PROJECT.json` names the property
that finds it.

## 3. What is checked

Runs of `tlc -config X.cfg M` that finish without error:

| Run | Instance | Properties |
|---|---|---|
| `standard` (`MCStandard`) | one run, plan/build/verify, one recovery chain diagnose/repair/verify, two attempts each | `TypeOK`, `Fencing`, `RetryBudget`, `OneSuccess`, `ProjectionAgrees`, `DependencyOrder`, `CompletedMeansDone`, `VerifiedRevisionIsCurrent`, `CancelledIsQuiet`, `SuccessIsFinal`, `TerminalIsFinal` |
| `integration` (`MCIntegration`) | two runs of one project, verify and integrate each, one integration risky, checkpoints | `LockIsHeldByOpenAttempt`, `IdleRunsCanGoOn`, `CheckpointsAdvance` |
| `live` (`MCRuntimeLive.cfg`) | two workers, execute/verify and one recovery chain, no crash, no stall | `RunsSettle` |
| `stall` (`MCRuntimeStall.cfg`) | two workers whose leases may end at any time, one crash, one recovery chain | `RuntimeTypeOK`, `StaleResultsAreDiscarded`, `ImplementsController` |
| `control` (`MCRuntimeControl.cfg`) | one worker under a supervisor, a risky item, two pause or resume requests, approvals, rejection, cancellation, one crash, one checkpoint per attempt | `WaitingHasApproval`, `ClaimsAreApproved`, `LeasesEnd` |
| `legacy` (`MCLegacy.cfg`) | a scored and an unscored profile or automatic routing, one request of any kind, two exceptions, one crash, the run budget, one edit and two verifications anywhere | `LegacyTypeOK`, `AcceptedIsVerified`, `UnfinishedHasNext` |
| `legacy_stops` (`MCLegacyStops.cfg`) | the same profiles, a resume or a confirmation, two exceptions, both budgets, one edit and one verification, no crash | `WorkerStops` |
| `agent` (`MCAgent`) | both roles, one file, one command that is a test, up to two parallel calls, four iterations, two errors before the abort, one nudge of each kind, a time budget of one and two ticks; the lists of compaction | `AgentTypeOK`, `ApiContract`, `UnverifiedExitIsLate`, `ExitGateOpens`, `StalePassIsUnheard`, `StaleAgentStops` |
| `outbox` (`OutboxProperties`, `MCOutbox.cfg`) | two runs, two dispatchers, two events a run, listings of two rows, one crash and one exception | `OutboxTypeOK`, `PublishedIsDelivered`, `CopiesAreBounded`, `ImplementsStream` |
| `sandbox` (`SandboxProperties`, `MCSandbox.cfg`) | two attempts, both entry points, one checkpoint a container, any two of eight kinds of fault | `ForeignOutcomeHasCause`, `CheckpointsAreOwn`, `StaleContainersStop` |
| `chain` (`MCChain`) | two workers, two files, two attempts per item, three edits, any number of expiries, exceptions and crashes | `MergedWasVerified`, `JudgedWasCommitted` |

One run ends in a counterexample: `container_activity` (`SandboxProperties`,
`ContainerActivity.cfg`), see section 4.

Bounds.  Two attempts per item reach the retry, the exhausted budget and a stale attempt
beside a fresh one.  Two plan revisions reach a replan and, with `max_replans` used up,
the failure of the run.  Two workers and one API process reach every pairwise race;
three items of one run reach direct and transitive dependants of a failure.
One checkpoint per attempt is enough for that of an old attempt to come after one of a new
attempt; `CheckpointsNeverGoBack` proves the order for every bound.
`MaxTries = 2` in `stall` makes `reconcile` give up, which five tries with three
processes would not show.  `MaxCrashes` and `MaxRequests` bound crashes and requests.
In `legacy` one edit between two verifications makes the first stale; two verifications
reach a failure that is repaired and a pass that is followed by a failure, two exceptions with one
recovery attempt reach the retry and the end, two rounds reach a retried round and the
last one, and one request reaches every race of its load, its save and its start of a
worker with the steps of the worker.  What two requests do to each other's copies is in
`LostResume.cfg` and `OverlappingRequests.cfg`; the theorems about `legacy` are for any
number of requests that do not overlap.
`no_progress_limit = 2` blocks a run within two rounds.
In `agent` four iterations reach a nudge, work, a failed or stale verification and the
exit after it; a second call in a reply reaches every injection between parallel calls.
In `outbox` two rows of one run and one of another reach a listing that is out of order
of creation, and one crash between `publish` and `mark` reaches the second copy.  In
`sandbox` two faults are enough for what is hard there: an outcome written late by a
container whose worker gave it up needs a lease that ends and a `docker rm` that fails or
a worker that dies.  In `chain` three edits reach a late executor's edit, its commit and a
verifier's own edit; with two files a verifier's edit is of a changed path or of a new one.
The theorems of section 5 are for every value of these bounds.
Deadlock is not an error: when every run is terminal, an agent has ended or the bounds are
used up, the system stops.

Fairness (`Fairness` in `DurableRuntime`).  The loop of a live worker and an API request
that was begun keep running (`run_forever`, the server's threads); abandoned leases run
out because time passes; a client repeats `POST /runs` until the run has a plan, which is
what the idempotency key is for.  No fairness is assumed for the heartbeat, requests,
crashes or stalls.  `docker-compose.yml` sets no restart policy, so `live`
holds without restarts (`Supervised = FALSE`): the surviving worker does the work.  In
`control` the only worker may crash, and `LeasesEnd` needs it to come back (`Supervised =
TRUE`).  The configurations of section 4 assume restarts too, which makes them stronger.

`FairSpec` in `LegacyScheduler` is weakly fair to the worker's steps: a thread keeps
running, and an agent ends its phase because its loop has an iteration limit
(`agents.py:269`); edits and verifications are bounded and cannot be repeated for ever.
Requests, exceptions, crashes and restarts are not fair.

`FairSpec` in `Outbox`: the loop of a dispatcher thread goes on and a stopped worker
process is started again; nothing starts a thread again that an exception ended, so the
stream's promise is that events are heard as long as one thread has not raised.

`WatchSpec` in `Sandbox`, of the run `sandbox`: the heartbeat and the loop that watches
the container go on.  `FairSpec`, of `container_activity`, adds the rest of the worker,
workers that claim what is ready, and a `main` that ends when it raises.  An agent need
not end, and no fault need happen or not happen.  `AgentLoop` and `WorktreeChain` have
safety properties only.

## 4. Where the code and its documents disagree

The run `container_activity` ends in a counterexample without any fault.
`durable_activity.py:20` binds the name `checkpoint`, which holds the checkpoint of the
attempt before, to the callback; `ProfileAgentAdapter.run` gets the function, and
`dict(checkpoint)` raises.  The container ends before its agent starts, so no attempt
executes a role, although `orchestrator/runtime.py:178` says "Execute one Profile role in
a constrained, short-lived container."  `Sandbox` therefore has two entry points, this
one and any that keeps the contract of the two files; everything else about the container
is checked for both.

The following configurations are kept beside the runs.  TLC finds the property of each
violated; each is a way the system can go that its documents do not mention.  The runs of
section 3 do not meet these behaviours: `live` has no crash, no request and no integrate
item, `control` no replan, `legacy` no shell edit, `LockIsHeldByOpenAttempt` stays true
of the revived lease, and `ForeignOutcomeHasCause` allows for the surviving container.
A hazard that only such a configuration shows has no property in `PROJECT.json`, and its
note names the configuration.

| Configuration | Property | What happens |
|---|---|---|
| `VerifiedThenRetried.cfg` (`MCRuntime`) | `RunsSettle` | `work_failed` of any item clears `verified_revision` (`durable_reducer.py:198`); after a failed and a successful attempt of the integrate item everything required has succeeded and the run can never complete |
| `CrashedWorker.cfg` (`MCRuntime`) | `RunsSettle` | a worker dies in the last attempt of an item; the reaper of another worker's `run_once` fails the item, but only `_execute` calls `advance` |
| `CreateCrash.cfg` (`MCRuntime`) | `QueuedRunsStart` | the API stops between `commit_plan` and `advance` of `POST /runs` (`web/api_v1.py:149`) |
| `ReplansAndApprovals.cfg` (`MCRuntime`; `tlc -continue` shows both) | `ClaimsAreApproved` | a replan invalidates all approvals (`durable_reducer.py:152`), but a risky item that is `ready` stays so and `claim_work` does not ask for one |
| | `WaitingHasApproval` | a replan removes the approval a run waits for |
| `StalledIntegrator.cfg` (`MCRuntime`) | `IntegrationIsSerial` | `renew_lease` revives a lease whose integration lock was taken over |
| `AgentStalePass.cfg` (`MCAgent`) | `VerifiedExitIsFresh` | an earlier hook answers first, so `PreExitVerificationMiddleware` never hears of the edit that makes its verification worthless |
| `OutboxThreadRaises.cfg` (`OutboxProperties`) | `DeliveredAtLeastOnce` | one exception in a sink ends the dispatcher thread (`outbox.py:54`) while the worker goes on |
| `SurvivingContainer.cfg` (`SandboxProperties`) | `AcceptedOutcomeIsOwn` | the outcome file has the item's name (`runtime.py:192`): the container of an attempt whose lease ran out writes it after the next attempt has cleared it, and that attempt reads it when its own container ends without an outcome (`runtime.py:235`) |
| `UnverifiedMerge.cfg` (`MCChain`) | `MergedIsVerified` | an executor that lost its lease commits after the verification, and the integrator merges the branch (`runtime.py:264`) |
| `ShellEdit.cfg` (`MCLegacy`) | `AcceptedIsVerified` | `_MUTATING_TOOLS` (`analytics.py:16`) has no `run_bash`: an edit by a shell command after a test keeps the pass |
| `OverlappingRequests.cfg` (`MCLegacy`) | `AcceptedIsVerified` | a request that loaded the state before the run completed restarts the run, its agent edits, and a second request writes the completed copy it had loaded back over it; `UnfinishedHasNext` falls the same way |
| `LostResume.cfg` (`MCLegacy`) | `RunnableHasWorker` | `start_worker` (`web/server.py:281`) finds a thread alive that is on its way out |

Further disagreements, met while translating, that no configuration shows:

* Durable runtime.  Two workers with the same replan decision replan twice
  (`controller.py:196`): `replan_from_evidence` reads a snapshot of its own and does not
  look at `max_replans` again, so with `max_replans = 1` two workers that decide at
  revision 1 take the run to revision 3.  `ReplansAreBounded` says how far it can go.  A replan whose append is refused once is lost
  (`controller.py:303`).  `commit_plan` counts finished items against the budget,
  `apply_plan_patch` does not (`controller.py:107`).
* Legacy runtime.  A pause saved while an agent works is overwritten when the phase is
  saved (`state.py:3` says every decision is made from the latest file contents).
  `confirm_profile` does not look at the state (`scheduler.py:1014`).  `_analyze` enters
  the run into the memory store before the final save (`scheduler.py:732`).  An import that
  stops after `commit_plan` is taken for finished when it is repeated
  (`legacy_import.py:49`).
* Agent loop.  With the configured number of tool errors the exit reason `empty_choices` is
  not reachable, the error limit ends the run first.  After a context reset the agent
  cannot leave on the verification it has passed.  What a hook says after a call that is
  not the last of its reply is lost.  A reply that has tool calls and says "stop" ends the
  run without success.  A result that begins with `[auto-fix] Empty` counts as a success.
* Worktree.  A crash in the middle of a merge leaves the target merging, and every later
  `git switch` raises.  A crash between the merge and the completion makes the retry find
  no workspace, which is fatal although the work is merged.  A late commit of an executor
  during the verification is blamed on the verifier.  A verifier's edit of a path that is
  already changed goes unnoticed.  The effect id contains the attempt id, so a retry
  repeats the effect.

## 5. What is proved

Seven modules hold proofs.  Each theorem is about a component's `Spec`, without fairness,
for all values of the constants that satisfy the named assumptions.

`DurableProofs` (`ItemAssumption`, `BudgetAssumption`, `DependencyAssumption`,
`RecoveryRequiredAssumption`, `RepositoryAssumption`, `ReplanAssumption`):

| Theorem | Statement |
|---|---|
| `InvHolds` | `Spec => []Inv`, the inductive invariant |
| `TypeCorrect` | `[]TypeOK` |
| `AttemptsAreFenced`, `RetriesAreBounded`, `SuccessIsRecordedOnce` | `[]Fencing`, `[]RetryBudget`, `[]OneSuccess` |
| `LockIsNotLeaked` | `[]LockIsHeldByOpenAttempt` |
| `ProjectionIsFaithful` | `[]ProjectionAgrees` |
| `DependenciesComeFirst` | `[]DependencyOrder` |
| `FinishedWorkIsKept` | `SuccessIsFinal` |
| `CancellationIsFinal` | `[]CancelledIsQuiet` |
| `CheckpointsNeverGoBack` | `CheckpointsAdvance` |
| `CompletionIsVerified`, `CompletedRunsAreDone` | `CompletesVerified`, `[]CompletedMeansDone` |
| `VerificationIsCurrent` | `[]VerifiedRevisionIsCurrent` |
| `FinishedRunsStay` | `TerminalIsFinal` |
| `RunsDoNotStall` | `[]IdleRunsCanGoOn` |

None of the safety invariants is inductive alone.  `Inv` is the
conjunction of the types, fencing, the retry budget, the single success, the lock, the
projection, the dependency order and the shape of a plan (items of a later revision are
in the plan only once that revision exists, and the dependencies of an item are in the
plan with it).  The last part is what a replan needs: the planner drops every unfinished
dependant of what it drops, so an item that stays keeps its dependencies, and no open
attempt is dropped because an open item's dependencies have succeeded.  Each action has
a lemma per part of the invariant it can disturb; `CancelledIsQuiet` and `SuccessIsFinal`
follow with one lemma per action on top of `Inv`, and `CheckpointsAdvance` from
`LatestIsStored`: the newest checkpoint is the stored one of an attempt whose token is
not beyond the row's.  Only `reconcile` completes a run, from a snapshot whose plan is
complete, and the transaction then holds no other event (`CompletionStep`); `TerminalStep`
says that a terminal run keeps its status, its revision and its items, and that none of
them is claimed.  From these two and `SuccessIsFinal` the theorems about completed and
finished runs follow.  `VerificationIsCurrent` rests on `VerificationStep`: a step keeps
`verified_revision` with its plan, clears it, or is the success of a verifier in the plan.

`RunsDoNotStall` is the safety half of `RunsSettle`, for every plan: a running run in
which no attempt is open and for which `reconcile` has nothing left to append has an item
a worker may claim, an approval somebody may decide or a replan a planner may make.
Its invariant `CauseInv` says why an item stands where it does: a committed plan is well
formed, a blocked item has a failed, cancelled or blocked dependency, and an item is
cancelled only with its run.  `PlanKept` and `ItemStep` sum up what a step may do to a
plan and to an item, so that `CauseStep` need not look at the actions again.  `IdleRun`
then argues on the plan: if nothing has failed, then among the blocked items one has no
blocked dependency, because the plan has no cycle, and so no cause; among the pending ones
one has only finished dependencies, and so is ready.  Neither can be, hence everything
has succeeded and only a missing verification keeps the run from completing.  That case is
real: `VerifiedThenRetried.cfg` reaches it.  `CompletesVerified` is stated in
`DurableProperties` and proved, without a run of its own.

`RuntimeProofs` (the same assumptions and `RuntimeAssumption`) carries this over to the
processes:

| Theorem | Statement |
|---|---|
| `RuntimeInvHolds` | `RuntimeSpec => []RuntimeInv`, the inductive invariant |
| `RuntimeImplementsController` | `ImplementsController`: the processes refine `Spec` |
| `ProcessesKeepTheirPromises` | the theorems of `DurableProofs` about plans, completion, cancellation, checkpoints and idle runs, of `RuntimeSpec` |
| `RuntimeTypeCorrect` | `[]RuntimeTypeOK` |
| `StaleWorkersAreHarmless` | `StaleResultsAreDiscarded` |
| `ApprovalsCanBeDecided` | `[]NoPatches => []WaitingHasApproval` |
| `RiskyWorkIsApproved` | `[]NoPatches => ClaimsAreApproved` |
| `NoReplansNoPatches` | `[]NoPatches`, if `max_replans = 0` |
| `ReplansAreBounded` | a run gets at most `max_replans` patches and one more for each worker, if `max_replans > 0` and the workers are finitely many |

`RuntimeInv` is `Inv`, `SessionsOK` (where a process is it has what it needs: a run, and an
item and attempt of that run) and `PatchIsEvidence`.  The last one is what the refinement
turns on.  The controller's replan is atomic, the planner's takes three steps: what to drop
is computed from one snapshot (`Replan`), the version is taken from a second (`Patch`) and
the result is appended to a third (`CommitPatch`).  If the append is accepted, the second
snapshot is still the latest and the base revision is unchanged; `PatchIsEvidence` says
that what was computed from the first is then still what the failures seen there call
for, because within a revision failed and blocked items stay so and what depends on them
is not finished; the atomic operation may act on any of the failures there are.  Every other step of a process is one transaction or none
(`StepTransacts`), and a snapshot that is `fresh` decides what the present state decides.

`NoPatches` (no run gets a second plan) is needed: with one replan
`ReplansAndApprovals.cfg` violates both properties.  `NoReplansNoPatches`
says when it holds.  For `ReplansAreBounded` the invariant counts, for each run, the
revision and the processes that have decided to replan it (`Planners`): a patch moves one
from the second number to the first, and a process joins only while the revision is within
the budget.  Only workers and the creator's process have a planner.

`LegacyProofs` (`SchedulerAssumption`, `ProgressAssumption`): `LegacyTypeCorrect` for any
number of requests, `UnfinishedCanGoOn` (`UnfinishedHasNext`) and `CompletedWasVerified`
(`AcceptedIsVerified`) under `[]OneRequestAtATime`, the second also under
`EditTools \subseteq {"edit_file"}`.  Both hypotheses are needed, as
`OverlappingRequests.cfg` and `ShellEdit.cfg` show.  Every process writes whole copies of the
state, so the invariant is about all of them: `Typed`; `EvidenceInv`, what a copy says of
verified artifacts is true of the workspace, or the copy knows that it is behind;
`OrderInv`, a run that is over is at rest, and a request holds a copy of a run that is over
only if the file is; `AcceptInv`, a copy that says completed may say so.  One lemma per
operator says what it does to a copy (`RefreshState`, `AfterPhaseState`, `AnalyzedState`,
...), one case per action what that does to the copies.

`AgentProofs` (`AgentAssumption`, `MiddlewareAssumption`): `AgentInvHolds` (the inductive
invariant), `AgentTypeCorrect`, `RequestsAreWellFormed` (`ApiContract`),
`UnverifiedExitsAreLate`, `TheGateOpens` (`ExitGateOpens`), `StalePassesWereUnheard`,
`StaleAgentsStop`.  The invariant says, for every place of the loop, how many calls of the
last reply are unanswered (those still to execute, and none elsewhere), relates the
attempts to leave with the nudges that are left and with what the gate has seen, and
bounds the tools executed after the lease was lost by the checkpoint between two tools.
`CompactionKeepsAnswers` is about `ContextWindow`: in any list that begins with a system
prompt and answers its calls, of any length, `compact_messages` cuts where no call loses its
answers.  The place of the cut is a `CHOOSE` of the nearest index, which `SplitIndex` shows to
exist and to be no tool message.

`OutboxProofs` (`OutboxAssumption`): `OutboxInvHolds`, `OutboxTypeCorrect`,
`PublishedWasDelivered` (`PublishedIsDelivered`), `SinkGetsFewCopies` (`CopiesAreBounded`) and the refinement
`OutboxImplementsStream` (`Spec => ImplementsStreamSafely`).  A row that is listed, marked
or published is committed; a listing takes unpublished rows in the order of creation,
which within a run is the order of versions because a run's lock is held from the creation
to the commit.  So whoever publishes version k finds all lower versions published or
earlier in its own batch, and the sink has heard them: what it hears first is the next.
For the copies the invariant counts the dispatchers that will not publish a row again
(`DoneWith`): a delivery adds one to them, and only a crash takes one away, which
`crashes` counts.

`SandboxProofs` (`SandboxAssumption`): `SandboxInvHolds` and `OwnCheckpointsAreCommitted`
(`CheckpointsAreOwn`); `SharedInvHolds`, `ForeignOutcomesHaveCauses`
(`ForeignOutcomeHasCause`) and, where `Faults` has neither `expire` nor `rm`,
`OutcomesAreOwn` (`AcceptedOutcomeIsOwn`).  An attempt that has not begun has touched
nothing; a journal line belongs to the attempt the file is named after, and what has been
committed is a prefix of what was written, all of it after the last drain.  The outcome
file is cleared when an attempt begins, so until the next one begins it is written by its
own container or by one that was still to start or to end, which is what `beside` records.
An item is claimed again only after its attempt has completed or lost its lease: an earlier
attempt that is not over is therefore `loose`.

`ChainProofs` (`ChainAssumption`): `BranchInvHolds`, `ChainInvHolds` (the inductive
invariant, in two parts), `MergesAreVerified` (`MergedWasVerified`),
`VerdictsAreAboutCommits` (`JudgedWasCommitted`).  Who is at work holds the lease of its
item or was interrupted, and an attempt is at one worker only (`Leases`).  An item is at
work on only after the items before it succeeded, and success is final (`Order`): once
the execute item has succeeded, whoever commits has lost its lease.  So after the head a
verifier looked at come only commits of interrupted attempts (`Heads`), and a merge takes
a later head.  For the second theorem: the first edit after a commit was made by an
interrupted attempt or by a verifier that will be noticed (`Blamed`), because the worktree
was clean when that verifier asked `git status`, so the path it changed is new to it
(`Reported`); a verdict is accepted of the holder of the lease only (`Judged`).

Only model-checked: the liveness properties `RunsSettle`, `LeasesEnd`, `WorkerStops`,
`StaleContainersStop` and the liveness part of `ImplementsStream`.  Liveness and `ENABLED`
are outside what the prover does.  `MCCompaction` in `MCAgent` stays as TLC's check of the
theorem, over all lists of a system prompt and seven messages.

Two notes for whoever goes on.  Theorems with an operator as parameter cannot be instantiated,
so induction is done by least counterexample: `LeastNatural` (a non-empty set of naturals
has a least element) follows from the well-foundedness of `<` without one.  The prover and
the parser group `SUBSET S \ T` differently; the modules write the parentheses.

## 6. What is not modelled

Left out because nothing in them is a protocol: presentation, prompts, metrics, token
validation, the object store, routing heuristics, benchmarks.  Of the parts that are
modelled:

* Durable runtime: the effect ledger, artifacts and evidence (recorded without asking for
  the lease; nothing is decided by them), row locks, which are below the transactions of the
  model, the window of eight rows per claim (any eligible row may be claimed), membership
  and migration commands, the legacy import, which writes whole event sequences from one
  process.
* Outbox: rolled-back transactions leave nothing and are left out; time is one clock, as
  in one database; an exception of the sink is not tied to an event (it ends the thread
  at once); no dispatcher lists with `after_created_at`.
* Sandbox: the contents of the policy (its checks are one refusal),
  `LocalTrustedExecutor`, the checkpoint inside the outcome, and outcomes that are fatal.
* Worktree: the agent is in the worker's process, not in a container; edits of
  `feedback.md`, `progress.md` and `.harness` are not edits of the model; whether a merge
  conflicts is a choice.
* Agent loop: what a tool does is its result, `read_file` stands for the tools no hook
  reacts to, edits by a shell command are not the direct edits the hooks speak of, time
  passes by one tick per call, the API answers with tools it was offered.  Sub-agents,
  skills and `TaskTrackingMiddleware` are left out; their text goes into prompts.
* Legacy runtime: the SQLite index (nothing decides by it), the memory store, human
  approvals (nothing in the source requests one), code behind switched-off feature flags.

What would come next: `EffectLedger` (reservation and completion across attempts),
`LegacyImport` as a client of `DurableController`, `RowLocks` (lock order of `append`
against `complete_attempt`), and proofs of the safety half of the liveness arguments: the
measures that leases, rounds and replans decrease.
