-------------------------- MODULE LegacyScheduler --------------------------
(***************************************************************************)
(* One run of the legacy scheduler (orchestrator/scheduler.py) under the   *)
(* web console (web/server.py): a worker thread and the request handlers   *)
(* each load harness_state.json, change their copy and save it whole.      *)
(* Only the load and the save are atomic (orchestrator/state.py).          *)
(*                                                                         *)
(* Both feature flags have their default, on.  A hook that only records an *)
(* event rewrites the file within a step that later overwrites it and is   *)
(* left out, but for on_stall, whose step saves nothing else.  Nothing in  *)
(* the source requires a human approval, so the state never does.          *)
(***************************************************************************)
EXTENDS AcceptanceProgress

CONSTANTS
    Profiles,                \* profiles a run can have
    Scored,                  \* those whose evaluator is enabled
    max_rounds,
    max_recovery_attempts,   \* of the hook policy, 1 by default
    EditTools,               \* tools the agents change artifacts with
    Requests,                \* requests the web console will receive
    RequestKinds,            \* subset of {"pause", "resume", "confirm"}
    Budgets,                 \* those that may run out, of {"task", "run"}
    MaxEdits,                \* bounds: artifact changes,
    MaxTests,                \*   verification commands,
    MaxErrors,               \*   exceptions raised by a step,
    MaxCrashes               \*   crashes of the process

ASSUME SchedulerAssumption ==
    /\ Scored \subseteq Profiles
    /\ max_rounds \in Nat \ {0}
    /\ max_recovery_attempts \in Nat
    /\ EditTools \subseteq {"edit_file", "run_bash"}
    /\ RequestKinds \subseteq {"pause", "resume", "confirm"}
    /\ Budgets \subseteq {"task", "run"}
    /\ {MaxEdits, MaxTests, MaxErrors, MaxCrashes} \subseteq Nat

VARIABLES
    file,        \* harness_state.json
    pc,          \* where the worker thread is; "none": there is none
    mem,         \* the state the worker's step holds
    agent,       \* the copy the phase's agent was started with
    artifacts,   \* the workspace: contents and the trace's latest evidence
    exhausted,   \* budgets that have run out
    overdue,     \* what before_step may find overdue after a restart
    requests,
    errors, crashes, restartable

vars == <<file, pc, mem, agent, artifacts, exhausted, overdue, requests,
          errors, crashes, restartable>>

NoFingerprint == -1

\* create_run_state; "auto" is routed first.
create_run_state(profile) ==
    LET first == IF profile = "auto" THEN "route" ELSE "plan" IN
    [profile |-> profile, active |-> TRUE, status |-> "running", next_action |-> first,
     requires_confirmation |-> FALSE, round_num |-> 1, attempts |-> 0, score |-> "none",
     budget_left |-> TRUE, fingerprint |-> NoFingerprint,
     progress |-> create_acceptance_progress_state]

\* In place of a copy nobody holds any more.
Blank == create_run_state("auto")

\* A request that has no copy of the state: it is yet to come or answered.
Request(stage) == [stage |-> stage, kind |-> "none", copy |-> Blank]

Phases == {"plan", "contract", "build", "evaluate"}

Stopping == {"paused", "error", "waiting_confirmation"}

\* web create_run: the file is saved, then the worker is started.
Init ==
    /\ file \in {create_run_state(p) : p \in Profiles \cup {"auto"}}
    /\ pc = "load"
    /\ mem = Blank
    /\ agent = Blank
    /\ artifacts = [content |-> 0, tests |-> 0, latest |-> 0, verdict |-> "none",
                    tested |-> "none"]
    /\ exhausted = {}
    /\ overdue = {}
    /\ requests = [q \in Requests |-> Request("new")]
    /\ errors = 0
    /\ crashes = 0
    /\ restartable = FALSE

-----------------------------------------------------------------------------
(* Operators on a state.                                                   *)

\* Wrong form: a paused run stays active.
Paused_Active(s) == [s EXCEPT !.status = "paused"]

Paused(s) == [s EXCEPT !.active = FALSE, !.status = "paused"]

Goto(s, action) == [s EXCEPT !.next_action = action]

evaluator_enabled(s) == s.profile \in Scored

contract_enabled(s) == s.profile = "app-builder"

Sync(s) ==
    IF s.fingerprint = NoFingerprint THEN [s EXCEPT !.fingerprint = artifacts.content] ELSE s

\* _reconcile_durable_acceptance_transition.
Reconciled(s) ==
    IF /\ s.active
       /\ s.next_action = "build"
       /\ ~evaluator_enabled(s)
       /\ s.progress.action = "complete"
       /\ s.progress.verified_current
       /\ s.fingerprint = artifacts.content
      THEN Goto(s, "analyze") ELSE s

\* _refresh_acceptance: analyze_workspace reports the latest verification that
\* no file tool invalidated, the fingerprint is that of the contents.
Refresh(s, recent_failure) ==
    LET synced == Sync(s)
        obs == [artifacts_changed |-> synced.fingerprint # artifacts.content,
                token |-> artifacts.latest,
                verdict |-> artifacts.verdict,
                recent_failure |-> recent_failure,
                budget_left |-> synced.budget_left]
    IN [synced EXCEPT !.progress = decide(@, obs), !.fingerprint = artifacts.content]

\* _record_score_acceptance_failure.
ScoreFailed(s) ==
    LET obs == [artifacts_changed |-> FALSE, token |-> ScoreToken, verdict |-> "failed",
                recent_failure |-> TRUE, budget_left |-> s.budget_left]
    IN [s EXCEPT !.progress = decide(@, obs)]

\* before_new_round: the budget check may pause the run, which stays at the
\* phase that ended; so does a run the agent's copy found paused.
NewRound(s) ==
    LET checked == IF "run" \in exhausted THEN Paused(s) ELSE s
        first == IF contract_enabled(s) THEN "contract" ELSE "build"
    IN IF checked.status \in Stopping THEN checked
       ELSE [Goto(checked, first) EXCEPT !.round_num = @ + 1]

\* Wrong form: one round more.
RetryRound_OneMore(s) == IF s.round_num > max_rounds THEN Goto(s, "analyze") ELSE NewRound(s)

\* _schedule_acceptance_retry.
RetryRound(s) == IF s.round_num >= max_rounds THEN Goto(s, "analyze") ELSE NewRound(s)

AfterBuild(s) ==
    LET action == s.progress.action IN
    IF evaluator_enabled(s)
      THEN CASE action = "repair" -> RetryRound(s)
             [] action = "blocked" -> Goto(s, "analyze")
             [] OTHER -> Goto(s, "evaluate")
      ELSE IF action \in {"complete", "blocked"} THEN Goto(s, "analyze") ELSE RetryRound(s)

\* _set_next_after_acceptance_evaluate.
AfterEvaluate(s) ==
    LET scored == IF s.score = "ok" THEN s ELSE ScoreFailed(s)
        done == \/ scored.progress.action = "complete" /\ s.score = "ok"
                \/ scored.progress.action = "blocked"
                \/ s.round_num >= max_rounds
    IN IF done THEN Goto(scored, "analyze") ELSE RetryRound(scored)

\* What a phase leaves of the state its agent returned.
AfterPhase(s, phase) ==
    CASE phase = "plan" -> Goto(s, IF contract_enabled(s) THEN "contract" ELSE "build")
      [] phase = "contract" -> Goto(s, "build")
      [] phase = "build" -> AfterBuild(Refresh(s, FALSE))
      [] phase = "evaluate" -> AfterEvaluate(Refresh(s, FALSE))

task_success(s) ==
    /\ s.progress.action = "complete"
    /\ evaluator_enabled(s) => s.score = "ok"

\* _analyze; the run is then entered into the memory store.
Analyzed(s) ==
    LET refreshed == Refresh(s, FALSE) IN
    [refreshed EXCEPT !.next_action = "none", !.active = FALSE,
                      !.status = IF task_success(refreshed) THEN "completed" ELSE "error"]

\* on_recovery, and _apply_hook_result of its retry or fail.
Recovered(s, action) ==
    IF s.attempts < max_recovery_attempts
      THEN [Goto(s, action) EXCEPT !.active = TRUE, !.status = "running", !.attempts = @ + 1]
      ELSE [s EXCEPT !.active = FALSE, !.status = "error", !.next_action = "none"]

\* _handle_step_failure: a run whose artifacts are accepted goes on to analyze
\* whatever was raised.
AfterError(s, action) ==
    LET refreshed == Refresh(s, TRUE) IN
    IF refreshed.progress.action = "complete"
      THEN [Goto(refreshed, "analyze") EXCEPT !.active = TRUE, !.status = "running"]
      ELSE Recovered(refreshed, action)

-----------------------------------------------------------------------------
(* The worker: run_until_idle, one step_once after the other.              *)

request_vars == <<requests, errors, crashes, restartable>>

\* The first step's canonical_trace_started is saved with what was loaded.
Load ==
    /\ pc = "load"
    /\ mem' = Reconciled(Sync(file))
    /\ pc' = "ready"
    /\ UNCHANGED <<file, agent, artifacts, exhausted, overdue, request_vars>>

\* _reduce_ready_state, and the test of run_until_idle.
Runnable(s) == s.active /\ s.next_action # "none" /\ ~s.requires_confirmation

InPhase == mem.status = "running" /\ mem.next_action \in Phases

MayPause == "run" \in exhausted \/ (InPhase /\ "heartbeat" \in overdue)

\* A phase timeout is found first and hides the other checks.
MayGoOn == "run" \notin exhausted \/ (InPhase /\ "timeout" \in overdue)

\* on_stall's _record loads the file and saves it; the step returns the state
\* it stalled on, so the worker stops.
Stall ==
    /\ pc = "ready"
    /\ ~Runnable(mem)
    /\ mem' = file
    /\ pc' = "stalled"
    /\ UNCHANGED <<file, agent, artifacts, exhausted, overdue, request_vars>>

StallRecorded ==
    /\ pc = "stalled"
    /\ file' = mem
    /\ pc' = "exiting"
    /\ mem' = Blank
    /\ UNCHANGED <<agent, artifacts, exhausted, overdue, request_vars>>

SaveStep(s) ==
    /\ file' = s
    /\ mem' = Blank
    /\ agent' = Blank
    /\ pc' = "check"
    /\ overdue' = {}

PauseStep ==
    /\ pc = "ready"
    /\ Runnable(mem)
    /\ MayPause
    /\ SaveStep(Paused(mem))
    /\ UNCHANGED <<artifacts, exhausted, request_vars>>

Routes(s) ==
    {[Goto(s, "plan") EXCEPT !.profile = p] : p \in Profiles}
      \cup {[Goto(s, "none") EXCEPT !.requires_confirmation = TRUE, !.active = FALSE,
                                    !.status = "waiting_confirmation"]}

Route ==
    /\ pc = "ready"
    /\ Runnable(mem) /\ MayGoOn
    /\ mem.next_action = "route"
    /\ \E s \in Routes(mem) : SaveStep(s)
    /\ UNCHANGED <<artifacts, exhausted, request_vars>>

Analyze ==
    /\ pc = "ready"
    /\ Runnable(mem) /\ MayGoOn
    /\ mem.next_action = "analyze"
    /\ SaveStep(Analyzed(mem))
    /\ UNCHANGED <<artifacts, exhausted, request_vars>>

AnalyzeFails ==
    /\ pc = "ready"
    /\ Runnable(mem) /\ MayGoOn
    /\ mem.next_action = "analyze"
    /\ errors < MaxErrors
    /\ errors' = errors + 1
    /\ SaveStep(AfterError(Analyzed(mem), "analyze"))
    /\ UNCHANGED <<artifacts, exhausted, requests, crashes, restartable>>

\* _run_phase saves before it loads the state the agent gets.
BeginPhase ==
    /\ pc = "ready"
    /\ Runnable(mem) /\ MayGoOn
    /\ mem.next_action \in Phases
    /\ mem' = [mem EXCEPT !.status = "running"]
    /\ file' = mem'
    /\ pc' = "begun"
    /\ overdue' = {}
    /\ UNCHANGED <<agent, artifacts, exhausted, request_vars>>

\* _prepare reads the remaining task budget.
StartAgent ==
    /\ pc = "begun"
    /\ agent' = [file EXCEPT !.budget_left = ("task" \notin exhausted)]
    /\ pc' = "agent"
    /\ UNCHANGED <<file, mem, artifacts, exhausted, overdue, request_vars>>

\* _tool_invalidates_verification: an edit by a shell command does not.
Invalidates(tool) == tool = "edit_file"

AgentEdits(tool) ==
    /\ pc = "agent"
    /\ artifacts.content < MaxEdits
    /\ artifacts' = [artifacts EXCEPT
                        !.content = @ + 1,
                        !.latest = IF Invalidates(tool) THEN 0 ELSE @,
                        !.verdict = IF Invalidates(tool) THEN "none" ELSE @,
                        !.tested = "none"]
    /\ UNCHANGED <<file, pc, mem, agent, exhausted, overdue, request_vars>>

AgentTests(verdict) ==
    /\ pc = "agent"
    /\ artifacts.tests < MaxTests
    /\ artifacts' = [artifacts EXCEPT !.tests = @ + 1, !.latest = artifacts.tests + 1,
                                      !.verdict = verdict, !.tested = verdict]
    /\ UNCHANGED <<file, pc, mem, agent, exhausted, overdue, request_vars>>

\* The score an evaluation appends to score_history.
Scores == IF mem.next_action = "evaluate" THEN {"ok", "low"} ELSE {agent.score}

EndPhase ==
    /\ pc = "agent"
    /\ \E score \in Scores :
          SaveStep(AfterPhase([agent EXCEPT !.score = score], mem.next_action))
    /\ UNCHANGED <<artifacts, exhausted, request_vars>>

\* The failure is handled on the step's own copy, not on the agent's.
PhaseFails ==
    /\ pc = "agent"
    /\ errors < MaxErrors
    /\ errors' = errors + 1
    /\ SaveStep(AfterError(mem, mem.next_action))
    /\ UNCHANGED <<artifacts, exhausted, requests, crashes, restartable>>

\* run_until_idle looks at the state step_once loaded after its save.
Check ==
    /\ pc = "check"
    /\ pc' = IF Runnable(file) THEN "load" ELSE "exiting"
    /\ UNCHANGED <<file, mem, agent, artifacts, exhausted, overdue, request_vars>>

Exit ==
    /\ pc = "exiting"
    /\ pc' = "none"
    /\ UNCHANGED <<file, mem, agent, artifacts, exhausted, overdue, request_vars>>

WorkerStep ==
    \/ Load \/ Stall \/ StallRecorded \/ PauseStep \/ Route \/ Analyze \/ AnalyzeFails
    \/ BeginPhase \/ StartAgent \/ EndPhase \/ PhaseFails \/ Check \/ Exit
    \/ \E tool \in EditTools : AgentEdits(tool)
    \/ \E verdict \in Verdicts : AgentTests(verdict)

-----------------------------------------------------------------------------
(* The web console's requests.                                             *)

worker_vars == <<mem, agent, artifacts, exhausted, errors, crashes, restartable>>

\* Wrong form: a pause of a run that is not running changes its status too.
set_active_Any(s, active) ==
    [s EXCEPT !.active = active, !.status = IF active THEN "running" ELSE "paused"]

set_active(s, active) ==
    [s EXCEPT !.active = active,
              !.status = CASE active /\ @ \in {"paused", "waiting_confirmation"}
                                    /\ ~s.requires_confirmation -> "running"
                           [] ~active /\ @ = "running" -> "paused"
                           [] OTHER -> @]

confirm_profile(s, profile) ==
    [Goto(s, "plan") EXCEPT !.profile = profile, !.requires_confirmation = FALSE,
                            !.active = TRUE, !.status = "running"]

Edited(s, kind) ==
    CASE kind = "pause" -> {set_active(s, FALSE)}
      [] kind = "resume" -> {set_active(s, TRUE)}
      [] kind = "confirm" -> {confirm_profile(s, p) : p \in Profiles}

\* The page offers a profile only while a confirmation is waited for; the
\* handler does not look.
Offered(kind) == kind = "confirm" => file.requires_confirmation

LoadRequest(q) ==
    /\ requests[q].stage = "new"
    /\ \E kind \in RequestKinds :
          /\ Offered(kind)
          /\ requests' = [requests EXCEPT ![q] =
                             [stage |-> "loaded", kind |-> kind, copy |-> file]]
    /\ UNCHANGED <<file, pc, overdue, worker_vars>>

\* The event the request appends is a heartbeat.
SaveRequest(q) ==
    /\ requests[q].stage = "loaded"
    /\ file' \in Edited(requests[q].copy, requests[q].kind)
    /\ requests' = [requests EXCEPT ![q].stage = "saved", ![q].copy = Blank]
    /\ overdue' = overdue \ {"heartbeat"}
    /\ UNCHANGED <<pc, worker_vars>>

\* start_worker does nothing while the run's thread is alive.
FinishRequest(q) ==
    /\ requests[q].stage = "saved"
    /\ requests' = [requests EXCEPT ![q] = Request("done")]
    /\ pc' = IF requests[q].kind # "pause" /\ pc = "none" THEN "load" ELSE pc
    /\ UNCHANGED <<file, overdue, worker_vars>>

RequestStep(q) == LoadRequest(q) \/ SaveRequest(q) \/ FinishRequest(q)

-----------------------------------------------------------------------------
(* The environment.                                                        *)

Exhaust(budget) ==
    /\ budget \notin exhausted
    /\ exhausted' = exhausted \cup {budget}
    /\ UNCHANGED <<file, pc, mem, agent, artifacts, overdue, request_vars>>

\* The process stops with its worker and the requests it was serving.
Crash ==
    /\ crashes < MaxCrashes
    /\ crashes' = crashes + 1
    /\ restartable' = TRUE
    /\ overdue' = IF pc \in {"begun", "agent"} THEN {"heartbeat", "timeout"} ELSE {"heartbeat"}
    /\ pc' = "none"
    /\ mem' = Blank
    /\ agent' = Blank
    /\ requests' = [q \in Requests |->
                      IF requests[q].stage \in {"loaded", "saved"}
                        THEN Request("done") ELSE requests[q]]
    /\ UNCHANGED <<file, artifacts, exhausted, errors>>

\* harness.py --resume.
Restart ==
    /\ restartable
    /\ pc = "none"
    /\ restartable' = FALSE
    /\ pc' = "load"
    /\ UNCHANGED <<file, mem, agent, artifacts, exhausted, overdue, requests, errors, crashes>>

Next ==
    \/ WorkerStep
    \/ \E q \in Requests : RequestStep(q)
    \/ \E budget \in Budgets : Exhaust(budget)
    \/ Crash
    \/ Restart

\* A live thread goes on, and its agents end: they have an iteration limit.
\* Exceptions and crashes are not fair: MaxErrors says that they end.
Fairness == WF_vars(WorkerStep)

Spec == Init /\ [][Next]_vars

FairSpec == Spec /\ Fairness

=============================================================================
