--------------------------- MODULE DurableRuntime ---------------------------
(***************************************************************************)
(* The processes of the durable runtime over the repository: DurableWorker *)
(* (orchestrator/runtime.py) with its heartbeat, and the control API       *)
(* (web/api_v1.py), which creates, requests, resumes, cancels and approves.  *)
(*                                                                         *)
(* Unlike DurableController this module has the control flow between the   *)
(* transactions: what each process read before it writes, what it does     *)
(* when an append is refused, and where a crash leaves its run.            *)
(*                                                                         *)
(* A snapshot's version is compared, never shown, so it is modelled by the *)
(* set of processes whose snapshot is still the latest of its run: every   *)
(* appended event removes the processes of that run from it.               *)
(***************************************************************************)
EXTENDS DurableController

CONSTANTS
    Creator,                 \* the API process that serves POST /runs
    Operator,                \* the API process that serves the other requests
    MaxTries,                \* appends reconcile tries (5 in the code)
    MaxCrashes,              \* bound: crashes in a behaviour
    MaxRequests,             \* bound: pause and resume requests in a behaviour
    MayStall,                \* whether a live worker's lease may expire
    MayCancel,               \* whether anybody cancels a run
    MayReport,               \* whether adapters return evidence
    Supervised               \* whether stopped workers are always restarted

\* DurableController.reconcile appends at least once.
ASSUME RuntimeAssumption ==
    /\ MaxTries \in Nat \ {0}
    /\ {MaxCrashes, MaxRequests} \subseteq Nat

Clients == Workers \cup {Creator, Operator}

VARIABLES
    session,                 \* where each process is, and its local variables
    fresh,                   \* the processes whose snapshot is the latest
    crashes, requests        \* what the bounds count

runtime_vars == <<repository_vars, session, fresh, crashes, requests>>
counters == <<crashes, requests>>

NoSession == [pc |-> "idle", run |-> "none", item |-> 0, attempt |-> 0,
              obsolete |-> {}, base |-> 0, tries |-> 0]

pc(c) == session[c].pc
run(c) == session[c].run
item(c) == session[c].item
attempt(c) == session[c].attempt

\* Wrong form: workers run the controller without a planner as well.
HasPlanner_CreatorOnly(c) == c = Creator

\* The controllers of pause, resume and approval requests have no planner.
HasPlanner(c) == c # Operator

Goto(c, next) == session' = [session EXCEPT ![c].pc = next]
Finish(c) == session' = [session EXCEPT ![c] = NoSession]

\* The rest of the session when the process starts to advance its run.
Advance(c, r) ==
    session' = [session EXCEPT ![c] = [NoSession EXCEPT !.pc = "advancing", !.run = r]]

\* DomainError and ConcurrencyError leave run_once, and run_forever with it;
\* the API answers with an error.
Raise(c) ==
    session' = [session EXCEPT ![c] =
                   IF c \in Workers THEN [NoSession EXCEPT !.pc = "dead"] ELSE NoSession]

Read(c) == fresh' = fresh \cup {c}
Appended(r) == fresh' = {c \in fresh : run(c) # r}

-----------------------------------------------------------------------------
(* DurableWorker.run_once and _execute.                                    *)

\* run_once releases leases and then claims; as its loop repeats both, they
\* are separate actions.
ReleaseLeases(w) ==
    /\ pc(w) = "idle"
    /\ \E S \in SUBSET ExpiredItems :
          /\ release_expired_leases(S)
          /\ fresh' = {c \in fresh : \A i \in S : RunOf[i] # run(c)}
    /\ UNCHANGED <<session, counters>>

Claim(w) ==
    /\ pc(w) = "idle"
    /\ \E i \in Items :
          /\ claim_work(w, i)
          /\ session' = [session EXCEPT ![w] =
                [NoSession EXCEPT !.pc = "starting", !.run = RunOf[i], !.item = i,
                             !.attempt = fencing_token'[i]]]
          /\ Appended(RunOf[i])
    /\ UNCHANGED counters

\* start_attempt is outside the try: when it is refused the exception ends
\* the worker.
Start(w) ==
    /\ pc(w) = "starting"
    /\ \/ /\ start_attempt(item(w), attempt(w))
          /\ Goto(w, "working")
          /\ Appended(run(w))
       \/ /\ ~CanStart(item(w), attempt(w))
          /\ Raise(w)
          /\ UNCHANGED <<repository_vars, fresh>>
    /\ UNCHANGED counters

\* Wrong form: the heartbeat renews the item, not the attempt.
Heartbeat_OfItem(w) ==
    /\ pc(w) \in {"working", "reporting", "completing", "failing"}
    /\ lease_live' = [lease_live EXCEPT ![item(w)] = TRUE]
    /\ UNCHANGED <<aggregate_vars, item_status, fencing_token, current_attempt_id,
                   attempt_status, checkpoint_sequence, integration_lock,
                   session, fresh, counters>>

\* The heartbeat thread lives from start_attempt until the attempt is closed.
Heartbeat(w) ==
    /\ pc(w) \in {"working", "reporting", "completing", "failing"}
    /\ renew_lease(item(w), attempt(w))
    /\ UNCHANGED <<session, fresh, counters>>

\* commit_activity_checkpoint counts from 1 in each attempt.
Checkpoint(w) ==
    LET i == item(w)
        n == attempt(w)
        seq == checkpoint_sequence[i][n] + 1
    IN  /\ pc(w) = "working"
        /\ seq <= MaxSequence
        /\ \/ /\ commit_checkpoint(i, n, seq)
              /\ Appended(run(w))
              /\ UNCHANGED session
           \/ /\ ~CanCheckpoint(i, n, seq)
              /\ Goto(w, "failing")
              /\ UNCHANGED <<repository_vars, fresh>>
        /\ UNCHANGED counters

\* The adapter returns an outcome, with or without evidence, or raises.
Work(w) ==
    /\ pc(w) = "working"
    /\ \/ Goto(w, "completing") /\ UNCHANGED fresh
       \/ Goto(w, "failing") /\ UNCHANGED fresh
       \/ MayReport /\ Goto(w, "reporting") /\ Read(w)
    /\ UNCHANGED <<repository_vars, counters>>

\* record_evidence and register_artifact append to the version they read and
\* do not retry; they need no lease.
Report(w) ==
    /\ pc(w) = "reporting"
    /\ IF w \in fresh
         THEN Goto(w, "completing") /\ Appended(run(w))
         ELSE Goto(w, "failing") /\ UNCHANGED fresh
    /\ UNCHANGED <<repository_vars, counters>>

\* complete_attempt, where a refusal leads.
Close(w, succeeded, retryable, refused) ==
    LET i == item(w)
        n == attempt(w)
    IN  \/ /\ complete_attempt(i, n, succeeded, retryable)
           /\ Advance(w, run(w))
           /\ Appended(run(w))
        \/ /\ complete_cancelled_attempt(i, n)
           /\ Advance(w, run(w))
           /\ UNCHANGED fresh
        \/ /\ ~CanComplete(i, n, succeeded, retryable)
           /\ ~CanCompleteCancelled(i, n)
           /\ refused
           /\ UNCHANGED <<repository_vars, fresh>>

Complete(w) ==
    /\ pc(w) = "completing"
    /\ \E succeeded, retryable \in BOOLEAN :
          Close(w, succeeded, retryable, Goto(w, "failing"))
    /\ UNCHANGED counters

\* A late failure is discarded.
Fail(w) ==
    /\ pc(w) = "failing"
    /\ Close(w, FALSE, TRUE, Advance(w, run(w)))
    /\ UNCHANGED counters

-----------------------------------------------------------------------------
(* DurableController.advance, reconcile and replan_from_evidence.          *)

\* Where a decision of reconcile leads.
Decided(c, decision) ==
    IF decision = "replan" /\ HasPlanner(c)
      THEN session' = [session EXCEPT ![c].pc = "replanning", ![c].tries = 0]
      ELSE Finish(c)

\* reconcile reads a snapshot; without events the decision is returned at once.
ReconcileRead(c) ==
    /\ pc(c) = "advancing"
    /\ IF AppendsEvents(run(c))
         THEN Goto(c, "appending") /\ Read(c)
         ELSE Decided(c, Decision(run(c))) /\ UNCHANGED fresh
    /\ UNCHANGED <<repository_vars, counters>>

\* Wrong form: one try too many.
OutOfTries_OneMore(c) == session[c].tries = MaxTries

OutOfTries(c) == session[c].tries + 1 = MaxTries

\* A snapshot that is still the latest has the same decision now.
ReconcileAppend(c) ==
    /\ pc(c) = "appending"
    /\ IF c \in fresh
         THEN /\ reconcile(run(c))
              /\ Decided(c, Decision(run(c)))
              /\ Appended(run(c))
         ELSE /\ IF OutOfTries(c)
                   THEN Raise(c)
                   ELSE session' = [session EXCEPT ![c].pc = "advancing", ![c].tries = @ + 1]
              /\ UNCHANGED <<repository_vars, fresh>>
    /\ UNCHANGED counters

\* The planner builds the patch from a first snapshot ...
Replan(c) ==
    LET r == run(c)
    IN  /\ pc(c) = "replanning"
        /\ current_plan_revision[r] < MaxRevision
        /\ IF FailedOrBlocked(r) = {}
             THEN Raise(c)
             ELSE session' = [session EXCEPT
                     ![c].pc = "patching",
                     ![c].base = current_plan_revision[r],
                     ![c].obsolete = ObsoleteItems(PlanItems(r), work_item_statuses,
                                                   FailedOrBlocked(r))]
        /\ UNCHANGED <<repository_vars, fresh, counters>>

\* ... apply_patch applies it to a second one ...
Patch(c) ==
    /\ pc(c) = "patching"
    /\ Goto(c, "committing")
    /\ Read(c)
    /\ UNCHANGED <<repository_vars, counters>>

\* ... and commit_plan appends it to that one, after checks that a later
\* snapshot can only fail when the append fails as well.
Committable(c) ==
    LET r == run(c)
        added == AddedItems(r, current_plan_revision[r] + 1)
    IN  /\ c \in fresh
        /\ session[c].base = current_plan_revision[r]
        /\ run_status[r] \notin TERMINAL_RUN_STATUSES
        /\ CanPatch(r, session[c].obsolete)
        /\ validate(PatchedPlan(PlanItems(r), session[c].obsolete, added))

CommitPatch(c) ==
    /\ pc(c) = "committing"
    /\ IF Committable(c)
         THEN /\ apply_patch(run(c), session[c].obsolete)
              /\ Advance(c, run(c))
              /\ Appended(run(c))
         ELSE Raise(c) /\ UNCHANGED <<repository_vars, fresh>>
    /\ UNCHANGED counters

-----------------------------------------------------------------------------
(* The control API.                                                        *)

\* POST /runs creates the run or finds it by its idempotency key; a run that
\* has a plan is returned as it is.
CreateRun(r) ==
    /\ pc(Creator) = "idle"
    /\ \/ create_run(r)
       \/ /\ run_status[r] # "absent"
          /\ current_plan_revision[r] = 0
          /\ run_status[r] \notin TERMINAL_RUN_STATUSES
          /\ UNCHANGED repository_vars
    /\ session' = [session EXCEPT ![Creator] = [NoSession EXCEPT !.pc = "planning", !.run = r]]
    /\ Read(Creator)
    /\ UNCHANGED counters

PlanRun ==
    LET r == run(Creator)
    IN  /\ pc(Creator) = "planning"
        /\ IF Creator \in fresh
             THEN commit_plan(r) /\ Advance(Creator, r) /\ Appended(r)
             ELSE Raise(Creator) /\ UNCHANGED <<repository_vars, fresh>>
        /\ UNCHANGED counters

PauseRun(r) ==
    /\ pc(Operator) = "idle"
    /\ requests < MaxRequests
    /\ change_status(r, "paused")
    /\ requests' = requests + 1
    /\ Appended(r)
    /\ UNCHANGED <<session, crashes>>

\* resume_run checks one snapshot for a pending approval ...
ResumeRun(r) ==
    /\ pc(Operator) = "idle"
    /\ requests < MaxRequests
    /\ run_status[r] \notin {"absent", "waiting_approval"}
    /\ requests' = requests + 1
    /\ session' = [session EXCEPT ![Operator] = [NoSession EXCEPT !.pc = "resuming", !.run = r]]
    /\ UNCHANGED <<repository_vars, fresh, crashes>>

\* ... and changes the status of a later one.
ResumeAppend ==
    LET r == run(Operator)
    IN  /\ pc(Operator) = "resuming"
        /\ IF RunMay(run_status[r], "running")
             THEN /\ \/ change_status(r, "running")
                     \/ run_status[r] = "running" /\ UNCHANGED repository_vars
                  /\ Advance(Operator, r)
                  /\ Appended(r)
             ELSE Raise(Operator) /\ UNCHANGED <<repository_vars, fresh>>
        /\ UNCHANGED counters

DecideApproval(r) ==
    /\ pc(Operator) = "idle"
    /\ \E i \in Items, approved \in BOOLEAN :
          /\ decide_approval(r, i, approved)
          /\ IF approved THEN Advance(Operator, r) ELSE UNCHANGED session
          /\ Appended(r)
    /\ UNCHANGED counters

CancelRun(r) ==
    /\ MayCancel
    /\ pc(Operator) = "idle"
    /\ cancel(r)
    /\ Appended(r)
    /\ UNCHANGED <<session, counters>>

-----------------------------------------------------------------------------
(* Time, crashes and restarts.                                             *)

Holds(w, i) ==
    /\ item(w) = i
    /\ attempt(w) = fencing_token[i]

\* The lease of an attempt no live worker holds runs out; so may any other if
\* its worker stalls or its heartbeat fails.
LeaseExpires(i) ==
    /\ MayStall \/ \A w \in Workers : ~Holds(w, i)
    /\ ExpireLease(i)
    /\ UNCHANGED <<session, fresh, counters>>

\* A process that stops loses its session; its connection's open transaction
\* is rolled back.  The API serves the next request.
Crash(c) ==
    /\ crashes < MaxCrashes
    /\ pc(c) \notin {"idle", "dead"}
    /\ crashes' = crashes + 1
    /\ Raise(c)
    /\ fresh' = fresh \ {c}
    /\ UNCHANGED <<repository_vars, requests>>

Restart(w) ==
    /\ pc(w) = "dead"
    /\ Finish(w)
    /\ UNCHANGED <<repository_vars, fresh, counters>>

-----------------------------------------------------------------------------
RuntimeInit ==
    /\ RepositoryInit
    /\ session = [c \in Clients |-> NoSession]
    /\ fresh = {}
    /\ crashes = 0
    /\ requests = 0

WorkerStep(w) ==
    \/ ReleaseLeases(w)
    \/ Claim(w)
    \/ Start(w)
    \/ Checkpoint(w)
    \/ Work(w)
    \/ Report(w)
    \/ Complete(w)
    \/ Fail(w)

AdvanceStep(c) ==
    \/ ReconcileRead(c)
    \/ ReconcileAppend(c)
    \/ Replan(c)
    \/ Patch(c)
    \/ CommitPatch(c)

ApiStep ==
    \/ \E r \in Runs : CreateRun(r)
    \/ PlanRun
    \/ ResumeAppend

RequestStep(r) ==
    \/ PauseRun(r)
    \/ ResumeRun(r)
    \/ DecideApproval(r)
    \/ CancelRun(r)

RuntimeNext ==
    \/ \E w \in Workers : WorkerStep(w) \/ Heartbeat(w) \/ Restart(w)
    \/ \E c \in Clients : AdvanceStep(c) \/ Crash(c)
    \/ ApiStep
    \/ \E r \in Runs : RequestStep(r)
    \/ \E i \in Items : LeaseExpires(i)

\* Worker loops and requests that were begun keep running, a client repeats
\* POST /runs until the run has a plan, and abandoned leases run out.  Nobody
\* has to pause, resume, approve or cancel, and nothing has to crash or stall.
\* docker-compose.yml sets no restart policy: that a stopped worker comes back
\* is assumed only where Supervised says so.
Fairness ==
    /\ \A w \in Workers : WF_runtime_vars(WorkerStep(w))
    /\ \A w \in Workers : WF_runtime_vars(Supervised /\ Restart(w))
    /\ \A c \in Clients : WF_runtime_vars(AdvanceStep(c))
    /\ WF_runtime_vars(ApiStep)
    /\ \A i \in Items : WF_runtime_vars((\A w \in Workers : ~Holds(w, i)) /\ LeaseExpires(i))

RuntimeSpec == RuntimeInit /\ [][RuntimeNext]_runtime_vars /\ Fairness

=============================================================================
