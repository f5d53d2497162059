------------------------- MODULE DurableController -------------------------
(***************************************************************************)
(* The controller of the durable runtime (orchestrator/controller.py) over *)
(* the repository, driven by its most general client: any API request, any *)
(* worker and the lease reaper may take its next step at any time.         *)
(*                                                                         *)
(* A controller operation reads a snapshot and appends events expecting    *)
(* the version it read, so an append that succeeds is atomic with its      *)
(* read; one that fails changes nothing.  DurableRuntime models the        *)
(* clients' own control flow, with the failed appends.                     *)
(***************************************************************************)
EXTENDS WorkflowRepository

CONSTANT max_replans         \* run policy, 3 by default

ASSUME ReplanAssumption == max_replans \in Nat

-----------------------------------------------------------------------------
(* _decide.                                                                *)

Ready(r) == ready_work_item_ids(PlanItems(r), work_item_statuses)
Blocked(r) == blocked_work_item_ids(PlanItems(r), work_item_statuses)

\* Wrong form: _matching_approval in place of _approved, a pending one counts.
NeedsApproval_NotRequested(i) ==
    i \in requires_approval /\ approvals[i] \notin {"pending", "approved"}

\* _approved: only an approval of the current plan revision counts.
NeedsApproval(i) == i \in requires_approval /\ approvals[i] # "approved"

Unapproved(r) == {i \in Ready(r) : NeedsApproval(i)}

\* The loop over the ready items returns at the first unapproved one.
Schedulable(r) ==
    IF Unapproved(r) = {} THEN Ready(r) ELSE {i \in Ready(r) : i < Min(Unapproved(r))}

TerminalFailures(r) == {i \in PlanItems(r) : work_item_statuses[i] = "failed"}

PlanComplete(r) ==
    plan_is_complete(PlanItems(r), work_item_statuses,
                     current_plan_revision[r], verified_revision[r])

ReplansExhausted(r) == current_plan_revision[r] - 1 >= max_replans

\* Wrong form: an item that can no longer start passes for work still to come.
Decision_UnfinishedIsOpen(r) ==
    IF run_status[r] \notin {"queued", "running"} THEN "continue"
    ELSE IF current_plan_revision[r] = 0 THEN "replan"
    ELSE IF PlanComplete(r) THEN "complete"
    ELSE IF Unapproved(r) # {} THEN "wait_approval"
    ELSE IF TerminalFailures(r) = {} \/ Ready(r) # {} THEN "continue"
    ELSE IF \E i \in PlanItems(r) : work_item_statuses[i] \in {"pending", "blocked"} THEN "continue"
    ELSE IF ReplansExhausted(r) THEN "fail"
    ELSE "replan"

\* The action of the ControllerDecision, the first one that applies, for a
\* controller with a planner.  A controller without one reports "fail" instead
\* of "replan" and appends the same events.
Decision(r) ==
    IF run_status[r] \notin {"queued", "running"} THEN "continue"
    ELSE IF current_plan_revision[r] = 0 THEN "replan"
    ELSE IF PlanComplete(r) THEN "complete"
    ELSE IF Unapproved(r) # {} THEN "wait_approval"
    ELSE IF TerminalFailures(r) = {} \/ Ready(r) # {} THEN "continue"
    ELSE IF ReplansExhausted(r) THEN "fail"
    ELSE "replan"

Deciding(r) == run_status[r] \in {"queued", "running"} /\ current_plan_revision[r] # 0

\* The run status after the decision's events.
DecidedStatus(r) ==
    CASE Decision(r) = "complete" -> "completed"
      [] Decision(r) = "fail" -> "failed"
      [] Decision(r) = "wait_approval"
            /\ approvals[Min(Unapproved(r))] # "pending" -> "waiting_approval"
      [] OTHER -> "running"

\* The items the decision has work_blocked and work_ready events for; a
\* completing run gets no other event.
NewlyBlocked(r) == IF Decision(r) = "complete" THEN {} ELSE Blocked(r)

NewlyReady(r) ==
    IF Decision(r) = "complete" THEN {}
    ELSE {i \in Schedulable(r) : work_item_statuses[i] # "ready"}

DecidedItem(r, i, current) ==
    IF i \in NewlyBlocked(r) THEN "blocked"
    ELSE IF i \in NewlyReady(r) THEN "ready"
    ELSE current

AppendsEvents(r) ==
    /\ Deciding(r)
    /\ \/ DecidedStatus(r) # run_status[r]
       \/ NewlyBlocked(r) \cup NewlyReady(r) # {}

reconcile(r) ==
    /\ AppendsEvents(r)
    /\ run_status' = [run_status EXCEPT ![r] = DecidedStatus(r)]
    /\ work_item_statuses' =
          [i \in Items |-> DecidedItem(r, i, work_item_statuses[i])]
    /\ item_status' = [i \in Items |-> DecidedItem(r, i, item_status[i])]
    /\ approvals' =
          IF DecidedStatus(r) = "waiting_approval"
            THEN [approvals EXCEPT ![Min(Unapproved(r))] = "pending"]
            ELSE approvals
    /\ UNCHANGED <<current_plan_revision, verified_revision, latest_checkpoints,
                   fencing_token, current_attempt_id, attempt_status,
                   checkpoint_sequence, lease_live, integration_lock>>

-----------------------------------------------------------------------------
(* commit_plan, ensure_plan and replan_from_evidence.                      *)

\* Wrong form: rows outside the plan are left as they are.
ProjectedStatus_Kept(plan, i) ==
    IF i \in plan /\ item_status[i] = "absent" THEN "pending" ELSE item_status[i]

\* _project_event of plan_committed: a row that exists keeps its status, and a
\* row outside the plan is cancelled unless it succeeded.
ProjectedStatus(plan, i) ==
    IF i \in plan
      THEN IF item_status[i] = "absent" THEN "pending" ELSE item_status[i]
      ELSE IF item_status[i] \in {"absent", "succeeded"} THEN item_status[i] ELSE "cancelled"

\* plan_committed: surviving items keep their status, new ones are pending,
\* dropped ones leave the aggregate; approvals of the old revision are
\* invalidated.
CommitPlan(r, plan) ==
    /\ run_status[r] \notin TERMINAL_RUN_STATUSES \cup {"absent"}
    /\ validate(plan)
    /\ current_plan_revision' = [current_plan_revision EXCEPT ![r] = @ + 1]
    /\ verified_revision' = [verified_revision EXCEPT ![r] = 0]
    /\ work_item_statuses' =
          [i \in Items |->
             IF RunOf[i] # r THEN work_item_statuses[i]
             ELSE IF i \notin plan THEN "absent"
             ELSE IF i \in PlanItems(r) THEN work_item_statuses[i]
             ELSE "pending"]
    /\ approvals' = [i \in Items |-> IF RunOf[i] = r THEN "absent" ELSE approvals[i]]
    /\ item_status' =
          [i \in Items |->
             IF RunOf[i] # r THEN item_status[i] ELSE ProjectedStatus(plan, i)]
    /\ UNCHANGED <<run_status, latest_checkpoints, fencing_token, current_attempt_id,
                   attempt_status, checkpoint_sequence, lease_live, integration_lock>>

\* The first plan, by create_run of the API or by ensure_plan.
commit_plan(r) ==
    /\ current_plan_revision[r] = 0
    /\ CommitPlan(r, AddedItems(r, 1))

FailedOrBlocked(r) == {i \in PlanItems(r) : work_item_statuses[i] \in {"failed", "blocked"}}

\* The patch is built from one snapshot and applied to a later one of the same
\* plan revision: the failures it saw may be only some of those there are now.
CanPatch(r, cancel) ==
    /\ current_plan_revision[r] \in 1..(MaxRevision - 1)
    /\ PatchApplies(PlanItems(r), work_item_statuses, cancel,
                    AddedItems(r, current_plan_revision[r] + 1))

apply_patch(r, cancel) ==
    /\ CanPatch(r, cancel)
    /\ CommitPlan(r, PatchedPlan(PlanItems(r), cancel,
                                 AddedItems(r, current_plan_revision[r] + 1)))

replan_from_evidence(r) ==
    \E seen \in (SUBSET FailedOrBlocked(r)) \ {{}} :
       apply_patch(r, ObsoleteItems(PlanItems(r), work_item_statuses, seen))

-----------------------------------------------------------------------------
(* Requests of the control API.                                            *)

\* Wrong form: a rejection leaves the run waiting.
ApprovalTarget_StillWaiting(r, approved) == IF approved THEN "running" ELSE run_status[r]

ApprovalTarget(r, approved) == IF approved THEN "running" ELSE "failed"

decide_approval(r, i, approved) ==
    /\ RunOf[i] = r
    /\ approvals[i] = "pending"
    /\ RunMay(run_status[r], ApprovalTarget(r, approved))
    /\ approvals' = [approvals EXCEPT ![i] = IF approved THEN "approved" ELSE "rejected"]
    /\ run_status' = [run_status EXCEPT ![r] = ApprovalTarget(r, approved)]
    /\ UNCHANGED <<current_plan_revision, verified_revision, work_item_statuses,
                   latest_checkpoints, table_vars>>

\* pause_run and resume_run.  resume_run refuses a run it saw waiting for an
\* approval, but changes the status from a later snapshot.
change_status(r, status) ==
    /\ status \in {"paused", "running"}
    /\ run_status[r] # status
    /\ RunMay(run_status[r], status)
    /\ run_status' = [run_status EXCEPT ![r] = status]
    /\ UNCHANGED <<current_plan_revision, verified_revision, work_item_statuses,
                   approvals, latest_checkpoints, table_vars>>

\* Wrong form: leased items are left to their workers.
CancelledItems_NotLeased(r) ==
    {i \in PlanItems(r) :
        work_item_statuses[i] \notin {"succeeded", "cancelled"} \cup ActiveStatus}

\* Wrong form: finished items are not spared.
CancelledItems_Finished(r) == {i \in PlanItems(r) : work_item_statuses[i] # "cancelled"}

\* change_status to cancelled appends a work_cancelled event for every item of
\* the plan that neither succeeded nor is cancelled.
CancelledItems(r) ==
    {i \in PlanItems(r) : work_item_statuses[i] \notin {"succeeded", "cancelled"}}

cancel(r) ==
    /\ run_status[r] # "cancelled"
    /\ RunMay(run_status[r], "cancelled")
    /\ run_status' = [run_status EXCEPT ![r] = "cancelled"]
    /\ work_item_statuses' =
          [i \in Items |-> IF i \in CancelledItems(r) THEN "cancelled"
                                                      ELSE work_item_statuses[i]]
    /\ item_status' =
          [i \in Items |-> IF i \in CancelledItems(r) THEN "cancelled" ELSE item_status[i]]
    /\ attempt_status' =
          [i \in Items |->
             [n \in AttemptIds |->
                IF /\ i \in CancelledItems(r)
                   /\ n = current_attempt_id[i]
                   /\ attempt_status[i][n] \in ActiveStatus
                  THEN "cancelled" ELSE attempt_status[i][n]]]
    /\ integration_lock' =
          IF \E i \in CancelledItems(r) :
                integration_lock = [item |-> i, attempt |-> current_attempt_id[i]]
            THEN NoAttempt ELSE integration_lock
    /\ current_attempt_id' =
          [i \in Items |-> IF i \in CancelledItems(r) THEN 0 ELSE current_attempt_id[i]]
    /\ lease_live' = [i \in Items |-> IF i \in CancelledItems(r) THEN FALSE ELSE lease_live[i]]
    /\ UNCHANGED <<current_plan_revision, verified_revision, approvals,
                   latest_checkpoints, fencing_token, checkpoint_sequence>>

-----------------------------------------------------------------------------
(* The most general client.                                                *)

Init == RepositoryInit

ControllerStep(r) ==
    \/ create_run(r)
    \/ commit_plan(r)
    \/ reconcile(r)
    \/ replan_from_evidence(r)
    \/ \E i \in Items, approved \in BOOLEAN : decide_approval(r, i, approved)
    \/ \E status \in {"paused", "running"} : change_status(r, status)
    \/ cancel(r)

AttemptStep(i, n) ==
    \/ start_attempt(i, n)
    \/ renew_lease(i, n)
    \/ \E seq \in 1..MaxSequence : commit_checkpoint(i, n, seq)
    \/ \E succeeded, retryable \in BOOLEAN : complete_attempt(i, n, succeeded, retryable)
    \/ complete_cancelled_attempt(i, n)

LeaseStep ==
    \/ \E w \in Workers, i \in Items : claim_work(w, i)
    \/ \E i \in Items : ExpireLease(i)
    \/ \E S \in SUBSET Items : release_expired_leases(S)

Next ==
    \/ \E r \in Runs : ControllerStep(r)
    \/ \E i \in Items, n \in AttemptIds : AttemptStep(i, n)
    \/ LeaseStep

Spec == Init /\ [][Next]_repository_vars

=============================================================================
