------------------------- MODULE DurableProperties -------------------------
(***************************************************************************)
(* What the repository and the controller promise together.  Every         *)
(* invariant here is checked by TLC on the instances of the MC modules;    *)
(* DurableProofs proves those its README section names for all instances.  *)
(***************************************************************************)
EXTENDS DurableController

-----------------------------------------------------------------------------
(* Types.                                                                  *)

AggregateTypeOK ==
    /\ run_status \in [Runs -> RunStatus \cup {"absent"}]
    /\ current_plan_revision \in [Runs -> 0..MaxRevision]
    /\ verified_revision \in [Runs -> 0..MaxRevision]
    /\ work_item_statuses \in [Items -> WorkItemStatus \cup {"absent"}]
    /\ approvals \in [Items -> ApprovalStatus \cup {"absent"}]
    /\ latest_checkpoints \in
          [Items -> [attempt : 0..AttemptLimit, sequence : 0..MaxSequence]]

TablesTypeOK ==
    /\ item_status \in [Items -> WorkItemStatus \cup {"absent"}]
    /\ fencing_token \in [Items -> 0..AttemptLimit]
    /\ current_attempt_id \in [Items -> 0..AttemptLimit]
    /\ attempt_status \in [Items -> [AttemptIds -> AttemptStatus \cup {"absent"}]]
    /\ checkpoint_sequence \in [Items -> [AttemptIds -> 0..MaxSequence]]
    /\ lease_live \in [Items -> BOOLEAN]
    /\ integration_lock \in [item : Items, attempt : AttemptIds] \cup {NoAttempt}

\* Every variable holds a value of its table's or snapshot's column type; in
\* particular no attempt is numbered beyond the limit of WorkBudget.validate.
TypeOK == AggregateTypeOK /\ TablesTypeOK

-----------------------------------------------------------------------------
(* Leases and fencing.                                                     *)

\* An attempt is open exactly while its item is leased to it: the row's
\* fencing token and current attempt name it, and both have the same status.
\* So at most one attempt of an item is ever open, whatever is claimed,
\* expired, completed late, replanned or cancelled in between.
OneOpenAttempt ==
    \A i \in Items, n \in AttemptIds :
       attempt_status[i][n] \in ActiveStatus
         <=> /\ item_status[i] \in ActiveStatus
             /\ n = fencing_token[i]

CurrentAttemptIsOpen ==
    \A i \in Items :
       IF item_status[i] \in ActiveStatus
         THEN /\ current_attempt_id[i] = fencing_token[i]
              /\ current_attempt_id[i] \in AttemptIds
              /\ attempt_status[i][current_attempt_id[i]] = item_status[i]
         ELSE current_attempt_id[i] = 0

AttemptsAreNumbered ==
    \A i \in Items, n \in AttemptIds :
       attempt_status[i][n] = "absent" <=> n > fencing_token[i]

Fencing == OneOpenAttempt /\ CurrentAttemptIsOpen /\ AttemptsAreNumbered

\* An item is claimed at most max_attempts times, and one that is not leased,
\* finished or dropped can still be claimed: complete_attempt and the lease
\* reaper send an item whose attempts are used up to failed, never to ready.
RetryBudget ==
    \A i \in Items :
       /\ fencing_token[i] <= max_attempts[i]
       /\ item_status[i] \in {"absent", "pending", "ready", "blocked"}
             => fencing_token[i] < max_attempts[i]

\* A succeeded item has exactly one succeeded attempt, the last one; no other
\* item has one.  A late or repeated completion cannot add a second success.
OneSuccess ==
    \A i \in Items, n \in AttemptIds :
       attempt_status[i][n] = "succeeded"
         <=> item_status[i] = "succeeded" /\ n = fencing_token[i]

\* The integration lock names an open integrate attempt: completing, expiring
\* or cancelling its holder releases it, so an idle lock blocks nobody.
LockIsHeldByOpenAttempt ==
    integration_lock # NoAttempt =>
       /\ kind[integration_lock.item] = "integrate"
       /\ item_status[integration_lock.item] \in ActiveStatus
       /\ integration_lock.attempt = fencing_token[integration_lock.item]

-----------------------------------------------------------------------------
(* Aggregate and projection.                                               *)

\* The work_items table and the aggregate's work_item_statuses, which
\* different code paths write, agree on every item of the current plan; a row
\* outside the plan is one the plan dropped.
ProjectionAgrees ==
    \A i \in Items :
       IF work_item_statuses[i] # "absent"
         THEN item_status[i] = work_item_statuses[i]
         ELSE item_status[i] \in {"absent", "cancelled"}

-----------------------------------------------------------------------------
(* Plans.                                                                  *)

\* An item is ready, leased or succeeded only after all its dependencies
\* succeeded, also across retries and replans that drop part of the plan.
DependencyOrder ==
    \A i \in Items :
       work_item_statuses[i] \in ActiveStatus \cup {"ready", "succeeded"}
         => \A d \in dependencies[i] : work_item_statuses[d] = "succeeded"

\* A run is completed only when every required item of its current plan
\* succeeded and, if the policy asks for it, a verifier did.
CompletedMeansDone ==
    \A r \in Runs :
       run_status[r] = "completed" =>
          /\ \A i \in RequiredIds(PlanItems(r)) : work_item_statuses[i] = "succeeded"
          /\ require_verifier =>
                \E i \in PlanItems(r) :
                   kind[i] = "verify" /\ work_item_statuses[i] = "succeeded"

\* verified_revision is the current revision or None, and when it is set a
\* verifier of the current plan has succeeded: a replan or a failure clears it.
VerifiedRevisionIsCurrent ==
    \A r \in Runs :
       verified_revision[r] # 0 =>
          /\ verified_revision[r] = current_plan_revision[r]
          /\ \E i \in PlanItems(r) :
                kind[i] = "verify" /\ work_item_statuses[i] = "succeeded"

\* A running run for which reconcile has nothing to append and no worker an
\* open attempt does not just stand still: a worker can claim an item, somebody
\* can decide an approval, a planner can replan.  The one other way is that of
\* durable_reducer.py:198: everything succeeded, and a failure in between has
\* cleared verified_revision.
Quiescent(r) ==
    /\ run_status[r] = "running"
    /\ current_plan_revision[r] # 0
    /\ ~AppendsEvents(r)
    /\ \A i \in PlanItems(r) : work_item_statuses[i] \notin ActiveStatus

VerificationIsLost(r) ==
    /\ require_verifier
    /\ verified_revision[r] = 0
    /\ \A i \in PlanItems(r) : work_item_statuses[i] = "succeeded"

IdleRunsCanGoOn ==
    \A r \in Runs :
       Quiescent(r) =>
          \/ \E i \in PlanItems(r) : work_item_statuses[i] = "ready"
          \/ \E i \in PlanItems(r) : approvals[i] = "pending"
          \/ Decision(r) = "replan"
          \/ VerificationIsLost(r)

\* After a cancellation no item of the run is open or schedulable, and no
\* late completion, renewal or expiry can bring one back.
CancelledIsQuiet ==
    \A r \in Runs :
       run_status[r] = "cancelled" =>
          \A i \in Items :
             RunOf[i] = r => /\ item_status[i] \in {"absent", "succeeded", "cancelled"}
                             /\ ~lease_live[i]

-----------------------------------------------------------------------------
(* Action properties.                                                      *)

\* A succeeded item stays succeeded and in the plan: no retry, replan, late
\* completion or cancellation undoes finished work.
SuccessIsFinal ==
    [][\A i \in Items :
          work_item_statuses[i] = "succeeded" =>
             /\ work_item_statuses'[i] = "succeeded"
             /\ item_status'[i] = "succeeded"]_repository_vars

\* A terminal run keeps its status and its plan, and none of its items is
\* leased any more.
TerminalIsFinal ==
    [][\A r \in Runs :
          run_status[r] \in TERMINAL_RUN_STATUSES =>
             /\ run_status'[r] = run_status[r]
             /\ current_plan_revision'[r] = current_plan_revision[r]
             /\ \A i \in PlanItems(r) : fencing_token'[i] = fencing_token[i]
       ]_repository_vars

\* latest_checkpoints never goes back: not to an older attempt, and not to an
\* earlier sequence of the same attempt, however commits of two workers that
\* both believe to hold the item interleave.
CheckpointBefore(a, b) ==
    \/ a.attempt < b.attempt
    \/ a.attempt = b.attempt /\ a.sequence <= b.sequence

CheckpointsAdvance ==
    [][\A i \in Items : CheckpointBefore(latest_checkpoints[i], latest_checkpoints'[i])
      ]_repository_vars

\* A run completes only in a step in which its current revision is verified.
CompletesVerified ==
    [][\A r \in Runs :
          /\ run_status'[r] = "completed"
          /\ run_status[r] # "completed"
          /\ require_verifier
          => verified_revision'[r] = current_plan_revision'[r]]_repository_vars

=============================================================================
