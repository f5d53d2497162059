------------------------- MODULE WorkflowRepository -------------------------
(***************************************************************************)
(* The transactional store of the durable runtime                          *)
(* (orchestrator/workflow_repository.py) with the event reducer it applies *)
(* (orchestrator/durable_reducer.py), for the runs of one project.         *)
(*                                                                         *)
(* Every action below is one database transaction.  A transaction that     *)
(* raises changes nothing, so its refusals are the negation of its guard.  *)
(* The aggregate (runs.snapshot_json) and the projection tables are kept   *)
(* as separate variables because the code updates them by separate paths.  *)
(***************************************************************************)
EXTENDS PlanGraph

CONSTANTS
    Workers,
    capabilities,            \* the capabilities each worker claims with
    required_capabilities,   \* WorkItem.required_capabilities
    max_active_work_items,   \* projects.max_active_work_items
    max_concurrent_runs,     \* projects.max_concurrent_runs
    MaxSequence              \* bound: checkpoints per attempt

ASSUME RepositoryAssumption ==
    /\ MaxSequence \in Nat
    /\ max_active_work_items \in Nat
    /\ max_concurrent_runs \in Nat

VARIABLES
    \* the aggregate of each run
    run_status,              \* "absent" before create_run
    current_plan_revision,   \* 0 is None
    verified_revision,       \* 0 is None
    work_item_statuses,      \* "absent" outside the current plan
    approvals,               \* of the current revision, per item
    latest_checkpoints,      \* per item, [attempt, sequence]
    \* the projection tables
    item_status,             \* work_items.status
    fencing_token,           \* work_items.fencing_token = attempt_count
    current_attempt_id,      \* work_items.current_attempt_id, 0 is None
    attempt_status,          \* attempts.status, per item and attempt number
    checkpoint_sequence,     \* last checkpoints.sequence of each attempt
    lease_live,              \* the current attempt's lease_expires_at > now
    integration_lock         \* integration_locks.attempt_id

aggregate_vars == <<run_status, current_plan_revision, verified_revision,
                    work_item_statuses, approvals, latest_checkpoints>>

table_vars == <<item_status, fencing_token, current_attempt_id, attempt_status,
                checkpoint_sequence, lease_live, integration_lock>>

repository_vars == <<aggregate_vars, table_vars>>

\* An attempt is named by its item and its number.  claim_work increments
\* attempt_count and fencing_token together, so one number stands for both.
AttemptIds == 1..AttemptLimit
NoAttempt == [item |-> 0, attempt |-> 0]
NoCheckpoint == [attempt |-> 0, sequence |-> 0]

PlanItems(r) == {i \in Items : RunOf[i] = r /\ work_item_statuses[i] # "absent"}

RepositoryInit ==
    /\ run_status = [r \in Runs |-> "absent"]
    /\ current_plan_revision = [r \in Runs |-> 0]
    /\ verified_revision = [r \in Runs |-> 0]
    /\ work_item_statuses = [i \in Items |-> "absent"]
    /\ approvals = [i \in Items |-> "absent"]
    /\ latest_checkpoints = [i \in Items |-> NoCheckpoint]
    /\ item_status = [i \in Items |-> "absent"]
    /\ fencing_token = [i \in Items |-> 0]
    /\ current_attempt_id = [i \in Items |-> 0]
    /\ attempt_status = [i \in Items |-> [n \in AttemptIds |-> "absent"]]
    /\ checkpoint_sequence = [i \in Items |-> [n \in AttemptIds |-> 0]]
    /\ lease_live = [i \in Items |-> FALSE]
    /\ integration_lock = NoAttempt

-----------------------------------------------------------------------------
(* Runs.                                                                   *)

\* create_run counts the project's non-terminal runs under the project lock.
\* The idempotent repetition of a request finds the run and changes nothing.
create_run(r) ==
    /\ run_status[r] = "absent"
    /\ Cardinality({q \in Runs : run_status[q] \in
                       {"queued", "running", "paused", "waiting_approval"}})
         < max_concurrent_runs
    /\ run_status' = [run_status EXCEPT ![r] = "queued"]
    /\ UNCHANGED <<current_plan_revision, verified_revision, work_item_statuses,
                   approvals, latest_checkpoints, table_vars>>

-----------------------------------------------------------------------------
(* Leases.                                                                 *)

ActiveItems == {i \in Items : item_status[i] \in ActiveStatus}

\* The project's integration lock stops a claim while its lease is unexpired.
\* claim_work and renew_lease write the lock's expiry together with the one
\* of the attempt that holds it.
IntegrationLocked ==
    /\ integration_lock # NoAttempt
    /\ lease_live[integration_lock.item]

\* Wrong form: an item whose lease has run out is claimed without a release.
CanClaim_Expired(w, i) ==
    /\ \/ item_status[i] = "ready"
       \/ item_status[i] \in ActiveStatus /\ ~lease_live[i]
    /\ run_status[RunOf[i]] = "running"
    /\ required_capabilities[i] \subseteq capabilities[w]
    /\ kind[i] = "integrate" => ~IntegrationLocked
    /\ fencing_token[i] < max_attempts[i]

\* not_before (retry back-off) is a delay only, and priority is always 0; with
\* skip_locked any eligible row may be the one a worker gets.
CanClaim(w, i) ==
    /\ item_status[i] = "ready"
    /\ run_status[RunOf[i]] = "running"
    /\ required_capabilities[i] \subseteq capabilities[w]
    /\ Cardinality(ActiveItems) < max_active_work_items
    /\ kind[i] = "integrate" => ~IntegrationLocked
    /\ WorkMay(work_item_statuses[i], "leased")

claim_work(w, i) ==
    /\ CanClaim(w, i)
    /\ LET n == fencing_token[i] + 1 IN
       /\ fencing_token' = [fencing_token EXCEPT ![i] = n]
       /\ current_attempt_id' = [current_attempt_id EXCEPT ![i] = n]
       /\ attempt_status' = [attempt_status EXCEPT ![i][n] = "leased"]
       /\ integration_lock' = IF kind[i] = "integrate"
                                THEN [item |-> i, attempt |-> n]
                                ELSE integration_lock
    /\ item_status' = [item_status EXCEPT ![i] = "leased"]
    /\ work_item_statuses' = [work_item_statuses EXCEPT ![i] = "leased"]
    /\ lease_live' = [lease_live EXCEPT ![i] = TRUE]
    /\ UNCHANGED <<run_status, current_plan_revision, verified_revision, approvals,
                   latest_checkpoints, checkpoint_sequence>>

\* _lock_attempt: the attempt exists and its fencing token is the row's.
Fenced(i, n) ==
    /\ n \in AttemptIds
    /\ attempt_status[i][n] # "absent"
    /\ fencing_token[i] = n

StartedStatus(i) == IF kind[i] = "verify" THEN "verifying" ELSE "running"

\* start_attempt of an attempt that was already started returns the snapshot.
CanStart(i, n) ==
    /\ Fenced(i, n)
    /\ attempt_status[i][n] = "leased"
    /\ lease_live[i]
    /\ WorkMay(work_item_statuses[i], StartedStatus(i))

start_attempt(i, n) ==
    /\ CanStart(i, n)
    /\ attempt_status' = [attempt_status EXCEPT ![i][n] = StartedStatus(i)]
    /\ item_status' = [item_status EXCEPT ![i] = StartedStatus(i)]
    /\ work_item_statuses' = [work_item_statuses EXCEPT ![i] = StartedStatus(i)]
    /\ UNCHANGED <<run_status, current_plan_revision, verified_revision, approvals,
                   latest_checkpoints, fencing_token, current_attempt_id,
                   checkpoint_sequence, lease_live, integration_lock>>

\* renew_lease does not look at the old expiry: an expired lease that nobody
\* has released yet is revived.
CanRenew(i, n) ==
    /\ Fenced(i, n)
    /\ attempt_status[i][n] \in ActiveStatus
    /\ current_attempt_id[i] = n

renew_lease(i, n) ==
    /\ CanRenew(i, n)
    /\ lease_live' = [lease_live EXCEPT ![i] = TRUE]
    /\ UNCHANGED <<aggregate_vars, item_status, fencing_token, current_attempt_id,
                   attempt_status, checkpoint_sequence, integration_lock>>

\* LEASE_SECONDS pass without a renewal.
ExpireLease(i) ==
    /\ lease_live[i]
    /\ lease_live' = [lease_live EXCEPT ![i] = FALSE]
    /\ UNCHANGED <<aggregate_vars, item_status, fencing_token, current_attempt_id,
                   attempt_status, checkpoint_sequence, integration_lock>>

\* Wrong form: only the sequence is compared.
CanCheckpoint_Unfenced(i, n, seq) ==
    /\ n \in AttemptIds
    /\ attempt_status[i][n] # "absent"
    /\ seq > checkpoint_sequence[i][n]

\* A sequence that does not increase is refused, or is the repetition of the
\* last commit and changes nothing.
CanCheckpoint(i, n, seq) ==
    /\ Fenced(i, n)
    /\ attempt_status[i][n] \in ActiveStatus
    /\ seq > checkpoint_sequence[i][n]

commit_checkpoint(i, n, seq) ==
    /\ CanCheckpoint(i, n, seq)
    /\ checkpoint_sequence' = [checkpoint_sequence EXCEPT ![i][n] = seq]
    /\ latest_checkpoints' =
          [latest_checkpoints EXCEPT ![i] = [attempt |-> n, sequence |-> seq]]
    /\ UNCHANGED <<run_status, current_plan_revision, verified_revision,
                   work_item_statuses, approvals, item_status, fencing_token,
                   current_attempt_id, attempt_status, lease_live, integration_lock>>

\* Wrong form: the lock is left to its expiry.
LockAfterRelease_Kept(i, n) == integration_lock

\* _release_integration_lock clears the lock only if this attempt holds it.
LockAfterRelease(i, n) ==
    IF integration_lock = [item |-> i, attempt |-> n] THEN NoAttempt ELSE integration_lock

\* Wrong form: retries are not counted.
RetryStatus_Uncounted(i, retryable) == IF retryable THEN "ready" ELSE "failed"

\* Wrong form: one attempt more than the budget.
RetryStatus_OneMore(i, retryable) ==
    IF retryable /\ fencing_token[i] <= max_attempts[i] THEN "ready" ELSE "failed"

\* Where a failed or expired attempt leaves its item.
RetryStatus(i, retryable) ==
    IF retryable /\ fencing_token[i] < max_attempts[i] THEN "ready" ELSE "failed"

CompletionTarget(i, succeeded, retryable) ==
    IF succeeded THEN "succeeded" ELSE RetryStatus(i, retryable)

\* Wrong form: the kind of the succeeded item is not looked at.
VerifiedAfter_AnyKind(i, succeeded) ==
    IF succeeded THEN current_plan_revision[RunOf[i]] ELSE 0

\* work_succeeded of a verifier verifies the current revision, work_failed of
\* any item clears it.
VerifiedAfter(i, succeeded) ==
    IF ~succeeded THEN 0
    ELSE IF kind[i] = "verify" THEN current_plan_revision[RunOf[i]]
    ELSE verified_revision[RunOf[i]]

\* Wrong form: whoever has the row's fencing token may complete it.
CanComplete_TokenOnly(i, n, succeeded, retryable) ==
    /\ Fenced(i, n)
    /\ item_status[i] # "cancelled"
    /\ attempt_status[i][n] \notin {"succeeded", "failed"}

\* complete_attempt while the item still has this attempt.
CanComplete(i, n, succeeded, retryable) ==
    /\ Fenced(i, n)
    /\ item_status[i] # "cancelled"
    /\ attempt_status[i][n] \notin {"succeeded", "failed"}
    /\ current_attempt_id[i] = n
    /\ WorkMay(work_item_statuses[i], CompletionTarget(i, succeeded, retryable))

complete_attempt(i, n, succeeded, retryable) ==
    /\ CanComplete(i, n, succeeded, retryable)
    /\ LET target == CompletionTarget(i, succeeded, retryable) IN
       /\ item_status' = [item_status EXCEPT ![i] = target]
       /\ work_item_statuses' = [work_item_statuses EXCEPT ![i] = target]
    /\ attempt_status' = [attempt_status EXCEPT ![i][n] =
                             IF succeeded THEN "succeeded" ELSE "failed"]
    /\ verified_revision' =
          [verified_revision EXCEPT ![RunOf[i]] = VerifiedAfter(i, succeeded)]
    /\ current_attempt_id' = [current_attempt_id EXCEPT ![i] = 0]
    /\ lease_live' = [lease_live EXCEPT ![i] = FALSE]
    /\ integration_lock' = LockAfterRelease(i, n)
    /\ UNCHANGED <<run_status, current_plan_revision, approvals, latest_checkpoints,
                   fencing_token, checkpoint_sequence>>

\* Wrong form: any repeated completion closes the attempt as cancelled.
CanCompleteCancelled_Any(i, n) ==
    Fenced(i, n) /\ item_status[i] \notin ActiveStatus

\* complete_attempt of an item cancelled meanwhile: the attempt is closed, the
\* outcome discarded, and no event is appended.
CanCompleteCancelled(i, n) == Fenced(i, n) /\ item_status[i] = "cancelled"

complete_cancelled_attempt(i, n) ==
    /\ CanCompleteCancelled(i, n)
    /\ attempt_status' = [attempt_status EXCEPT ![i][n] = "cancelled"]
    /\ current_attempt_id' = [current_attempt_id EXCEPT ![i] = 0]
    /\ lease_live' = [lease_live EXCEPT ![i] = FALSE]
    /\ integration_lock' = LockAfterRelease(i, n)
    /\ UNCHANGED <<aggregate_vars, item_status, fencing_token, checkpoint_sequence>>

\* Wrong form: only attempts that have not started are released.
ExpiredItems_NotStarted == {i \in ActiveItems : item_status[i] = "leased" /\ ~lease_live[i]}

\* release_expired_leases: rows other transactions hold are skipped, and the
\* batch is limited, so any non-empty set of expired leases may be released.
ExpiredItems == {i \in ActiveItems : ~lease_live[i]}

CanRelease(S) ==
    /\ S \subseteq ExpiredItems
    /\ S # {}
    /\ \A i \in S : WorkMay(work_item_statuses[i], RetryStatus(i, TRUE))

release_expired_leases(S) ==
    /\ CanRelease(S)
    /\ item_status' =
          [i \in Items |-> IF i \in S THEN RetryStatus(i, TRUE) ELSE item_status[i]]
    /\ work_item_statuses' =
          [i \in Items |-> IF i \in S THEN RetryStatus(i, TRUE)
                                      ELSE work_item_statuses[i]]
    /\ attempt_status' =
          [i \in Items |->
             [n \in AttemptIds |->
                IF i \in S /\ n = current_attempt_id[i] THEN "expired"
                                                        ELSE attempt_status[i][n]]]
    /\ verified_revision' =
          [r \in Runs |-> IF \E i \in S : RunOf[i] = r THEN 0 ELSE verified_revision[r]]
    /\ current_attempt_id' =
          [i \in Items |-> IF i \in S THEN 0 ELSE current_attempt_id[i]]
    /\ integration_lock' =
          IF \E i \in S : integration_lock = [item |-> i, attempt |-> current_attempt_id[i]]
            THEN NoAttempt ELSE integration_lock
    /\ UNCHANGED <<run_status, current_plan_revision, approvals, latest_checkpoints,
                   fencing_token, checkpoint_sequence, lease_live>>

=============================================================================
