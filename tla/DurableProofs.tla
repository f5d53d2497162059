--------------------------- MODULE DurableProofs ---------------------------
(***************************************************************************)
(* Proofs, for every project, plan and worker pool, of the invariants      *)
(* DurableProperties states about leases, attempts, projections and plans. *)
(*                                                                         *)
(* None of the invariants is inductive alone: that a claim stays within    *)
(* the attempt limit needs the retry budget, that a dropped item is not    *)
(* leased needs the dependency order, and that a new item's row is fresh   *)
(* needs what is said here of the items of later revisions.  Inv is their  *)
(* conjunction.                                                            *)
(***************************************************************************)
EXTENDS DurableProperties, WellFoundedInduction, TLAPS

\* A work item no committed revision has introduced has no row.
LaterItemsAreNew ==
    \A i \in Items :
       current_plan_revision[RunOf[i]] < RevisionOf[i] =>
          /\ item_status[i] = "absent"
          /\ work_item_statuses[i] = "absent"

RowsAreNumbered ==
    \A i \in Items :
       /\ item_status[i] = "absent" => fencing_token[i] = 0
       /\ item_status[i] \in ActiveStatus \cup {"succeeded"} => fencing_token[i] > 0

\* Only an open attempt has a running lease.
LiveLeaseIsOpen == \A i \in Items : lease_live[i] => item_status[i] \in ActiveStatus

Inv ==
    /\ TypeOK
    /\ Fencing
    /\ OneSuccess
    /\ RetryBudget
    /\ RowsAreNumbered
    /\ LiveLeaseIsOpen
    /\ LockIsHeldByOpenAttempt
    /\ ProjectionAgrees
    /\ LaterItemsAreNew
    /\ DependencyOrder

\* An empty store, before the first create_run, satisfies every part of Inv.
LEMMA InitInv == Init => Inv
<1> SUFFICES ASSUME Init PROVE Inv
  OBVIOUS
<1> USE ItemAssumption, BudgetAssumption, RecoveryRequiredAssumption, RepositoryAssumption
<1> USE DEF Init, RepositoryInit, AttemptIds, NoAttempt, NoCheckpoint
<1>1. TypeOK
  <2>1. AggregateTypeOK
    BY DEF AggregateTypeOK
  <2>2. TablesTypeOK
    BY DEF TablesTypeOK
  <2> QED BY <2>1, <2>2 DEF TypeOK
<1>2. Fencing
  BY DEF Fencing, OneOpenAttempt, CurrentAttemptIsOpen, AttemptsAreNumbered, ActiveStatus
<1>9. OneSuccess
  BY DEF OneSuccess
<1>10. LiveLeaseIsOpen
  BY DEF LiveLeaseIsOpen
<1>3. RetryBudget
  BY DEF RetryBudget
<1>4. RowsAreNumbered
  BY DEF RowsAreNumbered, ActiveStatus
<1>5. LockIsHeldByOpenAttempt
  BY DEF LockIsHeldByOpenAttempt
<1>6. ProjectionAgrees
  BY DEF ProjectionAgrees
<1>7. LaterItemsAreNew
  BY DEF LaterItemsAreNew
<1>8. DependencyOrder
  BY DEF DependencyOrder, ActiveStatus
<1> QED BY <1>1, <1>2, <1>3, <1>4, <1>5, <1>6, <1>7, <1>8, <1>9, <1>10 DEF Inv

-----------------------------------------------------------------------------
(* Lease transactions.                                                     *)

\* claim_work opens one new attempt under a new fencing token: the item was
\* ready, so by Fencing no other attempt of it is open.
LEMMA ClaimStep ==
  ASSUME Inv, NEW w \in Workers, NEW i \in Items, claim_work(w, i)
  PROVE  Inv'
<1> DEFINE n == fencing_token[i] + 1
<1> USE ItemAssumption, BudgetAssumption, RepositoryAssumption
<1>a. item_status[i] = "ready"
  BY DEF claim_work, CanClaim
<1>b. work_item_statuses[i] = "ready"
  BY <1>a DEF Inv, ProjectionAgrees
<1>c. fencing_token[i] \in Nat /\ fencing_token[i] < max_attempts[i]
  BY <1>a DEF Inv, RetryBudget, TypeOK, TablesTypeOK
<1>1. /\ item_status[i] = "ready"
      /\ work_item_statuses[i] = "ready"
      /\ n \in AttemptIds
      /\ n <= max_attempts[i]
      /\ n = fencing_token[i] + 1
      /\ fencing_token[i] \in Nat
  BY <1>a, <1>b, <1>c DEF AttemptIds
<1>2. /\ attempt_status' = [attempt_status EXCEPT ![i][n] = "leased"]
      /\ fencing_token' = [fencing_token EXCEPT ![i] = n]
      /\ current_attempt_id' = [current_attempt_id EXCEPT ![i] = n]
      /\ item_status' = [item_status EXCEPT ![i] = "leased"]
      /\ work_item_statuses' = [work_item_statuses EXCEPT ![i] = "leased"]
      /\ lease_live' = [lease_live EXCEPT ![i] = TRUE]
      /\ integration_lock' = IF kind[i] = "integrate" THEN [item |-> i, attempt |-> n]
                                                      ELSE integration_lock
      /\ UNCHANGED <<run_status, current_plan_revision, verified_revision, approvals,
                     latest_checkpoints, checkpoint_sequence>>
  BY DEF claim_work
<1> HIDE DEF n
<1>t. TablesTypeOK /\ AggregateTypeOK
  BY DEF Inv, TypeOK
<1>u. "leased" \in AttemptStatus
  BY DEF AttemptStatus, ActiveStatus
<1>v. /\ attempt_status' \in [Items -> [AttemptIds -> AttemptStatus \cup {"absent"}]]
      /\ \A j \in Items, m \in AttemptIds :
            attempt_status'[j][m] = IF j = i /\ m = n THEN "leased" ELSE attempt_status[j][m]
  BY <1>1, <1>2, <1>t, <1>u DEF TablesTypeOK
<1>3. TypeOK'
  <2>1. AggregateTypeOK'
    BY <1>1, <1>2, <1>t DEF AggregateTypeOK, WorkItemStatus
  <2>2. integration_lock' \in [item : Items, attempt : AttemptIds] \cup {NoAttempt}
    BY <1>1, <1>2, <1>t DEF TablesTypeOK
  <2>3. /\ item_status' \in [Items -> WorkItemStatus \cup {"absent"}]
        /\ lease_live' \in [Items -> BOOLEAN]
        /\ checkpoint_sequence' \in [Items -> [AttemptIds -> 0..MaxSequence]]
    BY <1>1, <1>2, <1>t DEF TablesTypeOK, WorkItemStatus
  <2>4. /\ fencing_token' \in [Items -> 0..AttemptLimit]
        /\ current_attempt_id' \in [Items -> 0..AttemptLimit]
    BY <1>1, <1>2, <1>t, SMTT(30) DEF TablesTypeOK, AttemptIds
  <2> QED BY <2>1, <2>2, <2>3, <2>4, <1>v DEF TypeOK, TablesTypeOK
<1>4. Fencing'
  <2>1. TablesTypeOK /\ OneOpenAttempt /\ CurrentAttemptIsOpen /\ AttemptsAreNumbered
    BY DEF Inv, TypeOK, Fencing
  <2>2. \A j \in Items, m \in AttemptIds :
           attempt_status'[j][m] = IF j = i /\ m = n THEN "leased" ELSE attempt_status[j][m]
    BY <1>v
  <2>3. OneOpenAttempt'
    BY <1>1, <1>2, <2>1, <2>2 DEF TablesTypeOK, OneOpenAttempt, ActiveStatus
  <2>4. CurrentAttemptIsOpen'
    BY <1>1, <1>2, <2>1, <2>2 DEF TablesTypeOK, CurrentAttemptIsOpen, ActiveStatus
  <2>5. AttemptsAreNumbered'
    <3> SUFFICES ASSUME NEW j \in Items, NEW m \in AttemptIds
                 PROVE  attempt_status'[j][m] = "absent" <=> m > fencing_token'[j]
      BY DEF AttemptsAreNumbered
    <3>1. attempt_status[j][m] = "absent" <=> m > fencing_token[j]
      BY <2>1 DEF AttemptsAreNumbered
    <3>2. fencing_token'[j] = IF j = i THEN n ELSE fencing_token[j]
      BY <1>2, <2>1 DEF TablesTypeOK
    <3>3. m \in Int /\ n \in Int
      BY <1>1 DEF AttemptIds
    <3> QED BY <1>1, <2>2, <3>1, <3>2, <3>3
  <2> QED BY <2>3, <2>4, <2>5 DEF Fencing
<1>11. OneSuccess'
  BY <1>1, <1>2, <1>t, <1>v DEF Inv, OneSuccess, TablesTypeOK, AttemptsAreNumbered, Fencing
<1>12. LiveLeaseIsOpen'
  BY <1>1, <1>2, <1>t DEF Inv, LiveLeaseIsOpen, TablesTypeOK, ActiveStatus
<1>5. RetryBudget'
  BY <1>1, <1>2 DEF Inv, TypeOK, TablesTypeOK, RetryBudget
<1>6. RowsAreNumbered'
  BY <1>1, <1>2 DEF Inv, TypeOK, TablesTypeOK, RowsAreNumbered, ActiveStatus
<1>7. LockIsHeldByOpenAttempt'
  BY <1>1, <1>2 DEF Inv, TypeOK, TablesTypeOK, LockIsHeldByOpenAttempt, ActiveStatus, NoAttempt, AttemptIds
<1>8. ProjectionAgrees'
  BY <1>1, <1>2 DEF Inv, TypeOK, TablesTypeOK, AggregateTypeOK, ProjectionAgrees
<1>9. LaterItemsAreNew'
  BY <1>1, <1>2 DEF Inv, TypeOK, TablesTypeOK, AggregateTypeOK, LaterItemsAreNew
<1>10. DependencyOrder'
  BY <1>1, <1>2, DependencyAssumption
     DEF Inv, TypeOK, AggregateTypeOK, DependencyOrder, ActiveStatus
<1> QED BY <1>3, <1>4, <1>5, <1>6, <1>7, <1>8, <1>9, <1>10, <1>11, <1>12 DEF Inv

\* Steps that leave items, attempts, plans and the lock alone.
LEMMA FrameStep ==
  ASSUME Inv, TypeOK', LiveLeaseIsOpen',
         UNCHANGED <<work_item_statuses, current_plan_revision, item_status, fencing_token,
                     current_attempt_id, attempt_status, integration_lock>>
  PROVE  Inv'
<1>1. Fencing'
  BY DEF Inv, Fencing, OneOpenAttempt, CurrentAttemptIsOpen, AttemptsAreNumbered
<1>2. OneSuccess' /\ RetryBudget' /\ RowsAreNumbered'
  BY DEF Inv, OneSuccess, RetryBudget, RowsAreNumbered
<1>3. LockIsHeldByOpenAttempt' /\ ProjectionAgrees'
  BY DEF Inv, LockIsHeldByOpenAttempt, ProjectionAgrees
<1>4. LaterItemsAreNew' /\ DependencyOrder'
  BY DEF Inv, LaterItemsAreNew, DependencyOrder
<1> QED BY <1>1, <1>2, <1>3, <1>4 DEF Inv

\* What an attempt that renews, checkpoints, starts or completes finds.
LEMMA OpenAttempt ==
  ASSUME Inv, NEW i \in Items, NEW n \in AttemptIds, attempt_status[i][n] \in ActiveStatus
  PROVE  /\ item_status[i] \in ActiveStatus
         /\ fencing_token[i] = n
         /\ current_attempt_id[i] = n
         /\ attempt_status[i][n] = item_status[i]
BY DEF Inv, Fencing, OneOpenAttempt, CurrentAttemptIsOpen

\* renew_lease revives only leases of attempts that are still open.
LEMMA RenewStep ==
  ASSUME Inv, NEW i \in Items, NEW n \in AttemptIds, renew_lease(i, n)
  PROVE  Inv'
<1>1. item_status[i] \in ActiveStatus
  BY OpenAttempt DEF renew_lease, CanRenew
<1>2. TypeOK'
  BY DEF renew_lease, Inv, TypeOK, AggregateTypeOK, TablesTypeOK, aggregate_vars
<1>3. LiveLeaseIsOpen'
  BY <1>1 DEF renew_lease, Inv, LiveLeaseIsOpen, TypeOK, TablesTypeOK
<1> QED BY <1>2, <1>3, FrameStep DEF renew_lease, aggregate_vars

\* A lease that runs out closes nothing by itself.
LEMMA ExpireStep ==
  ASSUME Inv, NEW i \in Items, ExpireLease(i)
  PROVE  Inv'
<1>1. TypeOK'
  BY DEF ExpireLease, Inv, TypeOK, AggregateTypeOK, TablesTypeOK, aggregate_vars
<1>2. LiveLeaseIsOpen'
  BY DEF ExpireLease, Inv, LiveLeaseIsOpen, TypeOK, TablesTypeOK
<1> QED BY <1>1, <1>2, FrameStep DEF ExpireLease, aggregate_vars

\* commit_checkpoint touches neither items nor attempts.
LEMMA CheckpointStep ==
  ASSUME Inv, NEW i \in Items, NEW n \in AttemptIds, NEW seq \in 1..MaxSequence,
         commit_checkpoint(i, n, seq)
  PROVE  Inv'
<1> USE RepositoryAssumption, BudgetAssumption
<1>1. AggregateTypeOK'
  BY DEF commit_checkpoint, Inv, TypeOK, AggregateTypeOK, AttemptIds
<1>2. checkpoint_sequence' \in [Items -> [AttemptIds -> 0..MaxSequence]]
  BY DEF commit_checkpoint, Inv, TypeOK, TablesTypeOK
<1>3. TypeOK'
  BY <1>1, <1>2 DEF commit_checkpoint, Inv, TypeOK, TablesTypeOK
<1>4. LiveLeaseIsOpen'
  BY DEF commit_checkpoint, Inv, LiveLeaseIsOpen
<1> QED BY <1>3, <1>4, FrameStep DEF commit_checkpoint

\* start_attempt moves an open attempt, its row and its aggregate entry
\* together to running or verifying.
LEMMA StartStep ==
  ASSUME Inv, NEW i \in Items, NEW n \in AttemptIds, start_attempt(i, n)
  PROVE  Inv'
<1> DEFINE s == StartedStatus(i)
<1>1. /\ attempt_status' = [attempt_status EXCEPT ![i][n] = s]
      /\ item_status' = [item_status EXCEPT ![i] = s]
      /\ work_item_statuses' = [work_item_statuses EXCEPT ![i] = s]
      /\ UNCHANGED <<run_status, current_plan_revision, verified_revision, approvals,
                     latest_checkpoints, fencing_token, current_attempt_id,
                     checkpoint_sequence, lease_live, integration_lock>>
  BY DEF start_attempt
<1>2. /\ s \in {"running", "verifying"}
      /\ s \in ActiveStatus /\ s \in AttemptStatus /\ s \in WorkItemStatus
  BY DEF StartedStatus, ActiveStatus, AttemptStatus, WorkItemStatus
<1> HIDE DEF s
<1>3. attempt_status[i][n] = "leased"
  BY DEF start_attempt, CanStart
<1>4. /\ item_status[i] = "leased"
      /\ work_item_statuses[i] = "leased"
      /\ fencing_token[i] = n
      /\ current_attempt_id[i] = n
  BY <1>3, OpenAttempt DEF ActiveStatus, Inv, ProjectionAgrees
<1>t. TablesTypeOK /\ AggregateTypeOK
  BY DEF Inv, TypeOK
<1>v. /\ attempt_status' \in [Items -> [AttemptIds -> AttemptStatus \cup {"absent"}]]
      /\ \A j \in Items, m \in AttemptIds :
            attempt_status'[j][m] = IF j = i /\ m = n THEN s ELSE attempt_status[j][m]
  BY <1>1, <1>2, <1>t DEF TablesTypeOK
<1>w. \A j \in Items :
         /\ item_status'[j] = IF j = i THEN s ELSE item_status[j]
         /\ work_item_statuses'[j] = IF j = i THEN s ELSE work_item_statuses[j]
  <2>1. \A j \in Items : item_status'[j] = IF j = i THEN s ELSE item_status[j]
    BY <1>1, <1>t DEF TablesTypeOK
  <2>2. \A j \in Items :
           work_item_statuses'[j] = IF j = i THEN s ELSE work_item_statuses[j]
    BY <1>1, <1>t DEF AggregateTypeOK
  <2> QED BY <2>1, <2>2
<1>5. TypeOK'
  BY <1>1, <1>2, <1>t, <1>v DEF TypeOK, AggregateTypeOK, TablesTypeOK
<1>6. Fencing'
  <2>1. OneOpenAttempt'
    BY <1>1, <1>2, <1>4, <1>v, <1>w DEF Inv, Fencing, OneOpenAttempt, ActiveStatus
  <2>2. CurrentAttemptIsOpen'
    BY <1>1, <1>2, <1>4, <1>v, <1>w DEF Inv, Fencing, CurrentAttemptIsOpen, ActiveStatus
  <2>3. AttemptsAreNumbered'
    BY <1>1, <1>2, <1>3, <1>v DEF Inv, Fencing, AttemptsAreNumbered
  <2> QED BY <2>1, <2>2, <2>3 DEF Fencing
<1>7. OneSuccess' /\ RetryBudget' /\ RowsAreNumbered' /\ LiveLeaseIsOpen'
  BY <1>1, <1>2, <1>3, <1>4, <1>v, <1>w
     DEF Inv, OneSuccess, RetryBudget, RowsAreNumbered, LiveLeaseIsOpen, ActiveStatus
<1>8. LockIsHeldByOpenAttempt'
  BY <1>1, <1>2, <1>t, <1>w
     DEF Inv, LockIsHeldByOpenAttempt, TablesTypeOK, ActiveStatus, NoAttempt
<1>9. ProjectionAgrees' /\ LaterItemsAreNew'
  <2>1. ProjectionAgrees'
    BY <1>2, <1>4, <1>w DEF Inv, ProjectionAgrees
  <2>2. LaterItemsAreNew'
    BY <1>1, <1>2, <1>4, <1>w DEF Inv, LaterItemsAreNew
  <2> QED BY <2>1, <2>2
<1>10. DependencyOrder'
  BY <1>1, <1>2, <1>4, <1>w, DependencyAssumption DEF Inv, DependencyOrder, ActiveStatus
<1> QED BY <1>5, <1>6, <1>7, <1>8, <1>9, <1>10 DEF Inv

\* complete_attempt closes the open attempt, its lease and its lock together,
\* and sends the item to ready only if the budget leaves it another attempt.
LEMMA CompleteStep ==
  ASSUME Inv, NEW i \in Items, NEW n \in AttemptIds,
         NEW succeeded \in BOOLEAN, NEW retryable \in BOOLEAN,
         complete_attempt(i, n, succeeded, retryable)
  PROVE  Inv'
<1> USE ItemAssumption, BudgetAssumption
<1> DEFINE target == CompletionTarget(i, succeeded, retryable)
           closed == IF succeeded THEN "succeeded" ELSE "failed"
<1>1. /\ attempt_status' = [attempt_status EXCEPT ![i][n] = closed]
      /\ item_status' = [item_status EXCEPT ![i] = target]
      /\ work_item_statuses' = [work_item_statuses EXCEPT ![i] = target]
      /\ current_attempt_id' = [current_attempt_id EXCEPT ![i] = 0]
      /\ lease_live' = [lease_live EXCEPT ![i] = FALSE]
      /\ integration_lock' = LockAfterRelease(i, n)
      /\ UNCHANGED <<run_status, current_plan_revision, approvals, latest_checkpoints,
                     fencing_token, checkpoint_sequence>>
  BY DEF complete_attempt
<1>2. /\ target \in {"succeeded", "ready", "failed"}
      /\ target = "succeeded" <=> closed = "succeeded"
      /\ target = "ready" => fencing_token[i] < max_attempts[i]
      /\ closed \in {"succeeded", "failed"}
  BY DEF CompletionTarget, RetryStatus
<1>3. verified_revision' \in [Runs -> 0..MaxRevision]
  <2>1. /\ verified_revision \in [Runs -> 0..MaxRevision]
        /\ current_plan_revision \in [Runs -> 0..MaxRevision]
        /\ RunOf[i] \in Runs
    BY DEF Inv, TypeOK, AggregateTypeOK
  <2> QED BY <2>1, RecoveryRequiredAssumption DEF complete_attempt, VerifiedAfter
<1> HIDE DEF target, closed
<1>t. TablesTypeOK /\ AggregateTypeOK
  BY DEF Inv, TypeOK
<1>4. /\ item_status[i] \in ActiveStatus
      /\ work_item_statuses[i] = item_status[i]
      /\ fencing_token[i] = n
      /\ current_attempt_id[i] = n
      /\ n # 0
  BY <1>t DEF complete_attempt, CanComplete, Fenced, Inv, Fencing, CurrentAttemptIsOpen,
              ProjectionAgrees, AttemptIds, ActiveStatus
<1>v. /\ attempt_status' \in [Items -> [AttemptIds -> AttemptStatus \cup {"absent"}]]
      /\ \A j \in Items, m \in AttemptIds :
            attempt_status'[j][m] = IF j = i /\ m = n THEN closed ELSE attempt_status[j][m]
  BY <1>1, <1>2, <1>t DEF TablesTypeOK, AttemptStatus
<1>w. \A j \in Items :
         /\ item_status'[j] = IF j = i THEN target ELSE item_status[j]
         /\ work_item_statuses'[j] = IF j = i THEN target ELSE work_item_statuses[j]
         /\ current_attempt_id'[j] = IF j = i THEN 0 ELSE current_attempt_id[j]
  BY <1>1, <1>t DEF TablesTypeOK, AggregateTypeOK
<1>x. \A j \in Items : lease_live'[j] => j # i /\ lease_live[j]
  BY <1>1, <1>t DEF TablesTypeOK
<1>5. TypeOK'
  <2>1. AggregateTypeOK'
    BY <1>1, <1>2, <1>3, <1>t DEF AggregateTypeOK, WorkItemStatus
  <2>2. /\ item_status' \in [Items -> WorkItemStatus \cup {"absent"}]
        /\ current_attempt_id' \in [Items -> 0..AttemptLimit]
        /\ lease_live' \in [Items -> BOOLEAN]
        /\ integration_lock' \in [item : Items, attempt : AttemptIds] \cup {NoAttempt}
    BY <1>1, <1>2, <1>t DEF TablesTypeOK, WorkItemStatus, LockAfterRelease
  <2> QED BY <1>1, <1>t, <1>v, <2>1, <2>2 DEF TypeOK, TablesTypeOK
<1>6. Fencing'
  <2>1. OneOpenAttempt'
    <3> SUFFICES ASSUME NEW j \in Items, NEW m \in AttemptIds
                 PROVE  attempt_status'[j][m] \in ActiveStatus
                          <=> item_status'[j] \in ActiveStatus /\ m = fencing_token[j]
      BY <1>1 DEF OneOpenAttempt
    <3>1. attempt_status[j][m] \in ActiveStatus
             <=> item_status[j] \in ActiveStatus /\ m = fencing_token[j]
      BY DEF Inv, Fencing, OneOpenAttempt
    <3>2. target \notin ActiveStatus /\ closed \notin ActiveStatus
      BY <1>2 DEF ActiveStatus
    <3> QED BY <1>4, <1>v, <1>w, <3>1, <3>2
  <2>2. CurrentAttemptIsOpen'
    <3> SUFFICES ASSUME NEW j \in Items
                 PROVE  IF item_status'[j] \in ActiveStatus
                          THEN /\ current_attempt_id'[j] = fencing_token[j]
                               /\ current_attempt_id'[j] \in AttemptIds
                               /\ attempt_status'[j][current_attempt_id'[j]] = item_status'[j]
                          ELSE current_attempt_id'[j] = 0
      BY <1>1 DEF CurrentAttemptIsOpen
    <3>1. target \notin ActiveStatus
      BY <1>2 DEF ActiveStatus
    <3>2. CASE j = i
      BY <1>w, <3>1, <3>2
    <3>3. CASE j # i
      BY SMTT(30), <1>v, <1>w, <3>3 DEF Inv, Fencing, CurrentAttemptIsOpen
    <3> QED BY <3>2, <3>3
  <2>3. AttemptsAreNumbered'
    BY <1>1, <1>2, <1>v DEF complete_attempt, CanComplete, Fenced, Inv, Fencing,
                            AttemptsAreNumbered
  <2> QED BY <2>1, <2>2, <2>3 DEF Fencing
<1>7. OneSuccess'
  <2> SUFFICES ASSUME NEW j \in Items, NEW m \in AttemptIds
               PROVE  attempt_status'[j][m] = "succeeded"
                        <=> item_status'[j] = "succeeded" /\ m = fencing_token[j]
    BY <1>1 DEF OneSuccess
  <2>1. attempt_status[j][m] = "succeeded"
           <=> item_status[j] = "succeeded" /\ m = fencing_token[j]
    BY DEF Inv, OneSuccess
  <2>2. item_status[i] # "succeeded"
    BY <1>4 DEF ActiveStatus
  <2> QED BY <1>2, <1>4, <1>v, <1>w, <2>1, <2>2
<1>8. RetryBudget' /\ RowsAreNumbered' /\ LiveLeaseIsOpen'
  BY <1>1, <1>2, <1>4, <1>t, <1>w, <1>x
     DEF Inv, RetryBudget, RowsAreNumbered, LiveLeaseIsOpen, ActiveStatus, TablesTypeOK
<1>9. LockIsHeldByOpenAttempt'
  <2> SUFFICES ASSUME integration_lock' # NoAttempt
               PROVE  integration_lock' = integration_lock /\ integration_lock.item # i
    BY <1>1, <1>t, <1>w DEF Inv, LockIsHeldByOpenAttempt, TablesTypeOK
  <2>1. integration_lock' = integration_lock /\ integration_lock # [item |-> i, attempt |-> n]
    BY <1>1 DEF LockAfterRelease
  <2>2. integration_lock.attempt = fencing_token[integration_lock.item]
    BY <2>1 DEF Inv, LockIsHeldByOpenAttempt
  <2>3. integration_lock \in [item : Items, attempt : AttemptIds]
    BY <2>1, <1>t DEF TablesTypeOK
  <2> QED BY <2>1, <2>2, <2>3, <1>4
<1>10. ProjectionAgrees' /\ LaterItemsAreNew'
  <2>1. ProjectionAgrees'
    BY <1>2, <1>4, <1>w DEF Inv, ProjectionAgrees
  <2>2. LaterItemsAreNew'
    BY <1>1, <1>2, <1>4, <1>w DEF Inv, LaterItemsAreNew, ActiveStatus
  <2> QED BY <2>1, <2>2
<1>11. DependencyOrder'
  BY <1>1, <1>2, <1>4, <1>w, DependencyAssumption DEF Inv, DependencyOrder, ActiveStatus
<1> QED BY <1>5, <1>6, <1>7, <1>8, <1>9, <1>10, <1>11 DEF Inv

\* The late completion of an item that was cancelled changes no more than its
\* closed attempt's row: cancel has already cleared the rest.
LEMMA CompleteCancelledStep ==
  ASSUME Inv, NEW i \in Items, NEW n \in AttemptIds, complete_cancelled_attempt(i, n)
  PROVE  Inv'
<1>1. /\ attempt_status' = [attempt_status EXCEPT ![i][n] = "cancelled"]
      /\ item_status[i] = "cancelled"
      /\ attempt_status[i][n] # "absent"
      /\ fencing_token[i] = n
      /\ integration_lock' = LockAfterRelease(i, n)
      /\ UNCHANGED <<aggregate_vars, item_status, fencing_token, checkpoint_sequence>>
  BY DEF complete_cancelled_attempt, CanCompleteCancelled, Fenced
<1>t. TablesTypeOK /\ AggregateTypeOK
  BY DEF Inv, TypeOK
<1>2. current_attempt_id' = current_attempt_id /\ lease_live' = lease_live
  <2>1. current_attempt_id[i] = 0 /\ lease_live[i] = FALSE
    BY <1>1, <1>t DEF Inv, Fencing, CurrentAttemptIsOpen, LiveLeaseIsOpen, ActiveStatus,
                      TablesTypeOK
  <2> QED BY <2>1, <1>t DEF complete_cancelled_attempt, TablesTypeOK
<1>3. integration_lock' = integration_lock
  BY <1>1 DEF LockAfterRelease, Inv, LockIsHeldByOpenAttempt, ActiveStatus
<1>v. /\ attempt_status' \in [Items -> [AttemptIds -> AttemptStatus \cup {"absent"}]]
      /\ \A j \in Items, m \in AttemptIds :
            attempt_status'[j][m] = IF j = i /\ m = n THEN "cancelled"
                                                      ELSE attempt_status[j][m]
  BY <1>1, <1>t DEF TablesTypeOK, AttemptStatus
<1>4. TypeOK'
  BY <1>1, <1>2, <1>3, <1>t, <1>v DEF TypeOK, TablesTypeOK, AggregateTypeOK, aggregate_vars
<1>5. Fencing'
  <2>1. OneOpenAttempt'
    BY <1>1, <1>v DEF Inv, Fencing, OneOpenAttempt, ActiveStatus
  <2>2. CurrentAttemptIsOpen'
    BY <1>1, <1>2, <1>v DEF Inv, Fencing, CurrentAttemptIsOpen, ActiveStatus
  <2>3. AttemptsAreNumbered'
    BY <1>1, <1>v DEF Inv, Fencing, AttemptsAreNumbered
  <2> QED BY <2>1, <2>2, <2>3 DEF Fencing
<1>6. OneSuccess'
  BY <1>1, <1>v DEF Inv, OneSuccess
<1>7. RetryBudget' /\ RowsAreNumbered' /\ LiveLeaseIsOpen' /\ LockIsHeldByOpenAttempt'
  BY <1>1, <1>2, <1>3
     DEF Inv, RetryBudget, RowsAreNumbered, LiveLeaseIsOpen, LockIsHeldByOpenAttempt
<1>8. ProjectionAgrees' /\ LaterItemsAreNew' /\ DependencyOrder'
  BY <1>1 DEF Inv, ProjectionAgrees, LaterItemsAreNew, DependencyOrder, aggregate_vars
<1> QED BY <1>4, <1>5, <1>6, <1>7, <1>8 DEF Inv

\* release_expired_leases expires the current attempts of a set of items whose
\* leases ran out, and leaves their items as complete_attempt would.
LEMMA ReleaseStep ==
  ASSUME Inv, NEW S, release_expired_leases(S)
  PROVE  Inv'
<1> USE ItemAssumption, BudgetAssumption
<1> DEFINE target(i) == RetryStatus(i, TRUE)
<1>1. /\ item_status' = [i \in Items |-> IF i \in S THEN target(i) ELSE item_status[i]]
      /\ work_item_statuses' =
            [i \in Items |-> IF i \in S THEN target(i) ELSE work_item_statuses[i]]
      /\ attempt_status' =
            [i \in Items |->
               [n \in AttemptIds |->
                  IF i \in S /\ n = current_attempt_id[i] THEN "expired"
                                                          ELSE attempt_status[i][n]]]
      /\ current_attempt_id' =
            [i \in Items |-> IF i \in S THEN 0 ELSE current_attempt_id[i]]
      /\ UNCHANGED <<run_status, current_plan_revision, approvals, latest_checkpoints,
                     fencing_token, checkpoint_sequence, lease_live>>
  BY DEF release_expired_leases
<1>2. \A i \in Items : /\ target(i) \in {"ready", "failed"}
                       /\ target(i) = "ready" => fencing_token[i] < max_attempts[i]
  BY DEF RetryStatus
<1>3. integration_lock' = integration_lock \/ integration_lock' = NoAttempt
  BY DEF release_expired_leases
<1>4. integration_lock' # NoAttempt =>
         \A i \in S : integration_lock # [item |-> i, attempt |-> current_attempt_id[i]]
  BY DEF release_expired_leases
<1>5. verified_revision' \in [Runs -> 0..MaxRevision]
  BY RecoveryRequiredAssumption
     DEF release_expired_leases, Inv, TypeOK, AggregateTypeOK
<1> HIDE DEF target
<1>t. TablesTypeOK /\ AggregateTypeOK
  BY DEF Inv, TypeOK
<1>6. \A i \in S : /\ i \in Items
                   /\ item_status[i] \in ActiveStatus
                   /\ work_item_statuses[i] = item_status[i]
                   /\ current_attempt_id[i] = fencing_token[i]
                   /\ lease_live[i] = FALSE
  <2> SUFFICES ASSUME NEW i \in S
               PROVE  /\ i \in Items
                      /\ item_status[i] \in ActiveStatus
                      /\ work_item_statuses[i] = item_status[i]
                      /\ current_attempt_id[i] = fencing_token[i]
                      /\ lease_live[i] = FALSE
    OBVIOUS
  <2>1. i \in Items /\ item_status[i] \in ActiveStatus /\ ~lease_live[i]
    BY DEF release_expired_leases, CanRelease, ExpiredItems, ActiveItems
  <2>2. work_item_statuses[i] = item_status[i]
    BY <2>1 DEF Inv, ProjectionAgrees, ActiveStatus
  <2>3. current_attempt_id[i] = fencing_token[i]
    BY <2>1 DEF Inv, Fencing, CurrentAttemptIsOpen
  <2>4. lease_live[i] = FALSE
    BY <2>1, <1>t DEF TablesTypeOK
  <2> QED BY <2>1, <2>2, <2>3, <2>4
<1>7. TypeOK'
  <2>1. AggregateTypeOK'
    BY <1>1, <1>2, <1>5, <1>t DEF AggregateTypeOK, WorkItemStatus
  <2>2. TablesTypeOK'
    BY <1>1, <1>2, <1>3, <1>t DEF TablesTypeOK, WorkItemStatus, AttemptStatus
  <2> QED BY <2>1, <2>2 DEF TypeOK
<1>8. Fencing'
  <2>1. OneOpenAttempt'
    <3> SUFFICES ASSUME NEW i \in Items, NEW n \in AttemptIds
                 PROVE  attempt_status'[i][n] \in ActiveStatus
                          <=> item_status'[i] \in ActiveStatus /\ n = fencing_token[i]
      BY <1>1 DEF OneOpenAttempt
    <3>1. attempt_status[i][n] \in ActiveStatus
             <=> item_status[i] \in ActiveStatus /\ n = fencing_token[i]
      BY DEF Inv, Fencing, OneOpenAttempt
    <3>2. target(i) \notin ActiveStatus /\ "expired" \notin ActiveStatus
      BY <1>2 DEF ActiveStatus
    <3> QED BY <1>1, <1>6, <3>1, <3>2
  <2>2. CurrentAttemptIsOpen'
    <3> SUFFICES ASSUME NEW i \in Items
                 PROVE  IF item_status'[i] \in ActiveStatus
                          THEN /\ current_attempt_id'[i] = fencing_token[i]
                               /\ current_attempt_id'[i] \in AttemptIds
                               /\ attempt_status'[i][current_attempt_id'[i]] = item_status'[i]
                          ELSE current_attempt_id'[i] = 0
      BY <1>1 DEF CurrentAttemptIsOpen
    <3>1. target(i) \notin ActiveStatus
      BY <1>2 DEF ActiveStatus
    <3>2. CASE i \in S
      BY <1>1, <3>1, <3>2
    <3>3. CASE i \notin S
      BY <1>1, <3>3 DEF Inv, Fencing, CurrentAttemptIsOpen
    <3> QED BY <3>2, <3>3
  <2>3. AttemptsAreNumbered'
    <3> SUFFICES ASSUME NEW i \in Items, NEW n \in AttemptIds
                 PROVE  attempt_status'[i][n] = "absent" <=> n > fencing_token[i]
      BY <1>1 DEF AttemptsAreNumbered
    <3>1. attempt_status[i][n] = "absent" <=> n > fencing_token[i]
      BY DEF Inv, Fencing, AttemptsAreNumbered
    <3>2. CASE i \in S /\ n = current_attempt_id[i]
      <4>1. attempt_status'[i][n] = "expired"
        BY <1>1, <3>2
      <4>2. ~(n > fencing_token[i])
        <5>1. n = fencing_token[i]
          BY <1>6, <3>2
        <5>2. n \in Int
          BY DEF AttemptIds
        <5> QED BY <5>1, <5>2
      <4> QED BY <4>1, <4>2
    <3>3. CASE ~(i \in S /\ n = current_attempt_id[i])
      BY <1>1, <3>1, <3>3
    <3> QED BY <3>2, <3>3
  <2> QED BY <2>1, <2>2, <2>3 DEF Fencing
<1>9. OneSuccess'
  <2> SUFFICES ASSUME NEW i \in Items, NEW n \in AttemptIds
               PROVE  attempt_status'[i][n] = "succeeded"
                        <=> item_status'[i] = "succeeded" /\ n = fencing_token[i]
    BY <1>1 DEF OneSuccess
  <2>1. attempt_status[i][n] = "succeeded"
           <=> item_status[i] = "succeeded" /\ n = fencing_token[i]
    BY DEF Inv, OneSuccess
  <2>2. i \in S => item_status[i] # "succeeded" /\ target(i) # "succeeded"
    BY <1>2, <1>6 DEF ActiveStatus
  <2> QED BY <1>1, <2>1, <2>2
<1>10. RetryBudget'
  BY <1>1, <1>2, <1>6, <1>t DEF Inv, RetryBudget, TablesTypeOK
<1>11. RowsAreNumbered'
  BY <1>1, <1>2, <1>6 DEF Inv, RowsAreNumbered, ActiveStatus
<1>12. LiveLeaseIsOpen'
  <2>1. \A i \in Items : lease_live[i] => i \notin S /\ item_status[i] \in ActiveStatus
    BY <1>6 DEF Inv, LiveLeaseIsOpen
  <2>2. lease_live' = lease_live /\ \A i \in Items \ S : item_status'[i] = item_status[i]
    BY <1>1
  <2> QED BY <2>1, <2>2 DEF LiveLeaseIsOpen
<1>13. LockIsHeldByOpenAttempt'
  <2> SUFFICES ASSUME integration_lock' # NoAttempt
               PROVE  integration_lock.item \notin S
    BY <1>1, <1>3, <1>t DEF Inv, LockIsHeldByOpenAttempt, TablesTypeOK
  <2>1. /\ integration_lock \in [item : Items, attempt : AttemptIds]
        /\ integration_lock.attempt = fencing_token[integration_lock.item]
    BY <1>3, <1>t DEF TablesTypeOK, Inv, LockIsHeldByOpenAttempt
  <2> QED BY <1>4, <1>6, <2>1
<1>14. ProjectionAgrees'
  BY <1>1, <1>2, <1>6 DEF Inv, ProjectionAgrees
<1>15. LaterItemsAreNew'
  BY <1>1, <1>6 DEF Inv, LaterItemsAreNew, ActiveStatus
<1>16. DependencyOrder'
  BY <1>1, <1>2, <1>6, DependencyAssumption DEF Inv, DependencyOrder, ActiveStatus
<1> QED BY <1>7, <1>8, <1>9, <1>10, <1>11, <1>12, <1>13, <1>14, <1>15, <1>16 DEF Inv

-----------------------------------------------------------------------------
(* Controller operations.                                                  *)

\* Transactions that change only run statuses and approvals keep Inv.
LEMMA RunStatusStep ==
  ASSUME Inv, AggregateTypeOK', UNCHANGED <<work_item_statuses, current_plan_revision, table_vars>>
  PROVE  Inv'
<1>1. TypeOK'
  BY DEF Inv, TypeOK, TablesTypeOK, table_vars
<1>2. LiveLeaseIsOpen'
  BY DEF Inv, LiveLeaseIsOpen, table_vars
<1> QED BY <1>1, <1>2, FrameStep DEF table_vars

\* create_run adds a run without items.
LEMMA CreateRunStep ==
  ASSUME Inv, NEW r \in Runs, create_run(r)
  PROVE  Inv'
<1>1. AggregateTypeOK'
  BY DEF create_run, Inv, TypeOK, AggregateTypeOK, RunStatus
<1> QED BY <1>1, RunStatusStep DEF create_run

\* Pausing and resuming leave items and attempts alone.
LEMMA ChangeStatusStep ==
  ASSUME Inv, NEW r \in Runs, NEW status, change_status(r, status)
  PROVE  Inv'
<1>1. AggregateTypeOK'
  BY DEF change_status, Inv, TypeOK, AggregateTypeOK, RunStatus
<1> QED BY <1>1, RunStatusStep DEF change_status

\* Deciding an approval leaves items and attempts alone.
LEMMA DecideApprovalStep ==
  ASSUME Inv, NEW r \in Runs, NEW i \in Items, NEW approved \in BOOLEAN,
         decide_approval(r, i, approved)
  PROVE  Inv'
<1>1. AggregateTypeOK'
  BY DEF decide_approval, ApprovalTarget, Inv, TypeOK, AggregateTypeOK, RunStatus, ApprovalStatus
<1> QED BY <1>1, RunStatusStep DEF decide_approval

\* Statuses in which an item is neither leased nor succeeded, and the ones from
\* which it can still be claimed.
Idle == {"absent", "pending", "ready", "blocked", "failed", "cancelled"}
Claimable == {"absent", "pending", "ready", "blocked"}

\* Reconciling and replanning move idle items to idle statuses, create rows
\* and leave the attempts alone: what they do to rows keeps every part of Inv
\* that does not mention the plan.
LEMMA IdleStep ==
  ASSUME Inv, AggregateTypeOK', item_status' \in [Items -> WorkItemStatus \cup {"absent"}],
         UNCHANGED <<fencing_token, current_attempt_id, attempt_status,
                     checkpoint_sequence, lease_live, integration_lock>>,
         \A i \in Items :
            \/ item_status'[i] = item_status[i]
            \/ /\ item_status[i] \in Idle
               /\ item_status'[i] \in Idle \ {"absent"}
               /\ item_status'[i] \in Claimable => item_status[i] \in Claimable,
         ProjectionAgrees', LaterItemsAreNew', DependencyOrder'
  PROVE  Inv'
<1>1. \A i \in Items : /\ item_status'[i] \in ActiveStatus <=> item_status[i] \in ActiveStatus
                       /\ item_status'[i] = "succeeded" <=> item_status[i] = "succeeded"
                       /\ item_status'[i] = item_status[i] \/ item_status[i] \in Idle
  BY DEF Idle, ActiveStatus
<1>2. TypeOK'
  BY DEF Inv, TypeOK, TablesTypeOK
<1>3. OneOpenAttempt' /\ AttemptsAreNumbered'
  BY <1>1 DEF Inv, Fencing, OneOpenAttempt, AttemptsAreNumbered
<1>4. CurrentAttemptIsOpen'
  BY <1>1 DEF Inv, Fencing, CurrentAttemptIsOpen, Idle, ActiveStatus
<1>5. OneSuccess' /\ LiveLeaseIsOpen'
  <2>1. OneSuccess'
    BY <1>1 DEF Inv, OneSuccess
  <2>2. LiveLeaseIsOpen'
    BY <1>1 DEF Inv, LiveLeaseIsOpen
  <2> QED BY <2>1, <2>2
<1>6. RetryBudget'
  BY DEF Inv, RetryBudget, Claimable
<1>7. RowsAreNumbered'
  BY <1>1 DEF Inv, RowsAreNumbered, Idle, ActiveStatus
<1>8. LockIsHeldByOpenAttempt'
  BY <1>1, <1>2 DEF Inv, LockIsHeldByOpenAttempt, TypeOK, TablesTypeOK
<1> QED BY <1>2, <1>3, <1>4, <1>5, <1>6, <1>7, <1>8 DEF Inv, Fencing

\* reconcile makes an item ready only if its dependencies succeeded, and blocks
\* or readies only items that are pending or ready.
LEMMA ReconcileStep ==
  ASSUME Inv, NEW r \in Runs, reconcile(r)
  PROVE  Inv'
<1> DEFINE blocked == NewlyBlocked(r)
           ready == NewlyReady(r)
<1>1. /\ work_item_statuses' = [i \in Items |-> DecidedItem(r, i, work_item_statuses[i])]
      /\ item_status' = [i \in Items |-> DecidedItem(r, i, item_status[i])]
      /\ run_status' = [run_status EXCEPT ![r] = DecidedStatus(r)]
      /\ approvals' = IF DecidedStatus(r) = "waiting_approval"
                        THEN [approvals EXCEPT ![Min(Unapproved(r))] = "pending"]
                        ELSE approvals
      /\ UNCHANGED <<current_plan_revision, verified_revision, latest_checkpoints,
                     fencing_token, current_attempt_id, attempt_status,
                     checkpoint_sequence, lease_live, integration_lock>>
  BY DEF reconcile
<1>2. \A i \in Items : DecidedItem(r, i, item_status[i]) =
                          IF i \in blocked THEN "blocked"
                          ELSE IF i \in ready THEN "ready" ELSE item_status[i]
  BY DEF DecidedItem
<1>3. \A i \in Items : DecidedItem(r, i, work_item_statuses[i]) =
                          IF i \in blocked THEN "blocked"
                          ELSE IF i \in ready THEN "ready" ELSE work_item_statuses[i]
  BY DEF DecidedItem
<1>4. \A i \in blocked : i \in Items /\ work_item_statuses[i] \in {"pending", "ready"}
  BY DEF NewlyBlocked, Blocked, blocked_work_item_ids, PlanItems
<1>5. \A i \in ready : /\ i \in Items
                       /\ work_item_statuses[i] \in {"pending", "ready"}
                       /\ \A d \in dependencies[i] : work_item_statuses[d] = "succeeded"
  <2>1. ready \subseteq Ready(r)
    BY DEF NewlyReady, Schedulable
  <2> QED BY <2>1 DEF Ready, ready_work_item_ids, PlanItems
<1>6. DecidedStatus(r) \in RunStatus
  BY DEF DecidedStatus, RunStatus
<1> HIDE DEF blocked, ready
<1>t. TablesTypeOK /\ AggregateTypeOK /\ ProjectionAgrees
  BY DEF Inv, TypeOK
<1>7. AggregateTypeOK'
  <2>1. work_item_statuses' \in [Items -> WorkItemStatus \cup {"absent"}]
    BY <1>1, <1>3, <1>t DEF AggregateTypeOK, WorkItemStatus
  <2>2. run_status' \in [Runs -> RunStatus \cup {"absent"}]
    BY <1>1, <1>6, <1>t DEF AggregateTypeOK
  <2>3. approvals' \in [Items -> ApprovalStatus \cup {"absent"}]
    BY <1>1, <1>t DEF AggregateTypeOK, ApprovalStatus
  <2> QED BY <1>1, <1>t, <2>1, <2>2, <2>3 DEF AggregateTypeOK
<1>8. \A i \in blocked \cup ready : item_status[i] = work_item_statuses[i]
  BY <1>4, <1>5, <1>t DEF ProjectionAgrees
<1>9. item_status' \in [Items -> WorkItemStatus \cup {"absent"}]
  BY <1>1, <1>2, <1>t DEF TablesTypeOK, WorkItemStatus
<1>10. \A i \in Items :
          \/ item_status'[i] = item_status[i]
          \/ /\ item_status[i] \in Idle
             /\ item_status'[i] \in Idle \ {"absent"}
             /\ item_status'[i] \in Claimable => item_status[i] \in Claimable
  BY <1>1, <1>2, <1>4, <1>5, <1>8 DEF Idle, Claimable
<1>11. ProjectionAgrees'
  BY <1>1, <1>2, <1>3, <1>4, <1>5, <1>t DEF ProjectionAgrees
<1>12. LaterItemsAreNew'
  BY <1>1, <1>2, <1>3, <1>4, <1>5 DEF Inv, LaterItemsAreNew
<1>13. DependencyOrder'
  <2> SUFFICES ASSUME NEW i \in Items,
                      work_item_statuses'[i] \in ActiveStatus \cup {"ready", "succeeded"},
                      NEW d \in dependencies[i]
               PROVE  work_item_statuses'[d] = "succeeded"
    BY DEF DependencyOrder
  <2>1. work_item_statuses[d] = "succeeded"
    <3>1. CASE i \in ready
      BY <1>5, <3>1
    <3>2. CASE i \notin ready
      <4>1. work_item_statuses'[i] = IF i \in blocked THEN "blocked" ELSE work_item_statuses[i]
        BY <1>1, <1>3, <3>2
      <4>2. work_item_statuses[i] \in ActiveStatus \cup {"ready", "succeeded"}
        BY <4>1 DEF ActiveStatus
      <4> QED BY <4>2 DEF Inv, DependencyOrder
    <3> QED BY <3>1, <3>2
  <2>2. d \in Items
    BY DependencyAssumption
  <2>3. d \notin blocked /\ d \notin ready
    BY <1>4, <1>5, <2>1
  <2> QED BY <1>1, <1>3, <2>1, <2>2, <2>3
<1> QED BY <1>1, <1>7, <1>9, <1>10, <1>11, <1>12, <1>13, IdleStep

\* Committing a plan that adds only items of its own revision and drops only
\* items that are neither ready, leased nor succeeded.
LEMMA CommitPlanStep ==
  ASSUME Inv, NEW r \in Runs, NEW plan, CommitPlan(r, plan),
         \A i \in plan : i \in Items /\ RunOf[i] = r,
         current_plan_revision[r] + 1 \in 0..MaxRevision,
         \A i \in plan \ PlanItems(r) : RevisionOf[i] = current_plan_revision[r] + 1,
         \A i \in PlanItems(r) \ plan :
            work_item_statuses[i] \in {"pending", "blocked", "failed", "cancelled"}
  PROVE  Inv'
<1> DEFINE kept == plan \cap PlanItems(r)
           added == plan \ PlanItems(r)
           dropped == PlanItems(r) \ plan
<1>1. /\ current_plan_revision' =
            [current_plan_revision EXCEPT ![r] = current_plan_revision[r] + 1]
      /\ verified_revision' = [verified_revision EXCEPT ![r] = 0]
      /\ approvals' = [i \in Items |-> IF RunOf[i] = r THEN "absent" ELSE approvals[i]]
      /\ UNCHANGED <<run_status, latest_checkpoints, fencing_token, current_attempt_id,
                     attempt_status, checkpoint_sequence, lease_live, integration_lock>>
  BY DEF CommitPlan
<1>t. TablesTypeOK /\ AggregateTypeOK /\ ProjectionAgrees /\ LaterItemsAreNew
  BY DEF Inv, TypeOK
<1>2. \A i \in Items : i \in PlanItems(r) <=> RunOf[i] = r /\ work_item_statuses[i] # "absent"
  BY DEF PlanItems
<1>3. \A i \in added : item_status[i] = "absent" /\ work_item_statuses[i] = "absent"
  <2> SUFFICES ASSUME NEW i \in added
               PROVE  item_status[i] = "absent" /\ work_item_statuses[i] = "absent"
    OBVIOUS
  <2>1. i \in Items /\ RunOf[i] = r
    OBVIOUS
  <2>2. current_plan_revision[r] \in Int /\ RevisionOf[i] = current_plan_revision[r] + 1
    BY <1>t DEF AggregateTypeOK
  <2> QED BY <2>1, <2>2, <1>t DEF LaterItemsAreNew
<1>4. \A i \in Items :
         work_item_statuses'[i] = IF i \in added THEN "pending"
                                  ELSE IF i \in dropped THEN "absent"
                                  ELSE work_item_statuses[i]
  BY <1>2 DEF CommitPlan
<1>5. \A i \in dropped : /\ i \in Items /\ RunOf[i] = r
                         /\ item_status[i] = work_item_statuses[i]
                         /\ item_status[i] \in {"pending", "blocked", "failed", "cancelled"}
  BY <1>t, <1>2 DEF ProjectionAgrees, PlanItems
<1>6. \A i \in Items :
         item_status'[i] = IF i \in added THEN "pending"
                           ELSE IF i \in dropped THEN "cancelled"
                           ELSE item_status[i]
  <2> SUFFICES ASSUME NEW i \in Items
               PROVE  item_status'[i] = IF i \in added THEN "pending"
                                        ELSE IF i \in dropped THEN "cancelled"
                                        ELSE item_status[i]
    OBVIOUS
  <2>1. item_status'[i] =
           IF RunOf[i] # r THEN item_status[i]
           ELSE IF i \in plan
                  THEN IF item_status[i] = "absent" THEN "pending" ELSE item_status[i]
                  ELSE IF item_status[i] \in {"absent", "succeeded"}
                         THEN item_status[i] ELSE "cancelled"
    BY DEF CommitPlan, ProjectedStatus
  <2>2. CASE i \in added
    BY <1>3, <2>1, <2>2
  <2>3. CASE i \in dropped
    BY <1>5, <2>1, <2>3
  <2>4. CASE i \in kept
    BY <1>2, <1>t, <2>1, <2>4 DEF ProjectionAgrees
  <2>5. CASE i \notin plan /\ i \notin PlanItems(r)
    BY <1>2, <1>t, <2>1, <2>5 DEF ProjectionAgrees
  <2> QED BY <2>2, <2>3, <2>4, <2>5
<1>a. /\ DOMAIN item_status' = Items
      /\ work_item_statuses' = [i \in Items |-> work_item_statuses'[i]]
      /\ item_status' = [i \in Items |-> item_status'[i]]
  BY DEF CommitPlan
<1>b. \A i \in added : i \in Items /\ RunOf[i] = r
                       /\ RevisionOf[i] = current_plan_revision[r] + 1
  OBVIOUS
<1>c. added \cap dropped = {}
  OBVIOUS
<1> HIDE DEF kept, added, dropped
<1>7. AggregateTypeOK'
  <2>1. work_item_statuses' \in [Items -> WorkItemStatus \cup {"absent"}]
    BY <1>4, <1>a, <1>t DEF AggregateTypeOK, WorkItemStatus
  <2>2. approvals' \in [Items -> ApprovalStatus \cup {"absent"}]
    BY <1>1, <1>t DEF AggregateTypeOK
  <2>3. verified_revision' \in [Runs -> 0..MaxRevision]
    BY <1>1, <1>t, RecoveryRequiredAssumption DEF AggregateTypeOK
  <2>4. current_plan_revision' \in [Runs -> 0..MaxRevision]
    BY <1>1, <1>t DEF AggregateTypeOK
  <2> QED BY <1>1, <1>t, <2>1, <2>2, <2>3, <2>4 DEF AggregateTypeOK
<1>8. item_status' \in [Items -> WorkItemStatus \cup {"absent"}]
  BY <1>6, <1>a, <1>t DEF TablesTypeOK, WorkItemStatus
<1>9. \A i \in Items :
         \/ item_status'[i] = item_status[i]
         \/ /\ item_status[i] \in Idle
            /\ item_status'[i] \in Idle \ {"absent"}
            /\ item_status'[i] \in Claimable => item_status[i] \in Claimable
  BY <1>3, <1>5, <1>6 DEF Idle, Claimable
<1>10. ProjectionAgrees'
  BY <1>3, <1>4, <1>5, <1>6, <1>t DEF ProjectionAgrees
<1>11. LaterItemsAreNew'
  <2> SUFFICES ASSUME NEW i \in Items, current_plan_revision'[RunOf[i]] < RevisionOf[i]
               PROVE  item_status'[i] = "absent" /\ work_item_statuses'[i] = "absent"
    BY DEF LaterItemsAreNew
  <2>1. /\ RunOf[i] \in Runs
        /\ RevisionOf[i] \in Int
        /\ current_plan_revision[RunOf[i]] \in Int
        /\ current_plan_revision[r] \in Int
    BY ItemAssumption, <1>t DEF AggregateTypeOK
  <2>2. current_plan_revision'[RunOf[i]] = IF RunOf[i] = r THEN current_plan_revision[r] + 1
                                           ELSE current_plan_revision[RunOf[i]]
    BY <1>1, <1>t, <2>1 DEF AggregateTypeOK
  <2>3. current_plan_revision[RunOf[i]] < RevisionOf[i]
    BY <2>1, <2>2
  <2>4. item_status[i] = "absent" /\ work_item_statuses[i] = "absent"
    BY <2>3, <1>t DEF LaterItemsAreNew
  <2>5. i \notin added
    BY <1>b, <2>1, <2>2
  <2>6. i \notin dropped
    BY <1>5, <2>4
  <2> QED BY <1>4, <1>6, <2>4, <2>5, <2>6
<1>12. DependencyOrder'
  <2> SUFFICES ASSUME NEW i \in Items,
                      work_item_statuses'[i] \in ActiveStatus \cup {"ready", "succeeded"},
                      NEW d \in dependencies[i]
               PROVE  work_item_statuses'[d] = "succeeded"
    BY DEF DependencyOrder
  <2>1. work_item_statuses[i] = work_item_statuses'[i]
    BY <1>4 DEF ActiveStatus
  <2>2. work_item_statuses[d] = "succeeded" /\ d \in Items
    BY <2>1, DependencyAssumption DEF Inv, DependencyOrder
  <2> QED BY <1>3, <1>4, <1>5, <2>2
<1> QED BY <1>1, <1>7, <1>8, <1>9, <1>10, <1>11, <1>12, IdleStep

\* The first plan finds no item of the run.
LEMMA FirstPlanStep ==
  ASSUME Inv, NEW r \in Runs, commit_plan(r)
  PROVE  Inv'
<1>1. current_plan_revision[r] = 0 /\ CommitPlan(r, AddedItems(r, 1))
  BY DEF commit_plan
<1>2. AddedItems(r, 1) # {}
  BY <1>1 DEF CommitPlan, validate, WellFormed
<1>3. current_plan_revision[r] + 1 \in 0..MaxRevision
  <2>1. PICK i \in Items : RevisionOf[i] = 1
    BY <1>2 DEF AddedItems
  <2>2. 1 \in 1..MaxRevision
    BY <2>1, ItemAssumption
  <2> QED BY <1>1, <2>2, RecoveryRequiredAssumption
<1>4. PlanItems(r) = {}
  <2> SUFFICES ASSUME NEW i \in PlanItems(r) PROVE FALSE
    OBVIOUS
  <2>1. i \in Items /\ RunOf[i] = r /\ work_item_statuses[i] # "absent"
    BY DEF PlanItems
  <2>2. 0 < RevisionOf[i]
    BY <2>1, ItemAssumption
  <2> QED BY <1>1, <2>1, <2>2 DEF Inv, LaterItemsAreNew
<1>5. \A i \in AddedItems(r, 1) :
         i \in Items /\ RunOf[i] = r /\ RevisionOf[i] = current_plan_revision[r] + 1
  BY <1>1 DEF AddedItems
<1> QED BY <1>1, <1>3, <1>4, <1>5, CommitPlanStep

\* What EvidenceRecoveryPlanner.replan calls obsolete is never an item that is
\* ready, leased or succeeded: the dependencies of those succeeded, so the set
\* of all other items is closed under its loop.
LEMMA ObsoleteIsIdle ==
  ASSUME Inv, NEW r \in Runs, NEW seen \in SUBSET FailedOrBlocked(r),
         NEW i \in ObsoleteItems(PlanItems(r), work_item_statuses, seen)
  PROVE  /\ i \in PlanItems(r)
         /\ work_item_statuses[i] \in {"pending", "blocked", "failed", "cancelled"}
<1> DEFINE S == {j \in PlanItems(r) :
                    work_item_statuses[j] \notin ActiveStatus \cup {"ready", "succeeded"}}
<1>1. S \in SUBSET PlanItems(r)
  OBVIOUS
<1>2. ObsoleteClosed(S, PlanItems(r), work_item_statuses, seen)
  <2>1. seen \subseteq S
    BY DEF FailedOrBlocked, ActiveStatus
  <2>2. ASSUME NEW j \in PlanItems(r), dependencies[j] \cap S # {},
               work_item_statuses[j] # "succeeded"
        PROVE  j \in S
    <3>1. PICK d \in dependencies[j] : work_item_statuses[d] # "succeeded"
      BY <2>2
    <3>2. j \in Items
      BY DEF PlanItems
    <3> QED BY <3>1, <3>2, <2>2 DEF Inv, DependencyOrder
  <2> QED BY <2>1, <2>2 DEF ObsoleteClosed
<1>3. i \in PlanItems(r) /\ i \in S
  BY <1>1, <1>2 DEF ObsoleteItems
<1>4. i \in Items /\ work_item_statuses[i] \in WorkItemStatus
  BY <1>3 DEF PlanItems, Inv, TypeOK, AggregateTypeOK
<1> QED BY <1>3, <1>4 DEF WorkItemStatus, ActiveStatus

\* replan_from_evidence drops idle items (ObsoleteIsIdle) and adds new ones.
LEMMA ReplanStep ==
  ASSUME Inv, NEW r \in Runs, replan_from_evidence(r)
  PROVE  Inv'
<1>1. PICK seen \in SUBSET FailedOrBlocked(r) :
         apply_patch(r, ObsoleteItems(PlanItems(r), work_item_statuses, seen))
  BY DEF replan_from_evidence
<1> DEFINE obsolete == ObsoleteItems(PlanItems(r), work_item_statuses, seen)
           add == AddedItems(r, current_plan_revision[r] + 1)
           plan == PatchedPlan(PlanItems(r), obsolete, add)
<1>2. CommitPlan(r, plan) /\ current_plan_revision[r] \in 1..(MaxRevision - 1)
  BY <1>1 DEF apply_patch, CanPatch
<1>3. \A i \in obsolete :
         work_item_statuses[i] \in {"pending", "blocked", "failed", "cancelled"}
  BY ObsoleteIsIdle
<1> HIDE DEF obsolete
<1>4. \A i \in plan : i \in PlanItems(r) \/ i \in add
  BY DEF PatchedPlan
<1>5. \A i \in PlanItems(r) \ plan : i \in obsolete
  BY DEF PatchedPlan
<1>6. \A i \in add : i \in Items /\ RunOf[i] = r /\ RevisionOf[i] = current_plan_revision[r] + 1
  BY DEF AddedItems
<1>7. current_plan_revision[r] + 1 \in 0..MaxRevision
  BY <1>2, RecoveryRequiredAssumption
<1>8. \A i \in PlanItems(r) : i \in Items /\ RunOf[i] = r
  BY DEF PlanItems
<1> HIDE DEF plan, add
<1> QED BY <1>2, <1>3, <1>4, <1>5, <1>6, <1>7, <1>8, CommitPlanStep

\* cancel closes the open attempts of the items it cancels, with their leases
\* and lock, and spares the items that succeeded.
LEMMA CancelStep ==
  ASSUME Inv, NEW r \in Runs, cancel(r)
  PROVE  Inv'
<1> DEFINE S == CancelledItems(r)
           hit(i, n) == /\ i \in S
                        /\ n = current_attempt_id[i]
                        /\ attempt_status[i][n] \in ActiveStatus
<1>1. /\ run_status' = [run_status EXCEPT ![r] = "cancelled"]
      /\ work_item_statuses' =
            [i \in Items |-> IF i \in S THEN "cancelled" ELSE work_item_statuses[i]]
      /\ item_status' = [i \in Items |-> IF i \in S THEN "cancelled" ELSE item_status[i]]
      /\ attempt_status' =
            [i \in Items |->
               [n \in AttemptIds |-> IF hit(i, n) THEN "cancelled" ELSE attempt_status[i][n]]]
      /\ current_attempt_id' = [i \in Items |-> IF i \in S THEN 0 ELSE current_attempt_id[i]]
      /\ UNCHANGED <<current_plan_revision, verified_revision, approvals,
                     latest_checkpoints, fencing_token, checkpoint_sequence>>
  BY DEF cancel
<1>2. lease_live' = [i \in Items |-> IF i \in S THEN FALSE ELSE lease_live[i]]
  BY DEF cancel
<1>3. integration_lock' = integration_lock \/ integration_lock' = NoAttempt
  BY DEF cancel
<1>4. integration_lock' # NoAttempt =>
         \A i \in S : integration_lock # [item |-> i, attempt |-> current_attempt_id[i]]
  BY DEF cancel
<1>5. \A i \in S : /\ i \in Items
                   /\ work_item_statuses[i] \notin {"absent", "succeeded", "cancelled"}
  BY DEF CancelledItems, PlanItems
<1>h. \A i \in Items, n \in AttemptIds :
         hit(i, n) => i \in S /\ n = current_attempt_id[i]
                      /\ attempt_status[i][n] \in ActiveStatus
  OBVIOUS
<1>g. \A i \in Items, n \in AttemptIds :
         i \in S /\ attempt_status[i][n] \in ActiveStatus => hit(i, n)
  BY OpenAttempt
<1> HIDE DEF S, hit
<1>t. TablesTypeOK /\ AggregateTypeOK /\ ProjectionAgrees
  BY DEF Inv, TypeOK
<1>6. \A i \in S : i \in Items /\ item_status[i] = work_item_statuses[i]
                               /\ item_status[i] \notin {"absent", "succeeded", "cancelled"}
  BY <1>5, <1>t DEF ProjectionAgrees
<1>7. TypeOK'
  <2>1. AggregateTypeOK'
    BY <1>1, <1>t DEF AggregateTypeOK, WorkItemStatus, RunStatus
  <2>2. attempt_status' \in [Items -> [AttemptIds -> AttemptStatus \cup {"absent"}]]
    BY <1>1, <1>t DEF TablesTypeOK, AttemptStatus
  <2>3. lease_live' \in [Items -> BOOLEAN]
    BY <1>2, <1>t DEF TablesTypeOK
  <2>4. /\ item_status' \in [Items -> WorkItemStatus \cup {"absent"}]
        /\ current_attempt_id' \in [Items -> 0..AttemptLimit]
    BY <1>1, <1>t, BudgetAssumption DEF TablesTypeOK, WorkItemStatus
  <2> QED BY <1>1, <1>3, <1>t, <2>1, <2>2, <2>3, <2>4 DEF TypeOK, TablesTypeOK
<1>8. Fencing'
  <2>1. OneOpenAttempt'
    <3> SUFFICES ASSUME NEW i \in Items, NEW n \in AttemptIds
                 PROVE  attempt_status'[i][n] \in ActiveStatus
                          <=> item_status'[i] \in ActiveStatus /\ n = fencing_token[i]
      BY <1>1 DEF OneOpenAttempt
    <3>1. attempt_status[i][n] \in ActiveStatus
             <=> item_status[i] \in ActiveStatus /\ n = fencing_token[i]
      BY DEF Inv, Fencing, OneOpenAttempt
    <3>2. attempt_status'[i][n] = IF hit(i, n) THEN "cancelled" ELSE attempt_status[i][n]
      BY <1>1
    <3>3. item_status'[i] = IF i \in S THEN "cancelled" ELSE item_status[i]
      BY <1>1
    <3>4. "cancelled" \notin ActiveStatus
      BY DEF ActiveStatus
    <3>5. CASE i \in S
      BY <1>g, <3>2, <3>3, <3>4, <3>5
    <3>6. CASE i \notin S
      BY <1>h, <3>1, <3>2, <3>3, <3>6
    <3> QED BY <3>5, <3>6
  <2>2. CurrentAttemptIsOpen'
    <3> SUFFICES ASSUME NEW i \in Items
                 PROVE  IF item_status'[i] \in ActiveStatus
                          THEN /\ current_attempt_id'[i] = fencing_token[i]
                               /\ current_attempt_id'[i] \in AttemptIds
                               /\ attempt_status'[i][current_attempt_id'[i]] = item_status'[i]
                          ELSE current_attempt_id'[i] = 0
      BY <1>1 DEF CurrentAttemptIsOpen
    <3>1. CASE i \in S
      BY <1>1, <3>1 DEF ActiveStatus
    <3>2. CASE i \notin S
      BY <1>1, <1>h, <3>2 DEF Inv, Fencing, CurrentAttemptIsOpen
    <3> QED BY <3>1, <3>2
  <2>3. AttemptsAreNumbered'
    <3> SUFFICES ASSUME NEW i \in Items, NEW n \in AttemptIds
                 PROVE  attempt_status'[i][n] = "absent" <=> attempt_status[i][n] = "absent"
      BY <1>1 DEF Inv, Fencing, AttemptsAreNumbered
    <3> QED BY <1>1, <1>h DEF ActiveStatus
  <2> QED BY <2>1, <2>2, <2>3 DEF Fencing
<1>9. OneSuccess'
  <2> SUFFICES ASSUME NEW i \in Items, NEW n \in AttemptIds
               PROVE  attempt_status'[i][n] = "succeeded"
                        <=> item_status'[i] = "succeeded" /\ n = fencing_token[i]
    BY <1>1 DEF OneSuccess
  <2>1. attempt_status[i][n] = "succeeded"
           <=> item_status[i] = "succeeded" /\ n = fencing_token[i]
    BY DEF Inv, OneSuccess
  <2>2. attempt_status'[i][n] = "succeeded" <=> attempt_status[i][n] = "succeeded"
    BY <1>1, <1>h DEF ActiveStatus
  <2>3. item_status'[i] = "succeeded" <=> item_status[i] = "succeeded"
    BY <1>1, <1>6
  <2> QED BY <2>1, <2>2, <2>3
<1>10. RetryBudget' /\ RowsAreNumbered'
  <2>1. \A i \in Items : item_status'[i] = item_status[i] \/ item_status'[i] = "cancelled"
    BY <1>1
  <2> QED BY <1>1, <2>1 DEF Inv, RetryBudget, RowsAreNumbered, ActiveStatus
<1>11. LiveLeaseIsOpen'
  <2>1. \A i \in Items : lease_live'[i] => i \notin S /\ lease_live[i]
    BY <1>2
  <2>2. \A i \in Items \ S : item_status'[i] = item_status[i]
    BY <1>1
  <2> QED BY <2>1, <2>2 DEF Inv, LiveLeaseIsOpen
<1>12. LockIsHeldByOpenAttempt'
  <2> SUFFICES ASSUME integration_lock' # NoAttempt
               PROVE  integration_lock.item \notin S
    BY <1>1, <1>3, <1>t DEF Inv, LockIsHeldByOpenAttempt, TablesTypeOK
  <2>1. /\ integration_lock \in [item : Items, attempt : AttemptIds]
        /\ integration_lock.attempt = fencing_token[integration_lock.item]
        /\ item_status[integration_lock.item] \in ActiveStatus
    BY <1>3, <1>t DEF TablesTypeOK, Inv, LockIsHeldByOpenAttempt
  <2>2. current_attempt_id[integration_lock.item] = fencing_token[integration_lock.item]
    BY <2>1 DEF Inv, Fencing, CurrentAttemptIsOpen
  <2> QED BY <1>4, <2>1, <2>2
<1>13. ProjectionAgrees'
  BY <1>1, <1>6, <1>t DEF ProjectionAgrees
<1>14. LaterItemsAreNew'
  BY <1>1, <1>6 DEF Inv, LaterItemsAreNew
<1>15. DependencyOrder'
  <2>1. \A i \in Items :
           /\ work_item_statuses'[i] \in ActiveStatus \cup {"ready", "succeeded"}
                => work_item_statuses'[i] = work_item_statuses[i]
           /\ work_item_statuses[i] = "succeeded" => work_item_statuses'[i] = "succeeded"
    BY <1>1, <1>5 DEF ActiveStatus
  <2> QED BY <2>1, DependencyAssumption DEF Inv, DependencyOrder
<1> QED BY <1>7, <1>8, <1>9, <1>10, <1>11, <1>12, <1>13, <1>14, <1>15 DEF Inv

-----------------------------------------------------------------------------
(* The theorems.                                                           *)

\* Every transaction of the store and the controller preserves Inv.
LEMMA NextInv ==
  ASSUME Inv, [Next]_repository_vars
  PROVE  Inv'
<1>1. ASSUME NEW r \in Runs, ControllerStep(r) PROVE Inv'
  <2>1. CASE create_run(r)
    BY <2>1, CreateRunStep
  <2>2. CASE commit_plan(r)
    BY <2>2, FirstPlanStep
  <2>3. CASE reconcile(r)
    BY <2>3, ReconcileStep
  <2>4. CASE replan_from_evidence(r)
    BY <2>4, ReplanStep
  <2>5. CASE \E i \in Items, approved \in BOOLEAN : decide_approval(r, i, approved)
    BY <2>5, DecideApprovalStep
  <2>6. CASE \E status \in {"paused", "running"} : change_status(r, status)
    BY <2>6, ChangeStatusStep
  <2>7. CASE cancel(r)
    BY <2>7, CancelStep
  <2> QED BY <1>1, <2>1, <2>2, <2>3, <2>4, <2>5, <2>6, <2>7 DEF ControllerStep
<1>2. ASSUME NEW i \in Items, NEW n \in AttemptIds, AttemptStep(i, n) PROVE Inv'
  <2>1. CASE start_attempt(i, n)
    BY <2>1, StartStep
  <2>2. CASE renew_lease(i, n)
    BY <2>2, RenewStep
  <2>3. CASE \E seq \in 1..MaxSequence : commit_checkpoint(i, n, seq)
    BY <2>3, CheckpointStep
  <2>4. CASE \E succeeded, retryable \in BOOLEAN : complete_attempt(i, n, succeeded, retryable)
    BY <2>4, CompleteStep
  <2>5. CASE complete_cancelled_attempt(i, n)
    BY <2>5, CompleteCancelledStep
  <2> QED BY <1>2, <2>1, <2>2, <2>3, <2>4, <2>5 DEF AttemptStep
<1>3. CASE LeaseStep
  <2>1. CASE \E w \in Workers, i \in Items : claim_work(w, i)
    BY <2>1, ClaimStep
  <2>2. CASE \E i \in Items : ExpireLease(i)
    BY <2>2, ExpireStep
  <2>3. CASE \E S \in SUBSET Items : release_expired_leases(S)
    BY <2>3, ReleaseStep
  <2> QED BY <1>3, <2>1, <2>2, <2>3 DEF LeaseStep
<1>4. CASE UNCHANGED repository_vars
  BY <1>4, FrameStep
     DEF repository_vars, aggregate_vars, table_vars, Inv, TypeOK, AggregateTypeOK,
         TablesTypeOK, LiveLeaseIsOpen
<1> QED BY <1>1, <1>2, <1>3, <1>4 DEF Next

\* In every behaviour of the store and the controller, Inv holds.
THEOREM InvHolds == Spec => []Inv
BY InitInv, NextInv, PTL DEF Spec

\* Every table and snapshot column holds a value of its type; the attempt
\* numbers claim_work hands out stay within WorkBudget.validate's limit.
THEOREM TypeCorrect == Spec => []TypeOK
<1>1. Inv => TypeOK
  BY DEF Inv
<1> QED BY InvHolds, <1>1, PTL

\* Whatever claims, expiries, late completions, replans and cancellations
\* interleave, at most one attempt of an item is open, and it is the one the
\* row's fencing token and current_attempt_id name.
THEOREM AttemptsAreFenced == Spec => []Fencing
<1>1. Inv => Fencing
  BY DEF Inv
<1> QED BY InvHolds, <1>1, PTL

\* No item is attempted more often than its budget allows.
THEOREM RetriesAreBounded == Spec => []RetryBudget
<1>1. Inv => RetryBudget
  BY DEF Inv
<1> QED BY InvHolds, <1>1, PTL

\* complete_attempt records one success per item, the last attempt's.
THEOREM SuccessIsRecordedOnce == Spec => []OneSuccess
<1>1. Inv => OneSuccess
  BY DEF Inv
<1> QED BY InvHolds, <1>1, PTL

\* The integration lock is never left behind by an attempt that ended.
THEOREM LockIsNotLeaked == Spec => []LockIsHeldByOpenAttempt
<1>1. Inv => LockIsHeldByOpenAttempt
  BY DEF Inv
<1> QED BY InvHolds, <1>1, PTL

\* The aggregate the reducer folds and the work_items table the projection
\* updates never disagree about an item of the current plan.
THEOREM ProjectionIsFaithful == Spec => []ProjectionAgrees
<1>1. Inv => ProjectionAgrees
  BY DEF Inv
<1> QED BY InvHolds, <1>1, PTL

\* Work is scheduled and finished in dependency order, through every retry
\* and replan.
THEOREM DependenciesComeFirst == Spec => []DependencyOrder
<1>1. Inv => DependencyOrder
  BY DEF Inv
<1> QED BY InvHolds, <1>1, PTL

-----------------------------------------------------------------------------
(* Finished and cancelled work.                                            *)

\* complete_attempt, claims, starts and releases concern a leased item, the
\* controller's events and patches one that has not succeeded.
LEMMA SuccessStep ==
  ASSUME Inv, [Next]_repository_vars, NEW i \in Items, work_item_statuses[i] = "succeeded"
  PROVE  work_item_statuses'[i] = "succeeded"
<1>t. AggregateTypeOK /\ item_status[i] = "succeeded"
  BY DEF Inv, TypeOK, ProjectionAgrees
<1>1. ASSUME NEW r \in Runs, ControllerStep(r) PROVE work_item_statuses'[i] = "succeeded"
  <2>1. CASE reconcile(r)
    <3>1. i \notin NewlyBlocked(r)
      BY DEF NewlyBlocked, Blocked, blocked_work_item_ids
    <3>2. i \notin NewlyReady(r)
      BY DEF NewlyReady, Schedulable, Ready, ready_work_item_ids
    <3> QED BY <2>1, <3>1, <3>2 DEF reconcile, DecidedItem
  <2>2. ASSUME NEW plan, CommitPlan(r, plan), RunOf[i] = r => i \in plan
        PROVE  work_item_statuses'[i] = "succeeded"
    BY <2>2 DEF CommitPlan, PlanItems
  <2>3. CASE commit_plan(r)
    <3>1. ~(0 < RevisionOf[i] /\ current_plan_revision[RunOf[i]] = 0)
      BY <1>t DEF Inv, LaterItemsAreNew
    <3>2. 0 < RevisionOf[i]
      BY ItemAssumption
    <3>3. CommitPlan(r, AddedItems(r, 1)) /\ current_plan_revision[r] = 0
      BY <2>3 DEF commit_plan
    <3> QED BY <2>2, <3>1, <3>2, <3>3
  <2>4. CASE replan_from_evidence(r)
    <3>1. PICK seen \in SUBSET FailedOrBlocked(r) :
             apply_patch(r, ObsoleteItems(PlanItems(r), work_item_statuses, seen))
      BY <2>4 DEF replan_from_evidence
    <3>2. i \notin ObsoleteItems(PlanItems(r), work_item_statuses, seen)
      BY ObsoleteIsIdle
    <3> DEFINE cancelled == ObsoleteItems(PlanItems(r), work_item_statuses, seen)
               added == AddedItems(r, current_plan_revision[r] + 1)
    <3>3. CommitPlan(r, PatchedPlan(PlanItems(r), cancelled, added))
      BY <3>1 DEF apply_patch
    <3>4. RunOf[i] = r => i \in PatchedPlan(PlanItems(r), cancelled, added)
      BY <3>2 DEF PatchedPlan, PlanItems
    <3> HIDE DEF cancelled, added
    <3> QED BY <2>2, <3>3, <3>4
  <2>5. CASE cancel(r)
    BY <2>5 DEF cancel, CancelledItems
  <2>6. CASE \/ create_run(r)
             \/ \E j \in Items, approved \in BOOLEAN : decide_approval(r, j, approved)
             \/ \E status \in {"paused", "running"} : change_status(r, status)
    BY <2>6 DEF create_run, decide_approval, change_status
  <2> QED BY <1>1, <2>1, <2>3, <2>4, <2>5, <2>6 DEF ControllerStep
<1>2. ASSUME NEW j \in Items, NEW n \in AttemptIds, AttemptStep(j, n)
      PROVE  work_item_statuses'[i] = "succeeded"
  <2>1. CASE start_attempt(j, n)
    <3>1. item_status[j] \in ActiveStatus
      BY <2>1, OpenAttempt DEF start_attempt, CanStart, ActiveStatus
    <3> QED BY <2>1, <3>1, <1>t DEF start_attempt, ActiveStatus
  <2>2. CASE \E succeeded, retryable \in BOOLEAN : complete_attempt(j, n, succeeded, retryable)
    <3>1. item_status[j] \in ActiveStatus
      BY <2>2 DEF complete_attempt, CanComplete, Inv, Fencing, CurrentAttemptIsOpen, AttemptIds
    <3> QED BY <2>2, <3>1, <1>t DEF complete_attempt, ActiveStatus
  <2>3. CASE \/ renew_lease(j, n)
             \/ \E seq \in 1..MaxSequence : commit_checkpoint(j, n, seq)
             \/ complete_cancelled_attempt(j, n)
    BY <2>3 DEF renew_lease, commit_checkpoint, complete_cancelled_attempt, aggregate_vars
  <2> QED BY <1>2, <2>1, <2>2, <2>3 DEF AttemptStep
<1>3. CASE LeaseStep
  <2>1. CASE \E w \in Workers, j \in Items : claim_work(w, j)
    BY <2>1, <1>t DEF claim_work, CanClaim
  <2>2. CASE \E j \in Items : ExpireLease(j)
    BY <2>2 DEF ExpireLease, aggregate_vars
  <2>3. CASE \E S \in SUBSET Items : release_expired_leases(S)
    BY <2>3, <1>t DEF release_expired_leases, CanRelease, ExpiredItems, ActiveItems, ActiveStatus
  <2> QED BY <1>3, <2>1, <2>2, <2>3 DEF LeaseStep
<1>4. CASE UNCHANGED repository_vars
  BY <1>4 DEF repository_vars, aggregate_vars
<1> QED BY <1>1, <1>2, <1>3, <1>4 DEF Next

\* No step of any worker, client or reaper takes a success back: not a retry,
\* not a replan, not a cancellation, not the late completion of a stale worker.
THEOREM FinishedWorkIsKept == Spec => SuccessIsFinal
<1>1. Inv /\ Inv' /\ [Next]_repository_vars =>
         [\A i \in Items :
             work_item_statuses[i] = "succeeded" =>
                /\ work_item_statuses'[i] = "succeeded"
                /\ item_status'[i] = "succeeded"]_repository_vars
  BY SuccessStep DEF Inv, ProjectionAgrees
<1> QED BY InvHolds, <1>1, PTL DEF Spec, SuccessIsFinal

\* The items of a cancelled run that CancelledIsQuiet allows, without leases.
Quiet(i) == item_status[i] \in {"absent", "succeeded", "cancelled"}

QuietRuns ==
    \A r \in Runs : run_status[r] = "cancelled" =>
       \A i \in Items : RunOf[i] = r => Quiet(i)

\* Every transaction on an item of a cancelled run is refused or leaves the
\* item's status alone, and a run can only become cancelled by cancel itself.
LEMMA QuietStep ==
  ASSUME Inv, QuietRuns, [Next]_repository_vars
  PROVE  QuietRuns'
<1> USE DEF QuietRuns, Quiet
<1>t. TablesTypeOK /\ AggregateTypeOK /\ ProjectionAgrees
  BY DEF Inv, TypeOK
<1>1. ASSUME NEW r \in Runs, ControllerStep(r) PROVE QuietRuns'
  <2>1. CASE create_run(r)
    BY <2>1, <1>t DEF create_run, table_vars, AggregateTypeOK
  <2>2. ASSUME NEW plan, CommitPlan(r, plan) PROVE QuietRuns'
    BY <2>2 DEF CommitPlan, TERMINAL_RUN_STATUSES
  <2>3. CASE commit_plan(r)
    BY <2>3, <2>2 DEF commit_plan
  <2>4. CASE replan_from_evidence(r)
    BY <2>4, <2>2 DEF replan_from_evidence, apply_patch
  <2>5. CASE reconcile(r)
    <3>1. run_status[r] # "cancelled" /\ run_status' = [run_status EXCEPT ![r] = DecidedStatus(r)]
      BY <2>5 DEF reconcile, AppendsEvents, Deciding
    <3>2. DecidedStatus(r) # "cancelled"
      BY DEF DecidedStatus
    <3>3. \A i \in Items : RunOf[i] # r => i \notin NewlyBlocked(r) /\ i \notin NewlyReady(r)
      BY DEF NewlyBlocked, Blocked, blocked_work_item_ids, NewlyReady, Schedulable, Ready,
             ready_work_item_ids, PlanItems
    <3>4. \A i \in Items : RunOf[i] # r => item_status'[i] = item_status[i]
      BY <2>5, <3>3 DEF reconcile, DecidedItem
    <3> QED BY <3>1, <3>2, <3>4, <1>t DEF AggregateTypeOK
  <2>6. CASE \E j \in Items, approved \in BOOLEAN : decide_approval(r, j, approved)
    BY <2>6, <1>t DEF decide_approval, ApprovalTarget, table_vars, AggregateTypeOK
  <2>7. CASE \E status \in {"paused", "running"} : change_status(r, status)
    BY <2>7, <1>t DEF change_status, table_vars, AggregateTypeOK
  <2>8. CASE cancel(r)
    <3>1. \A i \in Items : item_status'[i] = IF i \in CancelledItems(r) THEN "cancelled"
                                                                      ELSE item_status[i]
      BY <2>8 DEF cancel
    <3>2. \A i \in Items : RunOf[i] = r /\ i \notin CancelledItems(r) => Quiet(i)
      BY <1>t DEF CancelledItems, PlanItems, ProjectionAgrees
    <3>3. run_status' = [run_status EXCEPT ![r] = "cancelled"]
      BY <2>8 DEF cancel
    <3> QED BY <3>1, <3>2, <3>3, <1>t DEF AggregateTypeOK
  <2> QED BY <1>1, <2>1, <2>3, <2>4, <2>5, <2>6, <2>7, <2>8 DEF ControllerStep
<1>2. ASSUME NEW j \in Items, NEW n \in AttemptIds, AttemptStep(j, n) PROVE QuietRuns'
  <2>1. CASE start_attempt(j, n)
    <3>1. item_status[j] \in ActiveStatus
      BY <2>1, OpenAttempt DEF start_attempt, CanStart, ActiveStatus
    <3> QED BY <2>1, <3>1, <1>t DEF start_attempt, ActiveStatus, TablesTypeOK
  <2>2. CASE \E succeeded, retryable \in BOOLEAN : complete_attempt(j, n, succeeded, retryable)
    <3>1. item_status[j] \in ActiveStatus
      BY <2>2 DEF complete_attempt, CanComplete, Inv, Fencing, CurrentAttemptIsOpen, AttemptIds
    <3> QED BY <2>2, <3>1, <1>t DEF complete_attempt, ActiveStatus, TablesTypeOK
  <2>3. CASE \/ renew_lease(j, n)
             \/ \E seq \in 1..MaxSequence : commit_checkpoint(j, n, seq)
             \/ complete_cancelled_attempt(j, n)
    BY <2>3 DEF renew_lease, commit_checkpoint, complete_cancelled_attempt, aggregate_vars
  <2> QED BY <1>2, <2>1, <2>2, <2>3 DEF AttemptStep
<1>3. CASE LeaseStep
  <2>1. CASE \E w \in Workers, j \in Items : claim_work(w, j)
    BY <2>1, <1>t DEF claim_work, CanClaim, TablesTypeOK
  <2>2. CASE \E j \in Items : ExpireLease(j)
    BY <2>2 DEF ExpireLease, aggregate_vars
  <2>3. CASE \E S \in SUBSET Items : release_expired_leases(S)
    <3>1. PICK S \in SUBSET Items : release_expired_leases(S)
      BY <2>3
    <3>2. \A j \in S : item_status[j] \in ActiveStatus
      BY <3>1 DEF release_expired_leases, CanRelease, ExpiredItems, ActiveItems
    <3>3. \A j \in Items : ~Quiet(j) \/ item_status'[j] = item_status[j]
      <4>1. \A j \in Items : j \in S \/ item_status'[j] = item_status[j]
        BY <3>1 DEF release_expired_leases
      <4> QED BY <3>2, <4>1 DEF ActiveStatus
    <3>4. run_status' = run_status
      BY <3>1 DEF release_expired_leases
    <3> QED BY <3>3, <3>4
  <2> QED BY <1>3, <2>1, <2>2, <2>3 DEF LeaseStep
<1>4. CASE UNCHANGED repository_vars
  BY <1>4 DEF repository_vars, aggregate_vars, table_vars
<1> QED BY <1>1, <1>2, <1>3, <1>4 DEF Next

\* After cancel, no work of the run is leased, schedulable or revivable.
THEOREM CancellationIsFinal == Spec => []CancelledIsQuiet
<1>1. Init => QuietRuns
  BY DEF Init, RepositoryInit, QuietRuns
<1>2. Inv /\ QuietRuns /\ [Next]_repository_vars => QuietRuns'
  BY QuietStep
<1>3. Inv /\ QuietRuns => CancelledIsQuiet
  BY DEF Inv, LiveLeaseIsOpen, QuietRuns, Quiet, CancelledIsQuiet, ActiveStatus
<1> QED BY InvHolds, <1>1, <1>2, <1>3, PTL DEF Spec

-----------------------------------------------------------------------------
(* Checkpoints.                                                            *)

\* latest_checkpoints is the last checkpoint of the last attempt that has one.
LatestIsStored ==
    \A i \in Items :
       \/ latest_checkpoints[i] = NoCheckpoint
       \/ /\ latest_checkpoints[i].attempt \in AttemptIds
          /\ latest_checkpoints[i].attempt <= fencing_token[i]
          /\ latest_checkpoints[i].sequence
                = checkpoint_sequence[i][latest_checkpoints[i].attempt]

Advances == \A i \in Items : CheckpointBefore(latest_checkpoints[i], latest_checkpoints'[i])

\* Only commit_checkpoint writes checkpoints, and only claim_work moves the
\* fencing token.
LEMMA OtherStepsKeepCheckpoints ==
  ASSUME Inv, Next
  PROVE  \/ /\ UNCHANGED <<latest_checkpoints, checkpoint_sequence>>
            /\ \A i \in Items : fencing_token[i] <= fencing_token'[i]
         \/ \E i \in Items, n \in AttemptIds, seq \in 1..MaxSequence :
               commit_checkpoint(i, n, seq)
<1>t. \A i \in Items : fencing_token[i] \in Int
  BY BudgetAssumption DEF Inv, TypeOK, TablesTypeOK
<1> DEFINE Kept == /\ UNCHANGED <<latest_checkpoints, checkpoint_sequence>>
                   /\ fencing_token' = fencing_token
<1>1. ASSUME NEW r \in Runs, ControllerStep(r) PROVE Kept
  BY <1>1 DEF ControllerStep, create_run, commit_plan, replan_from_evidence, apply_patch,
              CommitPlan, reconcile, decide_approval, change_status, cancel, table_vars
<1>2. ASSUME NEW i \in Items, NEW n \in AttemptIds, AttemptStep(i, n)
      PROVE  Kept \/ \E seq \in 1..MaxSequence : commit_checkpoint(i, n, seq)
  BY <1>2 DEF AttemptStep, start_attempt, renew_lease, complete_attempt,
              complete_cancelled_attempt, aggregate_vars
<1>3. ASSUME NEW w \in Workers, NEW i \in Items, claim_work(w, i)
      PROVE  /\ UNCHANGED <<latest_checkpoints, checkpoint_sequence>>
             /\ \A j \in Items : fencing_token[j] <= fencing_token'[j]
  <2>1. fencing_token' = [fencing_token EXCEPT ![i] = fencing_token[i] + 1]
    BY <1>3 DEF claim_work
  <2>2. fencing_token \in [Items -> 0..AttemptLimit]
    BY DEF Inv, TypeOK, TablesTypeOK
  <2>3. \A j \in Items : fencing_token'[j] = IF j = i THEN fencing_token[j] + 1
                                                      ELSE fencing_token[j]
    BY <2>1, <2>2
  <2> QED BY <1>3, <1>t, <2>3 DEF claim_work
<1>4. CASE \/ \E i \in Items : ExpireLease(i)
           \/ \E S \in SUBSET Items : release_expired_leases(S)
  <2>1. Kept
    BY <1>4 DEF ExpireLease, release_expired_leases, aggregate_vars
  <2> QED BY <2>1, <1>t
<1> QED BY <1>1, <1>2, <1>3, <1>4, <1>t DEF Next, LeaseStep

\* A commit carries the row's fencing token, so its attempt is the newest, and
\* a sequence above the stored one.
LEMMA CheckpointOrder ==
  ASSUME Inv, LatestIsStored, [Next]_repository_vars
  PROVE  LatestIsStored' /\ Advances
<1> USE BudgetAssumption, RepositoryAssumption
<1>t. /\ latest_checkpoints \in
            [Items -> [attempt : 0..AttemptLimit, sequence : 0..MaxSequence]]
      /\ checkpoint_sequence \in [Items -> [AttemptIds -> 0..MaxSequence]]
      /\ fencing_token \in [Items -> 0..AttemptLimit]
  BY DEF Inv, TypeOK, TablesTypeOK, AggregateTypeOK
<1>r. \A i \in Items : CheckpointBefore(latest_checkpoints[i], latest_checkpoints[i])
  BY <1>t DEF CheckpointBefore
<1>1. ASSUME UNCHANGED <<latest_checkpoints, checkpoint_sequence>>,
             \A i \in Items : fencing_token[i] <= fencing_token'[i],
             fencing_token' \in [Items -> 0..AttemptLimit]
      PROVE  LatestIsStored' /\ Advances
  <2>1. Advances
    BY <1>1, <1>r DEF Advances
  <2>2. LatestIsStored'
    <3> SUFFICES ASSUME NEW i \in Items, latest_checkpoints[i] # NoCheckpoint
                 PROVE  latest_checkpoints[i].attempt <= fencing_token'[i]
      BY <1>1 DEF LatestIsStored
    <3>1. latest_checkpoints[i].attempt <= fencing_token[i]
      BY DEF LatestIsStored
    <3> QED BY <3>1, <1>1, <1>t DEF AttemptIds
  <2> QED BY <2>1, <2>2
<1>2. ASSUME NEW i \in Items, NEW n \in AttemptIds, NEW seq \in 1..MaxSequence,
             commit_checkpoint(i, n, seq)
      PROVE  LatestIsStored' /\ Advances
  <2>1. fencing_token[i] = n /\ seq > checkpoint_sequence[i][n]
    BY <1>2 DEF commit_checkpoint, CanCheckpoint, Fenced
  <2>2. /\ latest_checkpoints' =
              [latest_checkpoints EXCEPT ![i] = [attempt |-> n, sequence |-> seq]]
        /\ checkpoint_sequence' = [checkpoint_sequence EXCEPT ![i][n] = seq]
        /\ fencing_token' = fencing_token
    BY <1>2 DEF commit_checkpoint
  <2>3. /\ latest_checkpoints'[i].attempt = n
        /\ latest_checkpoints'[i].sequence = seq
        /\ checkpoint_sequence'[i][n] = seq
    BY <2>2, <1>t
  <2>4. \A j \in Items : j # i => /\ latest_checkpoints'[j] = latest_checkpoints[j]
                                  /\ checkpoint_sequence'[j] = checkpoint_sequence[j]
    BY <2>2, <1>t
  <2>5. LatestIsStored'
    <3>1. /\ latest_checkpoints'[i].attempt \in AttemptIds
          /\ latest_checkpoints'[i].attempt <= fencing_token'[i]
          /\ latest_checkpoints'[i].sequence
                = checkpoint_sequence'[i][latest_checkpoints'[i].attempt]
      BY <2>1, <2>2, <2>3 DEF AttemptIds
    <3>2. ASSUME NEW j \in Items, j # i
          PROVE  \/ latest_checkpoints'[j] = NoCheckpoint
                 \/ /\ latest_checkpoints'[j].attempt \in AttemptIds
                    /\ latest_checkpoints'[j].attempt <= fencing_token'[j]
                    /\ latest_checkpoints'[j].sequence
                          = checkpoint_sequence'[j][latest_checkpoints'[j].attempt]
      BY <2>2, <2>4, <3>2 DEF LatestIsStored
    <3> QED BY <3>1, <3>2 DEF LatestIsStored, NoCheckpoint, AttemptIds
  <2>6. CheckpointBefore(latest_checkpoints[i], latest_checkpoints'[i])
    <3>1. CASE latest_checkpoints[i] = NoCheckpoint
      BY <3>1, <2>3 DEF CheckpointBefore, NoCheckpoint, AttemptIds
    <3>2. CASE latest_checkpoints[i] # NoCheckpoint
      <4>1. /\ latest_checkpoints[i].attempt \in AttemptIds
            /\ latest_checkpoints[i].attempt <= n
            /\ latest_checkpoints[i].sequence
                  = checkpoint_sequence[i][latest_checkpoints[i].attempt]
        BY <3>2, <2>1 DEF LatestIsStored
      <4>2. checkpoint_sequence[i][n] \in Int
        BY <1>t
      <4> QED BY <4>1, <4>2, <2>1, <2>3 DEF CheckpointBefore, AttemptIds
    <3> QED BY <3>1, <3>2
  <2> QED BY <2>4, <2>5, <2>6, <1>r DEF Advances
<1>3. CASE Next
  <2>1. fencing_token' \in [Items -> 0..AttemptLimit]
    BY <1>3, NextInv DEF Inv, TypeOK, TablesTypeOK
  <2> QED BY <1>1, <1>2, <1>3, <2>1, OtherStepsKeepCheckpoints
<1>4. CASE UNCHANGED repository_vars
  BY <1>4, <1>1, <1>t DEF repository_vars, aggregate_vars, table_vars
<1> QED BY <1>3, <1>4

\* However the commits of a stale and a fresh worker interleave, the checkpoint
\* a resumed attempt starts from is never an older one than before.
THEOREM CheckpointsNeverGoBack == Spec => CheckpointsAdvance
<1>1. Init => LatestIsStored
  BY DEF Init, RepositoryInit, LatestIsStored
<1>2. Inv /\ LatestIsStored /\ [Next]_repository_vars => LatestIsStored'
  BY CheckpointOrder
<1>3. Inv /\ LatestIsStored /\ [Next]_repository_vars =>
         [\A i \in Items : CheckpointBefore(latest_checkpoints[i], latest_checkpoints'[i])
         ]_repository_vars
  BY CheckpointOrder DEF Advances
<1> QED BY InvHolds, <1>1, <1>2, <1>3, PTL DEF Spec, CheckpointsAdvance

-----------------------------------------------------------------------------
(* Finished runs.                                                          *)

\* _transition_run refuses a terminal run everything but its own status.
LEMMA TerminalMayNot ==
  ASSUME NEW s \in TERMINAL_RUN_STATUSES, NEW t, RunMay(s, t)
  PROVE  s = t
BY DEF TERMINAL_RUN_STATUSES, RunMay, RUN_TRANSITIONS

\* What a step does to the run of one controller operation.
LEMMA OtherRunsStay ==
  ASSUME Inv, NEW r \in Runs, ControllerStep(r), NEW q \in Runs, q # r
  PROVE  /\ run_status'[q] = run_status[q]
         /\ current_plan_revision'[q] = current_plan_revision[q]
         /\ verified_revision'[q] = verified_revision[q]
<1>t. AggregateTypeOK
  BY DEF Inv, TypeOK
<1> QED
  BY ZenonT(60), <1>t DEF AggregateTypeOK, ControllerStep, create_run, commit_plan, replan_from_evidence,
              apply_patch, CommitPlan, reconcile, decide_approval, change_status, cancel

\* Workers and the reaper leave the statuses and plans of runs alone.
LEMMA WorkersLeaveRuns ==
  ASSUME Inv, \/ \E i \in Items, n \in AttemptIds : AttemptStep(i, n)
              \/ LeaseStep
  PROVE  UNCHANGED <<run_status, current_plan_revision>>
<1>1. ASSUME NEW i \in Items, NEW n \in AttemptIds, AttemptStep(i, n)
      PROVE  UNCHANGED <<run_status, current_plan_revision>>
  BY <1>1 DEF AttemptStep, start_attempt, renew_lease, commit_checkpoint, complete_attempt,
              complete_cancelled_attempt, aggregate_vars
<1>2. CASE LeaseStep
  BY <1>2 DEF LeaseStep, claim_work, ExpireLease, release_expired_leases, aggregate_vars
<1> QED BY <1>1, <1>2

\* A run is completed by reconcile, from a plan that is complete.
LEMMA CompletionStep ==
  ASSUME Inv, [Next]_repository_vars, NEW r \in Runs,
         run_status'[r] = "completed", run_status[r] # "completed"
  PROVE  reconcile(r) /\ Decision(r) = "complete" /\ PlanComplete(r)
<1>t. AggregateTypeOK
  BY DEF Inv, TypeOK
<1>1. ControllerStep(r)
  <2>1. ASSUME NEW q \in Runs, ControllerStep(q), q # r PROVE FALSE
    BY <2>1, OtherRunsStay
  <2>2. CASE UNCHANGED repository_vars
    BY <2>2 DEF repository_vars, aggregate_vars
  <2> QED BY <2>1, <2>2, WorkersLeaveRuns DEF Next
<1>2. reconcile(r)
  <2>1. ~create_run(r) /\ ~cancel(r)
    BY <1>t DEF create_run, cancel, AggregateTypeOK
  <2>2. ~commit_plan(r) /\ ~replan_from_evidence(r)
    BY DEF commit_plan, replan_from_evidence, apply_patch, CommitPlan
  <2>3. ~(\E i \in Items, approved \in BOOLEAN : decide_approval(r, i, approved))
    BY <1>t DEF decide_approval, ApprovalTarget, AggregateTypeOK
  <2>4. ~(\E status \in {"paused", "running"} : change_status(r, status))
    BY <1>t DEF change_status, AggregateTypeOK
  <2> QED BY <1>1, <2>1, <2>2, <2>3, <2>4 DEF ControllerStep
<1>3. DecidedStatus(r) = "completed"
  BY <1>2, <1>t DEF reconcile, AggregateTypeOK
<1>4. Decision(r) = "complete"
  BY <1>3 DEF DecidedStatus
<1>5. PlanComplete(r)
  BY <1>4 DEF Decision
<1> QED BY <1>2, <1>4, <1>5

\* A run completes only while its current revision is verified: the decision
\* and the transition read the same snapshot.
THEOREM CompletionIsVerified == Spec => CompletesVerified
<1>1. ASSUME Inv, [Next]_repository_vars, NEW r \in Runs,
             run_status'[r] = "completed", run_status[r] # "completed", require_verifier
      PROVE  verified_revision'[r] = current_plan_revision'[r]
  <2>1. reconcile(r) /\ PlanComplete(r)
    BY <1>1, CompletionStep
  <2> QED BY <1>1, <2>1 DEF PlanComplete, plan_is_complete, reconcile
<1>2. Inv /\ [Next]_repository_vars =>
         [\A r \in Runs :
             /\ run_status'[r] = "completed"
             /\ run_status[r] # "completed"
             /\ require_verifier
             => verified_revision'[r] = current_plan_revision'[r]]_repository_vars
  BY <1>1
<1> QED BY InvHolds, <1>2, PTL DEF Spec, CompletesVerified

\* An item enters or leaves a plan only when a plan is committed.
LEMMA PlanStays ==
  ASSUME Inv, [Next]_repository_vars, NEW i \in Items,
         run_status[RunOf[i]] \in TERMINAL_RUN_STATUSES
  PROVE  work_item_statuses'[i] = "absent" <=> work_item_statuses[i] = "absent"
<1>t. AggregateTypeOK /\ TablesTypeOK /\ ProjectionAgrees
  BY DEF Inv, TypeOK
<1>1. ASSUME NEW r \in Runs, ControllerStep(r)
      PROVE  work_item_statuses'[i] = "absent" <=> work_item_statuses[i] = "absent"
  <2>1. CASE reconcile(r)
    <3>1. i \in NewlyBlocked(r) \cup NewlyReady(r) => work_item_statuses[i] # "absent"
      BY DEF NewlyBlocked, Blocked, blocked_work_item_ids, NewlyReady, Schedulable, Ready,
             ready_work_item_ids, PlanItems
    <3> QED BY <2>1, <3>1 DEF reconcile, DecidedItem
  <2>2. ASSUME NEW plan, CommitPlan(r, plan) PROVE work_item_statuses'[i] = work_item_statuses[i]
    BY <2>2 DEF CommitPlan
  <2>3. CASE commit_plan(r)
    BY <2>3, <2>2 DEF commit_plan
  <2>4. CASE replan_from_evidence(r)
    BY <2>4, <2>2 DEF replan_from_evidence, apply_patch
  <2>5. CASE cancel(r)
    BY <2>5 DEF cancel, CancelledItems, PlanItems
  <2>6. CASE \/ create_run(r)
             \/ \E j \in Items, approved \in BOOLEAN : decide_approval(r, j, approved)
             \/ \E status \in {"paused", "running"} : change_status(r, status)
    BY <2>6 DEF create_run, decide_approval, change_status
  <2> QED BY <1>1, <2>1, <2>3, <2>4, <2>5, <2>6 DEF ControllerStep
<1>2. ASSUME NEW j \in Items, NEW n \in AttemptIds, AttemptStep(j, n)
      PROVE  work_item_statuses'[i] = "absent" <=> work_item_statuses[i] = "absent"
  <2>1. CASE start_attempt(j, n)
    BY <2>1, <1>t DEF start_attempt, CanStart, WorkMay, StartedStatus, AggregateTypeOK
  <2>2. CASE \E succeeded, retryable \in BOOLEAN : complete_attempt(j, n, succeeded, retryable)
    BY <2>2, <1>t DEF complete_attempt, CanComplete, CompletionTarget, RetryStatus, WorkMay,
                      AggregateTypeOK
  <2>3. CASE \/ renew_lease(j, n)
             \/ \E seq \in 1..MaxSequence : commit_checkpoint(j, n, seq)
             \/ complete_cancelled_attempt(j, n)
    BY <2>3 DEF renew_lease, commit_checkpoint, complete_cancelled_attempt, aggregate_vars
  <2> QED BY <1>2, <2>1, <2>2, <2>3 DEF AttemptStep
<1>3. CASE LeaseStep
  <2>1. CASE \E w \in Workers, j \in Items : claim_work(w, j)
    BY <2>1, <1>t DEF claim_work, CanClaim, WorkMay, AggregateTypeOK
  <2>2. CASE \E j \in Items : ExpireLease(j)
    BY <2>2 DEF ExpireLease, aggregate_vars
  <2>3. CASE \E S \in SUBSET Items : release_expired_leases(S)
    BY <2>3 DEF release_expired_leases, CanRelease, RetryStatus, WorkMay
  <2> QED BY <1>3, <2>1, <2>2, <2>3 DEF LeaseStep
<1>4. CASE UNCHANGED repository_vars
  BY <1>4 DEF repository_vars, aggregate_vars
<1> QED BY <1>1, <1>2, <1>3, <1>4 DEF Next

\* No operation moves a terminal run or its plan, and none of its items is claimed.
LEMMA TerminalStep ==
  ASSUME Inv, [Next]_repository_vars, NEW r \in Runs, run_status[r] \in TERMINAL_RUN_STATUSES
  PROVE  /\ run_status'[r] = run_status[r]
         /\ current_plan_revision'[r] = current_plan_revision[r]
         /\ PlanItems(r)' = PlanItems(r)
         /\ \A i \in PlanItems(r) : fencing_token'[i] = fencing_token[i]
<1>t. AggregateTypeOK /\ TablesTypeOK
  BY DEF Inv, TypeOK
<1>1. ASSUME ControllerStep(r)
      PROVE  run_status'[r] = run_status[r] /\ current_plan_revision'[r] = current_plan_revision[r]
  <2>1. ~reconcile(r) /\ ~create_run(r)
    BY DEF reconcile, AppendsEvents, Deciding, create_run, TERMINAL_RUN_STATUSES
  <2>2. ~commit_plan(r) /\ ~replan_from_evidence(r)
    BY DEF commit_plan, replan_from_evidence, apply_patch, CommitPlan
  <2>3. ~cancel(r)
    BY TerminalMayNot DEF cancel
  <2>4. ASSUME NEW status \in {"paused", "running"}, change_status(r, status) PROVE FALSE
    BY <2>4, TerminalMayNot DEF change_status
  <2>5. ASSUME NEW i \in Items, NEW approved \in BOOLEAN, decide_approval(r, i, approved)
        PROVE  run_status'[r] = run_status[r] /\ current_plan_revision'[r] = current_plan_revision[r]
    BY <2>5, <1>t, TerminalMayNot DEF decide_approval, AggregateTypeOK
  <2> QED BY <1>1, <2>1, <2>2, <2>3, <2>4, <2>5 DEF ControllerStep
<1>2. run_status'[r] = run_status[r] /\ current_plan_revision'[r] = current_plan_revision[r]
  BY <1>1, OtherRunsStay, WorkersLeaveRuns DEF Next, repository_vars, aggregate_vars
<1>3. PlanItems(r)' = PlanItems(r)
  BY PlanStays DEF PlanItems
<1>4. ASSUME NEW i \in Items, RunOf[i] = r PROVE fencing_token'[i] = fencing_token[i]
  <2>1. ASSUME NEW w \in Workers, NEW j \in Items, claim_work(w, j)
        PROVE  fencing_token'[i] = fencing_token[i]
    <3>1. j # i
      BY <1>4, <2>1 DEF claim_work, CanClaim, TERMINAL_RUN_STATUSES
    <3> QED BY <2>1, <3>1, <1>t DEF claim_work, TablesTypeOK
  <2>2. ASSUME NEW q \in Runs, ControllerStep(q) PROVE fencing_token' = fencing_token
    BY <2>2 DEF ControllerStep, create_run, commit_plan, replan_from_evidence, apply_patch,
                CommitPlan, reconcile, decide_approval, change_status, cancel, table_vars
  <2>3. ASSUME NEW j \in Items, NEW n \in AttemptIds, AttemptStep(j, n)
        PROVE  fencing_token' = fencing_token
    BY <2>3 DEF AttemptStep, start_attempt, renew_lease, commit_checkpoint, complete_attempt,
                complete_cancelled_attempt
  <2>4. CASE \/ \E j \in Items : ExpireLease(j)
             \/ \E S \in SUBSET Items : release_expired_leases(S)
    BY <2>4 DEF ExpireLease, release_expired_leases
  <2>5. CASE UNCHANGED repository_vars
    BY <2>5 DEF repository_vars, table_vars
  <2> QED BY <2>1, <2>2, <2>3, <2>4, <2>5 DEF Next, LeaseStep
<1> QED BY <1>2, <1>3, <1>4 DEF PlanItems

\* A late worker, reaper or request cannot reopen a finished run.
THEOREM FinishedRunsStay == Spec => TerminalIsFinal
<1>1. Inv /\ [Next]_repository_vars =>
         [\A r \in Runs :
             run_status[r] \in TERMINAL_RUN_STATUSES =>
                /\ run_status'[r] = run_status[r]
                /\ current_plan_revision'[r] = current_plan_revision[r]
                /\ \A i \in PlanItems(r) : fencing_token'[i] = fencing_token[i]
         ]_repository_vars
  BY TerminalStep
<1> QED BY InvHolds, <1>1, PTL DEF Spec, TerminalIsFinal

\* A succeeded item stays an item of its run's plan.
LEMMA SucceededStays ==
  ASSUME Inv, [Next]_repository_vars, NEW r \in Runs, NEW i \in PlanItems(r),
         work_item_statuses[i] = "succeeded"
  PROVE  i \in PlanItems(r)' /\ work_item_statuses'[i] = "succeeded"
BY SuccessStep DEF PlanItems

\* The decision that completes a run adds no other event to its transaction,
\* and a completed run is terminal, so what it was completed on still holds.
LEMMA CompletedStep ==
  ASSUME Inv, CompletedMeansDone, [Next]_repository_vars, NEW r \in Runs,
         run_status'[r] = "completed"
  PROVE  /\ \A i \in RequiredIds(PlanItems(r)') : work_item_statuses'[i] = "succeeded"
         /\ require_verifier =>
               \E i \in PlanItems(r)' : kind[i] = "verify" /\ work_item_statuses'[i] = "succeeded"
<1>1. /\ \A i \in RequiredIds(PlanItems(r)) : work_item_statuses[i] = "succeeded"
      /\ require_verifier =>
            \E i \in PlanItems(r) : kind[i] = "verify" /\ work_item_statuses[i] = "succeeded"
  <2>1. CASE run_status[r] = "completed"
    BY <2>1 DEF CompletedMeansDone
  <2>2. CASE run_status[r] # "completed"
    BY <2>2, CompletionStep DEF PlanComplete, plan_is_complete
  <2> QED BY <2>1, <2>2
<1>2. PlanItems(r)' = PlanItems(r)
  <2>1. CASE run_status[r] = "completed"
    BY <2>1, TerminalStep DEF TERMINAL_RUN_STATUSES
  <2>2. CASE run_status[r] # "completed"
    <3>1. reconcile(r) /\ NewlyBlocked(r) = {} /\ NewlyReady(r) = {}
      BY <2>2, CompletionStep DEF NewlyBlocked, NewlyReady
    <3> QED BY <3>1 DEF reconcile, DecidedItem, PlanItems
  <2> QED BY <2>1, <2>2
<1>3. RequiredIds(PlanItems(r)) \subseteq PlanItems(r)
  BY DEF RequiredIds
<1> QED BY <1>1, <1>2, <1>3, SucceededStays

\* A completed run has finished all its completion policy requires, whatever
\* late results, expiries and requests follow its completion.
THEOREM CompletedRunsAreDone == Spec => []CompletedMeansDone
<1>1. Init => CompletedMeansDone
  BY DEF Init, RepositoryInit, CompletedMeansDone
<1>2. Inv /\ CompletedMeansDone /\ [Next]_repository_vars => CompletedMeansDone'
  BY CompletedStep DEF CompletedMeansDone
<1> QED BY InvHolds, <1>1, <1>2, PTL DEF Spec

\* Each step leaves a run's verification and revision alone, clears the
\* verification, or is the success of one of its verifiers.
LEMMA VerificationStep ==
  ASSUME Inv, [Next]_repository_vars, NEW r \in Runs, verified_revision'[r] # 0
  PROVE  /\ current_plan_revision'[r] = current_plan_revision[r]
         /\ \/ verified_revision'[r] = verified_revision[r]
            \/ /\ verified_revision'[r] = current_plan_revision[r]
               /\ \E i \in PlanItems(r)' :
                     kind[i] = "verify" /\ work_item_statuses'[i] = "succeeded"
<1>t. AggregateTypeOK /\ TablesTypeOK
  BY DEF Inv, TypeOK
<1>1. ASSUME NEW q \in Runs, ControllerStep(q)
      PROVE  /\ current_plan_revision'[r] = current_plan_revision[r]
             /\ verified_revision'[r] = verified_revision[r]
  <2>1. CASE q # r
    BY <1>1, <2>1, OtherRunsStay
  <2>2. CASE q = r
    <3>1. ~commit_plan(r) /\ ~replan_from_evidence(r)
      BY <1>t DEF commit_plan, replan_from_evidence, apply_patch, CommitPlan, AggregateTypeOK
    <3> QED BY <1>1, <2>2, <3>1 DEF ControllerStep, create_run, reconcile, decide_approval,
                                   change_status, cancel
  <2> QED BY <2>1, <2>2
<1>2. ASSUME NEW j \in Items, NEW n \in AttemptIds, AttemptStep(j, n)
      PROVE  /\ current_plan_revision'[r] = current_plan_revision[r]
             /\ \/ verified_revision'[r] = verified_revision[r]
                \/ /\ verified_revision'[r] = current_plan_revision[r]
                   /\ \E i \in PlanItems(r)' :
                         kind[i] = "verify" /\ work_item_statuses'[i] = "succeeded"
  <2>1. ASSUME NEW succeeded \in BOOLEAN, NEW retryable \in BOOLEAN,
               complete_attempt(j, n, succeeded, retryable),
               verified_revision'[r] # verified_revision[r]
        PROVE  /\ verified_revision'[r] = current_plan_revision[r]
               /\ j \in PlanItems(r)' /\ kind[j] = "verify"
               /\ work_item_statuses'[j] = "succeeded"
    <3>1. RunOf[j] = r /\ verified_revision'[r] = VerifiedAfter(j, succeeded)
      BY <2>1, <1>t, ItemAssumption DEF complete_attempt, AggregateTypeOK
    <3>2. succeeded /\ kind[j] = "verify" /\ verified_revision'[r] = current_plan_revision[r]
      BY <3>1, <2>1 DEF VerifiedAfter
    <3>3. work_item_statuses'[j] = "succeeded"
      BY <3>2, <2>1, <1>t DEF complete_attempt, CompletionTarget, AggregateTypeOK
    <3> QED BY <3>1, <3>2, <3>3 DEF PlanItems
  <2>2. CASE \E succeeded, retryable \in BOOLEAN : complete_attempt(j, n, succeeded, retryable)
    <3>1. current_plan_revision' = current_plan_revision
      BY <2>2 DEF complete_attempt
    <3> QED BY <2>1, <2>2, <3>1
  <2>3. CASE \/ start_attempt(j, n)
             \/ renew_lease(j, n)
             \/ \E seq \in 1..MaxSequence : commit_checkpoint(j, n, seq)
             \/ complete_cancelled_attempt(j, n)
    BY <2>3 DEF start_attempt, renew_lease, commit_checkpoint, complete_cancelled_attempt,
                aggregate_vars
  <2> QED BY <1>2, <2>2, <2>3 DEF AttemptStep
<1>3. ASSUME LeaseStep
      PROVE  /\ current_plan_revision'[r] = current_plan_revision[r]
             /\ verified_revision'[r] = verified_revision[r]
  <2>1. ASSUME NEW S \in SUBSET Items, release_expired_leases(S)
        PROVE  /\ current_plan_revision'[r] = current_plan_revision[r]
               /\ verified_revision'[r] = verified_revision[r]
    BY <2>1 DEF release_expired_leases
  <2>2. CASE \/ \E w \in Workers, j \in Items : claim_work(w, j)
             \/ \E j \in Items : ExpireLease(j)
    BY <2>2 DEF claim_work, ExpireLease, aggregate_vars
  <2> QED BY <1>3, <2>1, <2>2 DEF LeaseStep
<1>4. CASE UNCHANGED repository_vars
  BY <1>4 DEF repository_vars, aggregate_vars
<1> QED BY <1>1, <1>2, <1>3, <1>4 DEF Next

\* verified_revision never outlives the plan, or the success, it was set for.
THEOREM VerificationIsCurrent == Spec => []VerifiedRevisionIsCurrent
<1>1. Init => VerifiedRevisionIsCurrent
  BY DEF Init, RepositoryInit, VerifiedRevisionIsCurrent
<1>2. ASSUME Inv, VerifiedRevisionIsCurrent, [Next]_repository_vars, NEW r \in Runs,
             verified_revision'[r] # 0
      PROVE  /\ verified_revision'[r] = current_plan_revision'[r]
             /\ \E i \in PlanItems(r)' :
                   kind[i] = "verify" /\ work_item_statuses'[i] = "succeeded"
  <2>1. CASE verified_revision'[r] = verified_revision[r]
    <3>1. PICK i \in PlanItems(r) : kind[i] = "verify" /\ work_item_statuses[i] = "succeeded"
      BY <1>2, <2>1 DEF VerifiedRevisionIsCurrent
    <3> QED BY <1>2, <2>1, <3>1, SucceededStays, VerificationStep DEF VerifiedRevisionIsCurrent
  <2>2. CASE verified_revision'[r] # verified_revision[r]
    BY <1>2, <2>2, VerificationStep
  <2> QED BY <2>1, <2>2
<1>3. Inv /\ VerifiedRevisionIsCurrent /\ [Next]_repository_vars => VerifiedRevisionIsCurrent'
  BY <1>2 DEF VerifiedRevisionIsCurrent
<1> QED BY InvHolds, <1>1, <1>3, PTL DEF Spec

-----------------------------------------------------------------------------
(* Idle runs.                                                              *)

LEMMA LeastNatural ==
  ASSUME NEW S \in SUBSET Nat, S # {}
  PROVE  Min(S) \in S /\ \A x \in S : Min(S) =< x
<1> DEFINE R == {ss \in Nat \X Nat : ss[1] < ss[2]}
<1>1. IsWellFoundedOn(R, Nat)
  BY NatLessThanWellFounded DEF OpToRel
<1>2. \A m, n \in Nat : n < m => <<n, m>> \in R
  OBVIOUS
<1> HIDE DEF R
<1>3. PICK m \in S : \A x \in S : <<x, m>> \notin R
  BY <1>1, WFMin
<1>4. m \in Nat /\ \A x \in S : x \in Nat /\ ~ (x < m)
  BY <1>2, <1>3
<1>5. \E x \in S : \A y \in S : x =< y
  BY <1>4
<1> QED
  BY <1>5 DEF Min

\* A plan in force was validated, an item is blocked only by a dependency of the
\* plan that ended badly, and cancelled only with its run.
PlansAreWellFormed == \A r \in Runs : current_plan_revision[r] # 0 => WellFormed(PlanItems(r))

BlockedHasCause ==
    \A i \in Items :
       work_item_statuses[i] = "blocked" =>
          \E d \in dependencies[i] : work_item_statuses[d] \in Failing

CancelledWithRun ==
    \A i \in Items : work_item_statuses[i] = "cancelled" => run_status[RunOf[i]] = "cancelled"

CauseInv == PlansAreWellFormed /\ BlockedHasCause /\ CancelledWithRun

Commits(r) == commit_plan(r) \/ replan_from_evidence(r)

\* What a step may do to one item.
ItemMoves(i) ==
    \/ work_item_statuses'[i] = work_item_statuses[i]
    \/ /\ work_item_statuses[i] \in ActiveStatus \cup {"pending", "ready"}
       /\ work_item_statuses'[i] \in ActiveStatus \cup {"ready", "succeeded", "failed"}
    \/ /\ i \in Blocked(RunOf[i])
       /\ work_item_statuses'[i] = "blocked"
    \/ /\ cancel(RunOf[i])
       /\ work_item_statuses[i] # "absent"
       /\ work_item_statuses'[i] = "cancelled"
    \/ Commits(RunOf[i])

LEMMA ControllerMoves ==
  ASSUME Inv, NEW r \in Runs, ControllerStep(r), NEW i \in Items
  PROVE  ItemMoves(i)
<1>t. AggregateTypeOK
  BY DEF Inv, TypeOK
<1>1. CASE reconcile(r)
  <2>1. work_item_statuses'[i] = DecidedItem(r, i, work_item_statuses[i])
    BY <1>1 DEF reconcile
  <2>2. CASE i \in NewlyBlocked(r)
    <3>1. i \in Blocked(r) /\ RunOf[i] = r
      BY <2>2 DEF NewlyBlocked, Blocked, blocked_work_item_ids, PlanItems
    <3> QED
      BY <2>1, <2>2, <3>1 DEF DecidedItem, ItemMoves
  <2>3. CASE i \notin NewlyBlocked(r) /\ i \in NewlyReady(r)
    <3>1. work_item_statuses[i] \in {"pending", "ready"}
      BY <2>3 DEF NewlyReady, Schedulable, Ready, ready_work_item_ids
    <3> QED
      BY <2>1, <2>3, <3>1 DEF DecidedItem, ItemMoves
  <2>4. CASE i \notin NewlyBlocked(r) /\ i \notin NewlyReady(r)
    BY <2>1, <2>4 DEF DecidedItem, ItemMoves
  <2> QED
    BY <2>2, <2>3, <2>4
<1>2. ASSUME NEW plan, CommitPlan(r, plan), RunOf[i] # r
      PROVE  work_item_statuses'[i] = work_item_statuses[i]
  BY <1>2 DEF CommitPlan
<1>3. CASE Commits(r)
  BY <1>2, <1>3 DEF Commits, commit_plan, replan_from_evidence, apply_patch, ItemMoves
<1>4. CASE cancel(r)
  <2>1. work_item_statuses'[i] = IF i \in CancelledItems(r) THEN "cancelled"
                                                            ELSE work_item_statuses[i]
    BY <1>4 DEF cancel
  <2>2. i \in CancelledItems(r) => RunOf[i] = r /\ work_item_statuses[i] # "absent"
    BY DEF CancelledItems, PlanItems
  <2> QED
    BY <1>4, <2>1, <2>2 DEF ItemMoves
<1>5. CASE \/ create_run(r)
           \/ \E j \in Items, approved \in BOOLEAN : decide_approval(r, j, approved)
           \/ \E status \in {"paused", "running"} : change_status(r, status)
  BY <1>5 DEF create_run, decide_approval, change_status, ItemMoves
<1> QED
  BY <1>1, <1>3, <1>4, <1>5 DEF ControllerStep, Commits

LEMMA WorkerMovesItem ==
  ASSUME Inv, NEW i \in Items,
         (\E j \in Items, n \in AttemptIds : AttemptStep(j, n)) \/ LeaseStep
  PROVE  \/ work_item_statuses'[i] = work_item_statuses[i]
         \/ /\ work_item_statuses[i] \in ActiveStatus \cup {"pending", "ready"}
            /\ work_item_statuses'[i] \in ActiveStatus \cup {"ready", "succeeded", "failed"}
<1> DEFINE Moves == \/ work_item_statuses'[i] = work_item_statuses[i]
                    \/ /\ work_item_statuses[i] \in ActiveStatus \cup {"pending", "ready"}
                       /\ work_item_statuses'[i] \in ActiveStatus \cup {"ready", "succeeded", "failed"}
<1>t. AggregateTypeOK
  BY DEF Inv, TypeOK
<1>a. ASSUME NEW j \in Items, item_status[j] \in ActiveStatus \cup {"ready"},
             WorkMay(work_item_statuses[j], "leased") \/ work_item_statuses[j] # "absent"
      PROVE  work_item_statuses[j] \in ActiveStatus \cup {"ready"}
  BY <1>a DEF Inv, ProjectionAgrees, WorkMay
<1>1. ASSUME NEW j \in Items, NEW n \in AttemptIds, AttemptStep(j, n) PROVE Moves
  <2>1. CASE start_attempt(j, n)
    <3>1. item_status[j] \in ActiveStatus
      BY <2>1, OpenAttempt DEF start_attempt, CanStart, ActiveStatus
    <3>2. work_item_statuses[j] # "absent"
      BY <2>1 DEF start_attempt, CanStart, WorkMay
    <3>3. work_item_statuses' = [work_item_statuses EXCEPT ![j] = StartedStatus(j)]
          /\ StartedStatus(j) \in ActiveStatus
      BY <2>1 DEF start_attempt, StartedStatus, ActiveStatus
    <3> QED
      BY <1>a, <1>t, <3>1, <3>2, <3>3 DEF AggregateTypeOK
  <2>2. ASSUME NEW succeeded \in BOOLEAN, NEW retryable \in BOOLEAN,
               complete_attempt(j, n, succeeded, retryable)
        PROVE  Moves
    <3>1. item_status[j] \in ActiveStatus
      BY <2>2 DEF complete_attempt, CanComplete, Inv, Fencing, CurrentAttemptIsOpen, AttemptIds
    <3>2. work_item_statuses[j] # "absent"
      BY <2>2 DEF complete_attempt, CanComplete, WorkMay
    <3>3. work_item_statuses' =
             [work_item_statuses EXCEPT ![j] = CompletionTarget(j, succeeded, retryable)]
          /\ CompletionTarget(j, succeeded, retryable) \in {"ready", "succeeded", "failed"}
      BY <2>2 DEF complete_attempt, CompletionTarget, RetryStatus
    <3> QED
      BY <1>a, <1>t, <3>1, <3>2, <3>3 DEF AggregateTypeOK
  <2>3. CASE \/ renew_lease(j, n)
             \/ \E seq \in 1..MaxSequence : commit_checkpoint(j, n, seq)
             \/ complete_cancelled_attempt(j, n)
    BY <2>3 DEF renew_lease, commit_checkpoint, complete_cancelled_attempt, aggregate_vars
  <2> QED
    BY <1>1, <2>1, <2>2, <2>3 DEF AttemptStep
<1>2. ASSUME NEW w \in Workers, NEW j \in Items, claim_work(w, j) PROVE Moves
  <2>1. item_status[j] = "ready" /\ work_item_statuses[j] # "absent"
        /\ work_item_statuses' = [work_item_statuses EXCEPT ![j] = "leased"]
    BY <1>2 DEF claim_work, CanClaim, WorkMay
  <2> QED
    BY <1>a, <1>t, <2>1 DEF AggregateTypeOK, ActiveStatus
<1>3. CASE \E j \in Items : ExpireLease(j)
  BY <1>3 DEF ExpireLease, aggregate_vars
<1>4. ASSUME NEW S \in SUBSET Items, release_expired_leases(S) PROVE Moves
  <2>1. work_item_statuses'[i] = IF i \in S THEN RetryStatus(i, TRUE) ELSE work_item_statuses[i]
    BY <1>4 DEF release_expired_leases
  <2>2. i \in S => item_status[i] \in ActiveStatus /\ work_item_statuses[i] # "absent"
    BY <1>4 DEF release_expired_leases, CanRelease, ExpiredItems, ActiveItems, WorkMay
  <2> QED
    BY <1>a, <2>1, <2>2 DEF RetryStatus
<1> QED
  BY <1>1, <1>2, <1>3, <1>4 DEF LeaseStep

LEMMA ItemStep ==
  ASSUME Inv, [Next]_repository_vars, NEW i \in Items
  PROVE  ItemMoves(i)
<1>1. CASE UNCHANGED repository_vars
  BY <1>1 DEF repository_vars, aggregate_vars, ItemMoves
<1>2. CASE Next
  BY <1>2, ControllerMoves, WorkerMovesItem DEF Next, ItemMoves
<1> QED
  BY <1>1, <1>2

\* A run keeps its plan unless a plan of it is committed.
LEMMA PlanKept ==
  ASSUME Inv, [Next]_repository_vars, NEW r \in Runs, ~Commits(r)
  PROVE  /\ current_plan_revision'[r] = current_plan_revision[r]
         /\ PlanItems(r)' = PlanItems(r)
<1>t. AggregateTypeOK
  BY DEF Inv, TypeOK
<1>1. current_plan_revision'[r] = current_plan_revision[r]
  <2>1. ASSUME NEW q \in Runs, ControllerStep(q)
        PROVE  current_plan_revision'[r] = current_plan_revision[r]
    <3>1. CASE q # r
      BY <2>1, <3>1, OtherRunsStay
    <3>2. CASE q = r
      BY <2>1, <3>2 DEF ControllerStep, Commits, create_run, reconcile, decide_approval,
                        change_status, cancel
    <3> QED
      BY <3>1, <3>2
  <2>2. CASE UNCHANGED repository_vars
    BY <2>2 DEF repository_vars, aggregate_vars
  <2> QED
    BY <2>1, <2>2, WorkersLeaveRuns DEF Next
<1>2. ASSUME NEW i \in Items, RunOf[i] = r
      PROVE  work_item_statuses'[i] = "absent" <=> work_item_statuses[i] = "absent"
  <2>1. i \in Blocked(RunOf[i]) => work_item_statuses[i] # "absent"
    BY DEF Blocked, blocked_work_item_ids, PlanItems
  <2>2. "absent" \notin ActiveStatus
    BY DEF ActiveStatus
  <2> QED
    BY <1>2, <2>1, <2>2, ItemStep DEF ItemMoves
<1> QED
  BY <1>1, <1>2 DEF PlanItems

\* What is committed is a plan that was validated.
LEMMA PlanCommitted ==
  ASSUME Inv, NEW r \in Runs, Commits(r)
  PROVE  /\ WellFormed(PlanItems(r)')
         /\ \A i \in Items : RunOf[i] = r =>
               work_item_statuses'[i] \in {work_item_statuses[i], "pending", "absent"}
<1>1. ASSUME NEW plan, CommitPlan(r, plan), \A i \in plan : i \in Items /\ RunOf[i] = r
      PROVE  /\ WellFormed(PlanItems(r)')
             /\ \A i \in Items : RunOf[i] = r =>
                   work_item_statuses'[i] \in {work_item_statuses[i], "pending", "absent"}
  <2>1. \A i \in Items : RunOf[i] = r =>
           work_item_statuses'[i] = IF i \notin plan THEN "absent"
                                    ELSE IF i \in PlanItems(r) THEN work_item_statuses[i]
                                    ELSE "pending"
    BY <1>1 DEF CommitPlan
  <2>2. PlanItems(r)' = plan
    BY <1>1, <2>1 DEF PlanItems
  <2>3. WellFormed(plan)
    BY <1>1 DEF CommitPlan, validate
  <2> QED
    BY <2>1, <2>2, <2>3
<1>2. CASE commit_plan(r)
  BY <1>1, <1>2 DEF commit_plan, AddedItems
<1>3. CASE replan_from_evidence(r)
  BY <1>1, <1>3 DEF replan_from_evidence, apply_patch, PatchedPlan, AddedItems, PlanItems
<1> QED
  BY <1>2, <1>3 DEF Commits

\* A replan that keeps a blocked item keeps what blocked it.
LEMMA CauseIsKept ==
  ASSUME Inv, NEW r \in Runs, Commits(r), NEW i \in Items, RunOf[i] = r,
         work_item_statuses[i] = "blocked", work_item_statuses'[i] = "blocked",
         NEW d \in dependencies[i], work_item_statuses[d] \in Failing
  PROVE  work_item_statuses'[d] = work_item_statuses[d]
<1>t. AggregateTypeOK
  BY DEF Inv, TypeOK
<1>d. d \in Items /\ RunOf[d] = r /\ d \in PlanItems(r) /\ i \in PlanItems(r)
  BY DependencyAssumption DEF PlanItems, Failing
<1>1. ~commit_plan(r)
  BY <1>t, ItemAssumption, RecoveryRequiredAssumption
     DEF Inv, LaterItemsAreNew, commit_plan, AggregateTypeOK
<1>2. PICK seen \in SUBSET FailedOrBlocked(r) :
         apply_patch(r, ObsoleteItems(PlanItems(r), work_item_statuses, seen))
  BY <1>1 DEF Commits, replan_from_evidence
<1> DEFINE obsolete == ObsoleteItems(PlanItems(r), work_item_statuses, seen)
           add == AddedItems(r, current_plan_revision[r] + 1)
           plan == PatchedPlan(PlanItems(r), obsolete, add)
<1>3. \A j \in Items : RunOf[j] = r =>
         work_item_statuses'[j] = IF j \notin plan THEN "absent"
                                  ELSE IF j \in PlanItems(r) THEN work_item_statuses[j]
                                  ELSE "pending"
  BY <1>2 DEF apply_patch, CommitPlan
<1>4. i \in plan
  BY <1>3
<1>5. i \notin add
  <2>1. current_plan_revision[r] \in Nat
    BY <1>t, RecoveryRequiredAssumption DEF AggregateTypeOK
  <2> QED
    BY <2>1 DEF AddedItems, Inv, LaterItemsAreNew
<1>6. i \notin obsolete
  BY <1>4, <1>5 DEF PatchedPlan
<1>7. d \notin obsolete
  <2> SUFFICES ASSUME d \in obsolete PROVE i \in obsolete
    BY <1>6
  <2>1. \A S \in SUBSET PlanItems(r) :
           ObsoleteClosed(S, PlanItems(r), work_item_statuses, seen) => d \in S
    BY DEF ObsoleteItems
  <2>2. \A S \in SUBSET PlanItems(r) :
           ObsoleteClosed(S, PlanItems(r), work_item_statuses, seen) => i \in S
    BY <1>d, <2>1 DEF ObsoleteClosed
  <2> QED
    BY <1>d, <2>2 DEF ObsoleteItems
<1>8. d \in plan
  BY <1>d, <1>7 DEF PatchedPlan
<1> QED
  BY <1>3, <1>8, <1>d

LEMMA CauseStep ==
  ASSUME Inv, CauseInv, [Next]_repository_vars
  PROVE  CauseInv'
<1> USE DEF CauseInv
<1>t. AggregateTypeOK
  BY DEF Inv, TypeOK
<1>r. \A i \in Items : RunOf[i] \in Runs
  BY ItemAssumption
<1>1. PlansAreWellFormed'
  <2> SUFFICES ASSUME NEW r \in Runs, current_plan_revision'[r] # 0
               PROVE  WellFormed(PlanItems(r)')
    BY DEF PlansAreWellFormed, WellFormed, Acyclic
  <2>1. CASE Commits(r)
    BY <2>1, PlanCommitted
  <2>2. CASE ~Commits(r)
    BY <2>2, PlanKept DEF PlansAreWellFormed
  <2> QED
    BY <2>1, <2>2
<1>2. BlockedHasCause'
  <2> SUFFICES ASSUME NEW i \in Items, work_item_statuses'[i] = "blocked"
               PROVE  \E d \in dependencies[i] : work_item_statuses'[d] \in Failing
    BY DEF BlockedHasCause
  <2>1. \E d \in dependencies[i] : work_item_statuses[d] \in Failing
    <3>1. CASE work_item_statuses[i] = "blocked"
      BY <3>1 DEF BlockedHasCause
    <3>2. CASE work_item_statuses[i] # "blocked"
      <4>1. Commits(RunOf[i]) => FALSE
        BY <1>r, <3>2, PlanCommitted
      <4>2. i \in Blocked(RunOf[i])
        BY <3>2, <4>1, ItemStep DEF ItemMoves, ActiveStatus
      <4> QED
        BY <4>2 DEF Blocked, blocked_work_item_ids
    <3> QED
      BY <3>1, <3>2
  <2>2. PICK d \in dependencies[i] : work_item_statuses[d] \in Failing
    BY <2>1
  <2>3. d \in Items /\ RunOf[d] = RunOf[i]
    BY DependencyAssumption
  <2>4. CASE Commits(RunOf[i])
    <3>1. work_item_statuses[i] = "blocked"
      BY <1>r, <2>4, PlanCommitted
    <3> QED
      BY <1>r, <2>2, <2>4, <3>1, CauseIsKept
  <2>5. CASE ~Commits(RunOf[i])
    <3>1. work_item_statuses'[d] \in Failing
      BY <2>2, <2>3, <2>5, ItemStep DEF ItemMoves, Failing, ActiveStatus, Blocked,
         blocked_work_item_ids
    <3> QED
      BY <3>1
  <2> QED
    BY <2>4, <2>5
<1>3. CancelledWithRun'
  <2> SUFFICES ASSUME NEW i \in Items, work_item_statuses'[i] = "cancelled"
               PROVE  run_status'[RunOf[i]] = "cancelled"
    BY DEF CancelledWithRun
  <2>1. CASE work_item_statuses[i] = "cancelled"
    <3>1. run_status[RunOf[i]] = "cancelled"
      BY <2>1 DEF CancelledWithRun
    <3> QED
      BY <1>r, <3>1, TerminalStep DEF TERMINAL_RUN_STATUSES
  <2>2. CASE work_item_statuses[i] # "cancelled"
    <3>1. Commits(RunOf[i]) => FALSE
      BY <1>r, <2>2, PlanCommitted
    <3>2. cancel(RunOf[i])
      BY <2>2, <3>1, ItemStep DEF ItemMoves, ActiveStatus
    <3> QED
      BY <1>r, <1>t, <3>2 DEF cancel, AggregateTypeOK
  <2> QED
    BY <2>1, <2>2
<1> QED
  BY <1>1, <1>2, <1>3

\* Among unsettled items one has only settled dependencies, and the same among
\* blocked ones, because the plan has no cycle.
LEMMA IdleRun ==
  ASSUME Inv, CauseInv, VerifiedRevisionIsCurrent, NEW r \in Runs, Quiescent(r),
         \A i \in PlanItems(r) : work_item_statuses[i] # "ready",
         \A i \in PlanItems(r) : approvals[i] # "pending",
         Decision(r) # "replan"
  PROVE  VerificationIsLost(r)
<1> DEFINE plan == PlanItems(r)
           Unsettled == {i \in plan : work_item_statuses[i] = "pending"}
           Stuck == {i \in plan : work_item_statuses[i] = "blocked"}
<1>t. AggregateTypeOK
  BY DEF Inv, TypeOK
<1>q. /\ run_status[r] = "running" /\ current_plan_revision[r] # 0 /\ Deciding(r)
      /\ \A i \in plan : work_item_statuses[i] \notin ActiveStatus
  BY DEF Quiescent, Deciding
<1>a. /\ DecidedStatus(r) = "running"
      /\ NewlyBlocked(r) = {} /\ NewlyReady(r) = {}
  BY <1>q DEF Quiescent, AppendsEvents
<1>w. WellFormed(plan)
  BY <1>q DEF CauseInv, PlansAreWellFormed
<1>1. ~ PlanComplete(r)
  <2>1. PlanComplete(r) => Decision(r) = "complete"
    BY <1>q DEF Decision
  <2> QED
    BY <1>a, <2>1 DEF DecidedStatus
<1>2. Unapproved(r) = {}
  <2> SUFFICES ASSUME Unapproved(r) # {} PROVE FALSE
    OBVIOUS
  <2>1. Unapproved(r) \in SUBSET Nat /\ Unapproved(r) \subseteq plan
    BY ItemAssumption DEF Unapproved, Ready, ready_work_item_ids, PlanItems
  <2>2. Min(Unapproved(r)) \in plan
    BY <2>1, LeastNatural
  <2>3. Decision(r) = "wait_approval"
    BY <1>q, <1>1 DEF Decision
  <2>4. DecidedStatus(r) = "waiting_approval"
    BY <2>2, <2>3 DEF DecidedStatus
  <2> QED
    BY <1>a, <2>4
<1>3. Decision(r) = "continue"
  <2>1. Decision(r) \in {"fail", "continue"}
    BY <1>q, <1>1, <1>2 DEF Decision
  <2>2. Decision(r) = "fail" => DecidedStatus(r) = "failed"
    BY DEF DecidedStatus
  <2> QED
    BY <1>a, <2>1, <2>2
<1>4. Blocked(r) = {}
  BY <1>a, <1>3 DEF NewlyBlocked
<1>5. Ready(r) = {}
  <2> SUFFICES ASSUME NEW i \in Ready(r) PROVE FALSE
    OBVIOUS
  <2>1. i \in NewlyReady(r) \/ work_item_statuses[i] = "ready"
    BY <1>2, <1>3 DEF NewlyReady, Schedulable
  <2> QED
    BY <1>a, <2>1 DEF Ready, ready_work_item_ids
<1>6. TerminalFailures(r) = {}
  BY <1>q, <1>1, <1>2, <1>3, <1>5 DEF Decision
<1>7. \A i \in plan : i \in Items /\ RunOf[i] = r /\ dependencies[i] \subseteq plan
  BY <1>w DEF WellFormed, PlanItems
<1>8. \A i \in plan : work_item_statuses[i] \in {"pending", "blocked", "succeeded"}
  <2> SUFFICES ASSUME NEW i \in plan
               PROVE  work_item_statuses[i] \in {"pending", "blocked", "succeeded"}
    OBVIOUS
  <2>1. work_item_statuses[i] \in WorkItemStatus
    BY <1>t DEF PlanItems, AggregateTypeOK
  <2>2. work_item_statuses[i] # "failed"
    BY <1>6 DEF TerminalFailures
  <2>3. work_item_statuses[i] # "cancelled"
    BY <1>7, <1>q DEF CauseInv, CancelledWithRun
  <2> QED
    BY <1>q, <2>1, <2>2, <2>3 DEF WorkItemStatus, ActiveStatus
<1>9. Stuck = {}
  <2> SUFFICES ASSUME Stuck # {} PROVE FALSE
    OBVIOUS
  <2>1. Stuck \in (SUBSET plan) \ {{}}
    OBVIOUS
  <2>2. PICK i \in Stuck : dependencies[i] \cap Stuck = {}
    BY <1>w, <2>1 DEF WellFormed, Acyclic
  <2>3. PICK d \in dependencies[i] : work_item_statuses[d] \in Failing
    BY <1>7, <2>2 DEF CauseInv, BlockedHasCause
  <2> QED
    BY <1>7, <1>8, <2>2, <2>3 DEF Failing
<1>10. Unsettled = {}
  <2> SUFFICES ASSUME Unsettled # {} PROVE FALSE
    OBVIOUS
  <2>1. Unsettled \in (SUBSET plan) \ {{}}
    OBVIOUS
  <2>2. PICK i \in Unsettled : dependencies[i] \cap Unsettled = {}
    BY <1>w, <2>1 DEF WellFormed, Acyclic
  <2>3. \A d \in dependencies[i] : work_item_statuses[d] = "succeeded"
    BY <1>7, <1>8, <1>9, <2>2
  <2>4. i \in Ready(r)
    BY <2>2, <2>3 DEF Ready, ready_work_item_ids
  <2> QED
    BY <1>5, <2>4
<1>11. \A i \in plan : work_item_statuses[i] = "succeeded"
  BY <1>8, <1>9, <1>10
<1>12. RequiredIds(plan) # {} /\ RequiredIds(plan) \subseteq plan
  BY <1>w DEF RequiredIds, WellFormed
<1>13. require_verifier /\ verified_revision[r] # current_plan_revision[r]
  BY <1>1, <1>11, <1>12, <1>w DEF PlanComplete, plan_is_complete, WellFormed
<1> QED
  BY <1>11, <1>13 DEF VerificationIsLost, VerifiedRevisionIsCurrent

\* The control loop has no dead end but one: whatever fails, blocks, waits or is
\* replanned, a running run is left with a claimable item, a decision somebody
\* can take, or a finished plan whose verification was cleared.
THEOREM RunsDoNotStall == Spec => []IdleRunsCanGoOn
<1>1. Init => CauseInv
  BY DEF Init, RepositoryInit, CauseInv, PlansAreWellFormed, BlockedHasCause, CancelledWithRun
<1>2. Inv /\ CauseInv /\ [Next]_repository_vars => CauseInv'
  BY CauseStep
<1>3. Inv /\ CauseInv /\ VerifiedRevisionIsCurrent => IdleRunsCanGoOn
  <2> SUFFICES ASSUME Inv, CauseInv, VerifiedRevisionIsCurrent, NEW r \in Runs, Quiescent(r)
               PROVE  \/ \E i \in PlanItems(r) : work_item_statuses[i] = "ready"
                      \/ \E i \in PlanItems(r) : approvals[i] = "pending"
                      \/ Decision(r) = "replan"
                      \/ VerificationIsLost(r)
    BY DEF IdleRunsCanGoOn
  <2> QED
    BY IdleRun
<1> QED
  BY InvHolds, VerificationIsCurrent, <1>1, <1>2, <1>3, PTL DEF Spec

=============================================================================
