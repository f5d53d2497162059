----------------------------- MODULE PlanGraph -----------------------------
(***************************************************************************)
(* The plan DAG: validation, patching and scheduling helpers of            *)
(* orchestrator/plan_graph.py and PlanDocumentV1.validate, and the patch   *)
(* EvidenceRecoveryPlanner.replan builds.                                  *)
(*                                                                         *)
(* A work item is a number; numeric order is declaration order.  A plan is *)
(* the set of its work items and a status map is a function on Items whose *)
(* value is "absent" outside the plan.  What the planner may ever put into *)
(* a plan is fixed by the constants: RunOf and RevisionOf say which run    *)
(* and which plan revision first adds the item.                            *)
(***************************************************************************)
EXTENDS Domain, FiniteSetsExt

CONSTANTS
    Runs,
    Items,                   \* every work item of every plan revision
    RunOf,                   \* the run an item belongs to
    RevisionOf,              \* the plan revision that adds the item
    kind,                    \* WorkItem.kind
    dependencies,            \* WorkItem.dependencies
    max_attempts,            \* WorkItem.budget.max_attempts
    max_seconds,             \* WorkItem.budget.max_seconds
    requires_approval,       \* the items for which _requires_approval holds
    required_work_item_ids,  \* CompletionPolicy.required_work_item_ids
    require_verifier,        \* CompletionPolicy.require_verifier
    max_total_seconds,       \* run policy; NoLimit when the policy has none
    NoLimit,
    AttemptLimit,            \* bound of WorkBudget.validate (20 in the code)
    MaxRevision              \* bound: plan revisions the model describes

ASSUME ItemAssumption ==
    /\ Items \subseteq Nat
    /\ RunOf \in [Items -> Runs]
    /\ RevisionOf \in [Items -> 1..MaxRevision]
    /\ kind \in [Items -> WorkItemKind]
    /\ requires_approval \subseteq Items
    /\ required_work_item_ids \subseteq Items
    /\ require_verifier \in BOOLEAN

\* WorkBudget.validate: 1 <= max_attempts <= 20.
ASSUME BudgetAssumption ==
    /\ AttemptLimit \in Nat
    /\ max_attempts \in [Items -> 1..AttemptLimit]
    /\ max_seconds \in [Items -> Nat \ {0}]

\* The initial plan and each recovery patch are closed under dependencies:
\* a recovery chain depends on nothing outside itself.
ASSUME DependencyAssumption ==
    /\ dependencies \in [Items -> SUBSET Items]
    /\ \A i \in Items : \A d \in dependencies[i] :
          RunOf[d] = RunOf[i] /\ RevisionOf[d] = RevisionOf[i]

\* apply_plan_patch appends every added item to required_work_item_ids.
ASSUME RecoveryRequiredAssumption ==
    /\ MaxRevision \in Nat
    /\ \A i \in Items : RevisionOf[i] > 1 => i \in required_work_item_ids

-----------------------------------------------------------------------------
Failing == {"failed", "cancelled", "blocked"}

\* Wrong form: an item is ready as soon as no dependency has failed.
ready_work_item_ids_Eager(plan, statuses) ==
    {i \in plan : /\ statuses[i] \in {"pending", "ready"}
                  /\ \A d \in dependencies[i] : statuses[d] \notin Failing}

\* ready_work_item_ids, as a set (its order is numeric order).
ready_work_item_ids(plan, statuses) ==
    {i \in plan : /\ statuses[i] \in {"pending", "ready"}
                  /\ \A d \in dependencies[i] : statuses[d] = "succeeded"}

blocked_work_item_ids(plan, statuses) ==
    {i \in plan : /\ statuses[i] \in {"pending", "ready"}
                  /\ \E d \in dependencies[i] : statuses[d] \in Failing}

\* The completion policy falls back to every item when it names none.
RequiredIds(plan) ==
    IF plan \cap required_work_item_ids = {}
      THEN plan
      ELSE plan \cap required_work_item_ids

\* Wrong form: only the verifier counts.
plan_is_complete_VerifierOnly(plan, statuses, revision, verified) ==
    require_verifier => verified = revision

plan_is_complete(plan, statuses, revision, verified) ==
    /\ RequiredIds(plan) # {}
    /\ \A i \in RequiredIds(plan) : statuses[i] = "succeeded"
    /\ require_verifier =>
          /\ \E i \in plan : kind[i] = "verify" /\ statuses[i] = "succeeded"
          /\ verified = revision

\* _assert_acyclic: no set of items each of which depends on another of it.
Acyclic(plan) ==
    ~ \E S \in (SUBSET plan) \ {{}} : \A i \in S : dependencies[i] \cap S # {}

TotalSeconds(items) == MapThenSumSet(LAMBDA i : max_seconds[i], items)

WithinBudget(items) ==
    max_total_seconds # NoLimit => TotalSeconds(items) <= max_total_seconds

\* PlanDocumentV1.validate without and with the run's policy limits.
WellFormed(plan) ==
    /\ plan # {}
    /\ \A i \in plan : dependencies[i] \subseteq plan
    /\ Acyclic(plan)
    /\ require_verifier => \E i \in plan : kind[i] = "verify"

validate(plan) == WellFormed(plan) /\ WithinBudget(plan)

\* EvidenceRecoveryPlanner.replan: starting from the failed and blocked items,
\* add every item that depends on an obsolete one and has not succeeded, until
\* nothing changes: the least set with these two closure properties.
ObsoleteClosed(S, plan, statuses, failed) ==
    /\ failed \subseteq S
    /\ \A i \in plan : /\ dependencies[i] \cap S # {}
                       /\ statuses[i] # "succeeded"
                       => i \in S

ObsoleteItems(plan, statuses, failed) ==
    {i \in plan : \A S \in SUBSET plan :
                     ObsoleteClosed(S, plan, statuses, failed) => i \in S}

\* The items the planner adds when it creates plan revision k of run r.
AddedItems(r, k) == {i \in Items : RunOf[i] = r /\ RevisionOf[i] = k}

\* apply_plan_patch: what the patched plan holds, and when it is refused.
\* Only items that have not succeeded count against the run budget here.
PatchedPlan(plan, cancel, add) == (plan \ cancel) \cup add

PatchApplies(plan, statuses, cancel, add) ==
    /\ cancel \subseteq plan
    /\ \A i \in cancel : statuses[i] # "succeeded"
    /\ add \cap (plan \ cancel) = {}
    /\ LET updated == PatchedPlan(plan, cancel, add)
       IN  /\ WellFormed(updated)
           /\ WithinBudget({i \in updated : statuses[i] # "succeeded"})

=============================================================================
