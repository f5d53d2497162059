------------------------------- MODULE Domain -------------------------------
(***************************************************************************)
(* Statuses and transition tables of the durable workflow                  *)
(* (orchestrator/domain.py, orchestrator/durable_reducer.py).  "absent"    *)
(* stands for a row or a dictionary entry that does not exist.             *)
(*                                                                         *)
(* In this and the other modules a definition under the comment "Wrong     *)
(* form" is not part of the model.  It is what the definition after it     *)
(* would be with a plausible mistake in the code; PROJECT.json says which  *)
(* property finds the mistake.                                             *)
(***************************************************************************)

RunStatus == {"queued", "running", "paused", "waiting_approval",
              "completed", "failed", "cancelled"}

TERMINAL_RUN_STATUSES == {"completed", "failed", "cancelled"}

WorkItemStatus == {"pending", "ready", "leased", "running", "verifying",
                   "blocked", "succeeded", "failed", "cancelled"}

WorkItemKind == {"plan", "execute", "verify", "diagnose", "integrate",
                 "approval"}

\* The statuses of a work item or an attempt that a worker holds a lease on.
ActiveStatus == {"leased", "running", "verifying"}

\* An attempt row additionally knows "expired" (release_expired_leases).
AttemptStatus == ActiveStatus \cup {"succeeded", "failed", "expired", "cancelled"}

ApprovalStatus == {"pending", "approved", "rejected"}

RUN_TRANSITIONS ==
    [queued |-> {"running", "paused", "cancelled", "failed"},
     running |-> {"paused", "waiting_approval", "completed", "failed", "cancelled"},
     paused |-> {"running", "cancelled", "failed"},
     waiting_approval |-> {"running", "cancelled", "failed"}]

WORK_TRANSITIONS ==
    [pending |-> {"ready", "blocked", "cancelled"},
     ready |-> {"leased", "blocked", "cancelled"},
     leased |-> {"running", "verifying", "ready", "failed", "cancelled"},
     running |-> {"succeeded", "failed", "ready", "blocked", "cancelled"},
     verifying |-> {"succeeded", "failed", "ready", "blocked", "cancelled"},
     failed |-> {"ready", "blocked", "cancelled"},
     blocked |-> {"ready", "cancelled"}]

\* Wrong form: _transition_run without its check for terminal runs.
RunMay_FromTerminal(current, target) ==
    \/ current \in TERMINAL_RUN_STATUSES \cup {target}
    \/ /\ current \in DOMAIN RUN_TRANSITIONS
       /\ target \in RUN_TRANSITIONS[current]

\* _transition_run raises DomainError unless this holds; a transition to the
\* current status is accepted and changes nothing.
RunMay(current, target) ==
    \/ current = target
    \/ /\ current \in DOMAIN RUN_TRANSITIONS
       /\ target \in RUN_TRANSITIONS[current]

\* _transition_work likewise; an item outside the current plan has no status.
WorkMay(current, target) ==
    /\ current # "absent"
    /\ \/ current = target
       \/ /\ current \in DOMAIN WORK_TRANSITIONS
          /\ target \in WORK_TRANSITIONS[current]

=============================================================================
