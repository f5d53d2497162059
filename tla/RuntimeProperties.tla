------------------------- MODULE RuntimeProperties -------------------------
(***************************************************************************)
(* What the processes of the durable runtime promise together, and what    *)
(* the repository's documents say of them.  The README tells which of      *)
(* these hold and which DurableRuntime refutes.                            *)
(***************************************************************************)
EXTENDS DurableRuntime

PC == {"idle", "starting", "working", "reporting", "completing", "failing",
       "advancing", "appending", "replanning", "patching", "committing",
       "planning", "resuming", "dead"}

\* Every process is at a step of its program with values of the right type.
RuntimeTypeOK ==
    /\ session \in [Clients -> [pc : PC, run : Runs \cup {"none"}, item : Items \cup {0},
                                attempt : AttemptIds \cup {0}, obsolete : SUBSET Items,
                                base : 0..MaxRevision, tries : 0..(MaxTries - 1)]]
    /\ fresh \subseteq Clients
    /\ crashes \in 0..MaxCrashes
    /\ requests \in 0..MaxRequests

-----------------------------------------------------------------------------
(* Safety.                                                                 *)

\* The controller that the repository's proofs are about is what the processes
\* run, with their stale snapshots, refused appends, crashes and retries.
ImplementsController == Spec

\* StaleLeaseError is "raised when an old worker tries to commit with an
\* obsolete fence": the start or the result of a worker whose attempt is no
\* longer open is discarded, whatever the next attempt has done since.  An
\* accepted checkpoint leaves the session as it is: see CheckpointsAdvance.
HoldsOpenAttempt(w) ==
    /\ attempt(w) = fencing_token[item(w)]
    /\ item_status[item(w)] \in ActiveStatus

StaleResultsAreDiscarded ==
    [][\A w \in Workers :
          /\ pc(w) \in {"starting", "working", "completing", "failing"}
          /\ ~HoldsOpenAttempt(w)
          /\ session'[w] # session[w]
          => UNCHANGED <<item_status, work_item_statuses, verified_revision,
                         checkpoint_sequence, latest_checkpoints>>]_runtime_vars

\* A run that waits for an approval has one that can be decided: resume_run
\* refuses it because "pending approval must be decided".
WaitingHasApproval ==
    \A r \in Runs :
       run_status[r] = "waiting_approval" =>
          \E i \in Items : RunOf[i] = r /\ approvals[i] = "pending"

\* "High-risk external actions should remain approval-gated", and the approval
\* is bound to the plan revision: a risky item is claimed only with one.
ClaimsAreApproved ==
    [][\A i \in requires_approval :
          fencing_token'[i] # fencing_token[i] => approvals[i] = "approved"]_runtime_vars

\* "serialize integration": at most one integrate attempt of a project has an
\* unexpired lease.
IntegrationIsSerial ==
    Cardinality({i \in ActiveItems : kind[i] = "integrate" /\ lease_live[i]}) <= 1

-----------------------------------------------------------------------------
(* Liveness.                                                               *)

\* A claimed item does not stay claimed: its worker finishes it, or its lease
\* runs out and the reaper of some worker takes it back, whatever crashes (as long
\* as a worker is left or comes back).
LeasesEnd ==
    \A i \in Items : item_status[i] \in ActiveStatus ~> item_status[i] \notin ActiveStatus

\* A requested run is started even if the API process stops in between, since
\* the client may repeat the request.
QueuedRunsStart ==
    \A r \in Runs : run_status[r] = "queued" ~> run_status[r] # "queued"

\* A run that is running ends, or stops for an approval or a pause.
RunsSettle ==
    \A r \in Runs : run_status[r] = "running" ~> run_status[r] # "running"

=============================================================================
