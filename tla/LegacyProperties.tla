-------------------------- MODULE LegacyProperties --------------------------
(***************************************************************************)
(* What a run of the legacy scheduler guarantees, with any requests,       *)
(* exceptions and crashes, and what the sources say it does.               *)
(***************************************************************************)
EXTENDS LegacyScheduler

States ==
    [profile : Profiles \cup {"auto"},
     active : BOOLEAN,
     status : {"running", "completed"} \cup Stopping,
     next_action : Phases \cup {"route", "analyze", "none"},
     requires_confirmation : BOOLEAN,
     round_num : 1..max_rounds,
     attempts : 0..max_recovery_attempts,
     score : {"none", "low", "ok"},
     budget_left : BOOLEAN,
     fingerprint : {NoFingerprint} \cup 0..MaxEdits,
     progress : [verified_current : BOOLEAN, last_current : Verdicts \cup {"none"},
                 seen : 0..MaxTests, no_progress_count : 0..no_progress_limit,
                 action : AcceptanceActions \cup {"none"}]]

\* Types, and two bounds of the code that no interleaving exceeds: the rounds
\* of _schedule_acceptance_retry and the retries of on_recovery, whichever
\* older copy of the state a request writes back.
LegacyTypeOK ==
    /\ file \in States
    /\ mem \in States
    /\ agent \in States
    /\ pc \in {"none", "load", "ready", "stalled", "begun", "agent", "check", "exiting"}
    /\ artifacts \in [content : 0..MaxEdits, tests : 0..MaxTests, latest : 0..MaxTests,
                      verdict : Verdicts \cup {"none"}, tested : Verdicts \cup {"none"}]

\* A completed run was accepted on evidence about what is in the workspace:
\* the last verification of its present contents passed, and the evaluator,
\* if there is one, gave a passing score.  Lost updates, retried phases and
\* salvaged exceptions do not let old evidence count for new artifacts.
AcceptedIsVerified ==
    file.status = "completed" =>
       /\ artifacts.tested = "passed"
       /\ evaluator_enabled(file) => file.score = "ok"

\* A run that is neither finished nor waiting for a profile can be resumed: it
\* has a next action, and a run waits exactly while a confirmation is asked
\* for, whatever copies of the state the worker and the requests interleave.
UnfinishedHasNext ==
    /\ file.status \in {"running", "paused"} => file.next_action # "none"
    /\ file.status = "waiting_confirmation" <=> file.requires_confirmation
    /\ file.status \in {"completed", "error"} => file.next_action = "none"

\* The worker always comes to rest, once steps stop raising: rounds, retries,
\* budget pauses and resumed copies of older states do not keep
\* run_until_idle going for ever.
WorkerStops == <>[](pc = "none")

-----------------------------------------------------------------------------
(* What the sources say.                                                   *)

\* web/server.py starts a worker when a run is resumed.  Without a crash, once
\* every request is answered a run that can go on has a worker.
RunnableHasWorker ==
    Runnable(file) /\ crashes = 0
      /\ (\A q \in Requests : requests[q].stage \in {"new", "done"}) => pc # "none"

=============================================================================
