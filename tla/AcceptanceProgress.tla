------------------------- MODULE AcceptanceProgress -------------------------
(***************************************************************************)
(* The acceptance policy of the legacy scheduler                           *)
(* (orchestrator/acceptance_progress.py): what to do next, decided from    *)
(* verification evidence about the current artifacts.                      *)
(*                                                                         *)
(* Revisions are only ever compared with the current one, so the state     *)
(* keeps the comparisons.  Trace tokens are numbered in the order of their *)
(* verifications, so the ledger of seen tokens is its largest member.      *)
(***************************************************************************)
EXTENDS Integers

CONSTANT no_progress_limit   \* acceptance_no_progress_limit, 3 by default

ASSUME ProgressAssumption == no_progress_limit \in Nat \ {0}

Verdicts == {"passed", "failed"}

\* The scheduler never reports a running verification, whose decision would
\* be "continue".
AcceptanceActions == {"complete", "verify", "repair", "blocked"}

ProgressStates ==
    [verified_current : BOOLEAN,                 \* verified_revision = artifact_revision
     last_current : Verdicts \cup {"none"},      \* last_verification, if of this revision
     seen : Nat,
     no_progress_count : Nat,
     action : AcceptanceActions \cup {"none"}]   \* of last_decision

\* An observation: a token of 0 is no verification, ScoreToken is the token
\* of an evaluator score, which is new every time.
ScoreToken == -1

create_acceptance_progress_state ==
    [verified_current |-> FALSE, last_current |-> "none", seen |-> 0,
     no_progress_count |-> 0, action |-> "none"]

Fresh(progress, obs) == obs.token = ScoreToken \/ obs.token > progress.seen

\* Wrong form: a new revision keeps the verification of the old one.
Revised_Kept(progress, obs) == progress

\* A changed artifact starts a revision nothing has been verified of.
Revised(progress, obs) ==
    IF obs.artifacts_changed
      THEN [progress EXCEPT !.verified_current = FALSE, !.last_current = "none"]
      ELSE progress

\* A fresh verification counts for the revision it is observed with.
Credited(progress, obs) ==
    IF ~Fresh(progress, obs) THEN progress
    ELSE [progress EXCEPT
             !.verified_current = (obs.verdict = "passed"),
             !.last_current = obs.verdict,
             !.seen = IF obs.token = ScoreToken THEN @ ELSE obs.token]

\* The count is only compared with its limit, so it stops there.
Counted(progress, before, obs) ==
    LET objective == obs.artifacts_changed \/ (Fresh(before, obs) /\ obs.verdict = "passed")
    IN [progress EXCEPT !.no_progress_count =
           IF objective THEN 0 ELSE IF @ < no_progress_limit THEN @ + 1 ELSE @]

\* _choose.
Choice(progress, obs) ==
    CASE progress.verified_current -> "complete"
      [] ~progress.verified_current
            /\ (~obs.budget_left \/ progress.no_progress_count >= no_progress_limit) -> "blocked"
      [] OTHER -> IF progress.last_current = "failed" \/ obs.recent_failure
                    THEN "repair" ELSE "verify"

\* Every observation of the scheduler has an id of its own, so the replay of
\* an observation, which returns the old decision, does not happen.
decide(progress, obs) ==
    LET next == Counted(Credited(Revised(progress, obs), obs), progress, obs)
    IN [next EXCEPT !.action = Choice(next, obs)]

=============================================================================
