-------------------------- MODULE AgentProperties --------------------------
(***************************************************************************)
(* What a run of an agent guarantees to the model API, to the durable      *)
(* worker and to whoever reads its exit reason.                            *)
(***************************************************************************)
EXTENDS AgentLoop

Conversations ==
    [unanswered : 0..MaxCalls, interrupted : BOOLEAN, worked : BOOLEAN,
     tooled : BOOLEAN, failures : 0..3, finalized : BOOLEAN]

MiddlewareRecords ==
    [file_edit_counts : [Files -> 0..file_edit_threshold], file_warned : SUBSET Files,
     last_command : Commands \cup {"none"}, repeats : 0..command_repeat_threshold,
     last_guidance : Guidances \cup {"none"},
     exit_attempts : Nat, verification_required : BOOLEAN,
     verification_attempted : BOOLEAN, verification_passed : BOOLEAN,
     skeleton_checked : BOOLEAN, warned : BOOLEAN, critical : BOOLEAN,
     browser_test_count : 0..hard_limit, soft_warned : BOOLEAN]

ExitReasons ==
    {"max_iterations", "time_budget", "stale_lease", "api_quota", "api_errors",
     "empty_choices", "length_truncated", "no_tool_calls", "exception", "stop"}

CountersOK ==
    /\ role \in Roles
    /\ lease \in {"none", "held", "lost"}
    /\ pc \in {"start", "context", "call", "tools", "finish", "done"}
    /\ iteration \in 0..MAX_AGENT_ITERATIONS
    /\ clock \in 0..time_budget
    /\ consecutive_errors \in 0..MAX_TOOL_ERRORS
    /\ consecutive_unparsed_lengths \in 0..3
    /\ pc # "done" => /\ consecutive_errors < MAX_TOOL_ERRORS
                      /\ consecutive_unparsed_lengths < 3

RecordsOK ==
    /\ conversation \in Conversations
    /\ mw \in MiddlewareRecords
    /\ reply \in [calls : 0..MaxCalls, finish : {"none", "tool_calls", "stop", "length"}]

FlagsOK ==
    /\ exit_reason \in ExitReasons \cup {"none"}
    /\ finalizing \in BOOLEAN
    /\ fresh \in BOOLEAN
    /\ unheard \in BOOLEAN
    /\ late \in Nat

\* Types of the variables; among them that no sequence of failed, truncated and
\* answered calls leaves the loop of run with a full error counter.
AgentTypeOK == CountersOK /\ RecordsOK /\ FlagsOK

\* When the model is called, every tool call of the list has been answered and
\* nothing stands between a call and its answers: injected messages of hooks,
\* of truncation and of finalization are appended where the API allows them,
\* whatever part of a parallel reply was malformed.
ApiContract ==
    pc = "call" => conversation.unanswered = 0 /\ ~ conversation.interrupted

\* A builder that ends normally without a passed verification was sent back
\* by the exit gate before, as often as an idle agent is or as often as the
\* verification nudges allow: resets that make the gate forget the work do not
\* open it early.
UnverifiedExitIsLate ==
    role = "builder" /\ exit_reason = "no_tool_calls" /\ ~ mw.verification_passed
      => \/ mw.exit_attempts > max_idle_nudges
         \/ mw.exit_attempts > max_verification_nudges

\* The exit gate cannot hold an agent for ever: one more than the longer of
\* its two patience limits, however work is forgotten and verified again.
ExitGateOpens ==
    mw.exit_attempts =<
        (IF max_verification_nudges > max_idle_nudges
         THEN max_verification_nudges ELSE max_idle_nudges) + 2

\* The exit gate trusts a verification that an edit or a failed test has made
\* worthless only if it never got that call: another hook spoke first, or the
\* agent was stopped.
StalePassIsUnheard ==
    mw.verification_passed /\ ~ fresh => unheard

\* A worker that lost its lease executes at most one more tool: the next
\* checkpoint stops the agent, on every path between two tools.
StaleAgentStops == late =< 1

-----------------------------------------------------------------------------
\* PreExitVerificationMiddleware.post_tool: "Track concrete verification and
\* invalidate it after direct edits."  An exit on a passed verification would
\* then be on one that no direct edit and no failed test followed.
VerifiedExitIsFresh ==
    exit_reason = "no_tool_calls" /\ mw.verification_passed => fresh

=============================================================================
