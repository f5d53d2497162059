----------------------------- MODULE AgentLoop -----------------------------
(***************************************************************************)
(* One run of an agent, agents.py: iterations of hooks, context lifecycle, *)
(* model call and tool calls.  What the loop asks of its message list is   *)
(* kept instead of the list: how many calls of the last assistant message  *)
(* are unanswered, whether another message came between a call and its     *)
(* answer, and which messages the hooks would still find in it; the list   *)
(* itself is in ContextWindow.  The lease is that of the durable worker,   *)
(* whose checkpoint callback raises once it is lost.                       *)
(***************************************************************************)
EXTENDS Middlewares

CONSTANTS
    Roles,                      \* "builder" of terminal, "evaluator" of app-builder
    MAX_AGENT_ITERATIONS,
    MAX_TOOL_ERRORS,            \* consecutive API errors before abort
    builder_budget, evaluator_budget,   \* time budgets, in ticks of the clock
    finalization_reserve,
    MaxCalls                    \* tool calls of one reply

ASSUME AgentAssumption ==
    /\ Roles \subseteq {"builder", "evaluator"}
    /\ {MAX_AGENT_ITERATIONS, MAX_TOOL_ERRORS, builder_budget, evaluator_budget,
        finalization_reserve, MaxCalls} \subseteq Nat \ {0}

VARIABLES
    role,
    lease,                      \* "none" for a run without a durable worker
    pc,
    iteration,
    clock,                      \* elapsed time
    consecutive_errors,
    consecutive_unparsed_lengths,
    conversation,
    mw,
    finalizing,                 \* finalizing_for_time
    reply,                      \* tool calls left to execute, finish_reason
    exit_reason,
    fresh,                      \* the last test passed and no direct edit followed
    unheard,                    \* an edit or test PreExitVerification did not get
    late                        \* tools executed after the lease was lost

vars == <<role, lease, pc, iteration, clock, consecutive_errors,
          consecutive_unparsed_lengths, conversation, mw, finalizing, reply, exit_reason,
          fresh, unheard, late>>

ghosts == <<fresh, unheard, late>>

-----------------------------------------------------------------------------
(* The message list.                                                       *)

InitConversation ==
    [unanswered |-> 0, interrupted |-> FALSE, worked |-> FALSE, tooled |-> FALSE,
     failures |-> 0, finalized |-> FALSE]

\* A user message is appended.
Said(c) == [c EXCEPT !.interrupted = @ \/ c.unanswered > 0]

SaidIf(c, injected) == IF injected THEN Said(c) ELSE c

\* An assistant message with n tool calls is appended.
Replied(c, n) == [Said(c) EXCEPT !.unanswered = n]

\* A tool message is appended.
Answered(c, call, failing) ==
    [c EXCEPT !.unanswered = @ - 1, !.tooled = TRUE,
              !.worked = @ \/ IsAction(call),
              !.failures = IF failing THEN UpTo(3, @ + 1) ELSE @]

\* Compaction keeps the answers of the calls it keeps (see ContextWindow) and
\* may drop any of the older messages.
Compacted(c) ==
    {[c EXCEPT !.worked = w, !.tooled = t, !.finalized = f] :
        w \in {c.worked, FALSE}, t \in {c.tooled, FALSE}, f \in {c.finalized, FALSE}}

-----------------------------------------------------------------------------
Init ==
    /\ role \in Roles
    /\ lease \in {"none", "held"}
    /\ pc = "start"
    /\ iteration = 0
    /\ clock = 0
    /\ consecutive_errors = 0
    /\ consecutive_unparsed_lengths = 0
    /\ conversation = InitConversation
    /\ mw = InitMiddlewares
    /\ finalizing = FALSE
    /\ reply = [calls |-> 0, finish |-> "none"]
    /\ exit_reason = "none"
    /\ fresh = FALSE
    /\ unheard = FALSE
    /\ late = 0

Exit(reason) == pc' = "done" /\ exit_reason' = reason

GoTo(step) == pc' = step /\ UNCHANGED exit_reason

\* Wrong form: the callback's refusal is only logged.
CheckpointRaises_Logged == FALSE

\* Every checkpoint is refused once the lease is lost, and the refusal leaves run.
CheckpointRaises == lease = "lost"

time_budget == IF role = "builder" THEN builder_budget ELSE evaluator_budget

\* Wrong form: one error more.
TooManyErrors_OneMore(errors) == errors > MAX_TOOL_ERRORS

TooManyErrors(errors) == errors >= MAX_TOOL_ERRORS

\* Wrong form: a hook's message is appended when the hook speaks.
MayInject_AtOnce == TRUE

\* A message of a hook may follow the answer to this call: it is the last one.
MayInject == reply.calls = 1

\* Time a model or tool call takes: at most one tick, to keep runs short.
TimePasses == clock' \in {clock, UpTo(time_budget, clock + 1)}

-----------------------------------------------------------------------------
(* The top of the for statement.                                           *)

_should_finalize_for_time ==
    role = "evaluator" /\ time_budget - clock \in 1..finalization_reserve

\* The for statement is exhausted, or the time budget is.
EndOfLoop ==
    /\ pc = "start"
    /\ \/ iteration = MAX_AGENT_ITERATIONS /\ Exit("max_iterations") /\ UNCHANGED iteration
       \/ /\ iteration < MAX_AGENT_ITERATIONS
          /\ clock >= time_budget
          /\ iteration' = iteration + 1
          /\ Exit("time_budget")
    /\ UNCHANGED <<role, lease, finalizing, clock, consecutive_errors, consecutive_unparsed_lengths,
                   conversation, mw, reply, ghosts>>

\* found: there are skeleton files.  Older failures leave the last ten messages.
StartIteration ==
    /\ pc = "start"
    /\ iteration < MAX_AGENT_ITERATIONS
    /\ clock < time_budget
    /\ iteration' = iteration + 1
    /\ finalizing' = _should_finalize_for_time
    /\ \E found \in BOOLEAN, remembered \in 0..conversation.failures :
          LET hooks == per_iteration(role, mw, iteration', clock, found)
              last_call == finalizing' /\ ~ conversation.finalized
              c == [conversation EXCEPT !.failures = remembered,
                                        !.finalized = @ \/ last_call]
          IN  /\ mw' = hooks.mw
              /\ conversation' = SaidIf(SaidIf(c, last_call), hooks.inject)
    /\ GoTo("context")
    /\ UNCHANGED <<role, lease, clock, consecutive_errors, consecutive_unparsed_lengths,
                   reply, ghosts>>

\* The context check: nothing, a compaction or a reset (also for anxiety).  A
\* reset and a compaction are checkpointed after the list was replaced.
ContextCheck ==
    /\ pc = "context"
    /\ \/ GoTo("call") /\ UNCHANGED conversation
       \/ /\ conversation' \in {InitConversation} \cup Compacted(conversation)
          /\ IF CheckpointRaises THEN Exit("stale_lease") ELSE GoTo("call")
    /\ UNCHANGED <<role, lease, finalizing, iteration, clock, consecutive_errors,
                   consecutive_unparsed_lengths, mw, reply, ghosts>>

-----------------------------------------------------------------------------
(* The model call.                                                         *)

\* Quota errors end the run, rate limits and errors that are about JSON are
\* not counted, other errors are.
CallFails ==
    /\ pc = "call"
    /\ TimePasses
    /\ \/ Exit("api_quota") /\ UNCHANGED <<consecutive_errors, conversation>>
       \/ GoTo("start") /\ UNCHANGED <<consecutive_errors, conversation>>
       \/ /\ GoTo("start")
          /\ conversation' = Said(conversation)
          /\ UNCHANGED consecutive_errors
       \/ /\ consecutive_errors' = consecutive_errors + 1
          /\ IF TooManyErrors(consecutive_errors') THEN Exit("api_errors") ELSE GoTo("start")
          /\ UNCHANGED conversation
    /\ UNCHANGED <<role, lease, finalizing, iteration, consecutive_unparsed_lengths, mw, reply, ghosts>>

\* The counter has been reset just before, so that no number of empty answers
\* in a row ends the run when MAX_TOOL_ERRORS > 1.
EmptyChoices ==
    /\ pc = "call"
    /\ TimePasses
    /\ consecutive_errors' = 1
    /\ IF TooManyErrors(consecutive_errors') THEN Exit("empty_choices") ELSE GoTo("start")
    /\ UNCHANGED <<role, lease, finalizing, iteration, consecutive_unparsed_lengths, conversation, mw,
                   reply, ghosts>>

\* The answer has tool calls; finish_reason need not be "tool_calls".
ReplyWithCalls ==
    /\ pc = "call"
    /\ TimePasses
    /\ \E n \in 1..MaxCalls, finish \in {"tool_calls", "stop", "length"} :
          /\ reply' = [calls |-> n, finish |-> finish]
          /\ conversation' = Replied(conversation, n)
    /\ consecutive_errors' = 0
    /\ consecutive_unparsed_lengths' = 0
    /\ GoTo("tools")
    /\ UNCHANGED <<role, lease, finalizing, iteration, mw, ghosts>>

\* The answer was cut off before a tool call.
ReplyTruncated ==
    /\ pc = "call"
    /\ TimePasses
    /\ consecutive_errors' = 0
    /\ consecutive_unparsed_lengths' = consecutive_unparsed_lengths + 1
    /\ IF consecutive_unparsed_lengths' >= 3
       THEN Exit("length_truncated") /\ conversation' = Replied(conversation, 0)
       ELSE GoTo("start") /\ conversation' = Said(Replied(conversation, 0))
    /\ UNCHANGED <<role, lease, finalizing, iteration, mw, reply, ghosts>>

\* The answer is text: a plan before any tool was used is answered with a
\* nudge, anything else is a wish to exit, which pre_exit may refuse.
ReplyWithText ==
    /\ pc = "call"
    /\ TimePasses
    /\ consecutive_errors' = 0
    /\ \/ /\ iteration =< 5 /\ ~ conversation.tooled
          /\ conversation' = Said(Replied(conversation, 0))
          /\ GoTo("start")
          /\ UNCHANGED mw
       \/ LET hook == IF role = "builder" THEN pre_exit(mw, conversation.worked)
                      ELSE [mw |-> mw, inject |-> FALSE]
          IN  /\ mw' = hook.mw
              /\ conversation' = SaidIf(Replied(conversation, 0), hook.inject)
              /\ IF hook.inject THEN GoTo("start") ELSE Exit("no_tool_calls")
    /\ UNCHANGED <<role, lease, finalizing, iteration, consecutive_unparsed_lengths, reply, ghosts>>

-----------------------------------------------------------------------------
(* Tool calls.                                                             *)

OfferedCalls == {call \in ToolCalls : call.tool \in OfferedTools(role, finalizing)}

\* The tools of one call are done when it was the last.
CallDone ==
    /\ reply' = [reply EXCEPT !.calls = @ - 1]
    /\ GoTo(IF reply.calls = 1 THEN "finish" ELSE "tools")

\* The arguments are no JSON: an answer and a checkpoint, no hooks.
BadArguments ==
    /\ pc = "tools"
    /\ \E call \in OfferedCalls : conversation' = Answered(conversation, call, TRUE)
    /\ IF CheckpointRaises THEN Exit("stale_lease") /\ UNCHANGED reply ELSE CallDone
    /\ UNCHANGED <<role, lease, finalizing, iteration, clock, consecutive_errors,
                   consecutive_unparsed_lengths, mw, ghosts>>

\* The arguments are JSON but no object: reading them raises out of run.
BrokenArguments ==
    /\ pc = "tools"
    /\ Exit("exception")
    /\ UNCHANGED <<role, lease, finalizing, iteration, clock, consecutive_errors,
                   consecutive_unparsed_lengths, conversation, mw, reply, ghosts>>

\* What a call does to the evidence, and whether PreExitVerification knows.
Fresh(call, result) ==
    IF is_verification_tool_call(call) THEN result.success
    ELSE fresh /\ ~ IsEdit(call, result)

Unheard(call, result, heard) ==
    IF is_verification_tool_call(call) \/ IsEdit(call, result) THEN ~ heard ELSE unheard

\* The answer is appended and checkpointed, and the hooks run until one speaks;
\* its message is appended after the last call only.
ExecuteTool ==
    /\ pc = "tools"
    /\ TimePasses
    /\ \E call \in OfferedCalls : \E result \in ResultsOf(call) :
          LET answered == Answered(conversation, call, result.failing)
              hook == post_tool(role, mw, call, result, answered.failures)
          IN  /\ fresh' = Fresh(call, result)
              /\ late' = IF lease = "lost" THEN late + 1 ELSE late
              /\ IF CheckpointRaises
                 THEN /\ Exit("stale_lease")
                      /\ conversation' = answered
                      /\ unheard' = Unheard(call, result, FALSE)
                      /\ UNCHANGED <<mw, reply>>
                 ELSE /\ mw' = hook.mw
                      /\ unheard' = Unheard(call, result, hook.heard)
                      /\ conversation' = SaidIf(answered, hook.inject /\ MayInject)
                      /\ CallDone
    /\ UNCHANGED <<role, lease, finalizing, iteration, consecutive_errors, consecutive_unparsed_lengths>>

\* After the tools: "stop" ends the run although the results were not read.
FinishReason ==
    /\ pc = "finish"
    /\ IF reply.finish = "stop" THEN Exit("stop") ELSE GoTo("start")
    /\ conversation' = SaidIf(conversation, reply.finish = "length")
    /\ UNCHANGED <<role, lease, finalizing, iteration, clock, consecutive_errors,
                   consecutive_unparsed_lengths, mw, reply, ghosts>>

\* The durable worker loses its lease while the agent runs.
LoseLease ==
    /\ lease = "held" /\ pc # "done"
    /\ lease' = "lost"
    /\ UNCHANGED <<role, finalizing, pc, iteration, clock, consecutive_errors,
                   consecutive_unparsed_lengths, conversation, mw, reply, exit_reason, ghosts>>

AgentStep ==
    \/ EndOfLoop \/ StartIteration \/ ContextCheck
    \/ CallFails \/ EmptyChoices \/ ReplyWithCalls \/ ReplyTruncated \/ ReplyWithText
    \/ BadArguments \/ BrokenArguments \/ ExecuteTool \/ FinishReason

Next == AgentStep \/ LoseLease

Spec == Init /\ [][Next]_vars

=============================================================================
