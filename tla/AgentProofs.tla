---------------------------- MODULE AgentProofs ----------------------------
(***************************************************************************)
(* The properties of an agent's run for every limit, budget, file and      *)
(* command, and what compaction does to every message list.                *)
(***************************************************************************)
EXTENDS AgentProperties, ContextWindow, WellFoundedInduction, TLAPS

-----------------------------------------------------------------------------
(* What the hooks preserve.                                                *)

\* The assumption, one constant at a time.
LEMMA Limits ==
    /\ file_edit_threshold \in Nat \ {0}
    /\ command_repeat_threshold \in Nat \ {0}
    /\ max_idle_nudges \in Nat \ {0}
    /\ max_verification_nudges \in Nat \ {0}
    /\ hard_limit \in Nat \ {0}
    /\ soft_limit \in Nat \ {0}
    /\ warn_at \in Nat
    /\ critical_at \in Nat
    /\ task_budget \in Nat
BY MiddlewareAssumption

\* Counters that stop at their limit stay within it.
LEMMA UpToBounds ==
    ASSUME NEW limit \in Nat, NEW n \in Nat PROVE UpTo(limit, n) \in 0..limit
BY DEF UpTo

\* LoopDetection keeps the record and leaves PreExitVerification's fields alone.
LEMMA LoopDetectionType ==
    ASSUME NEW m \in MiddlewareRecords, NEW call \in ToolCalls,
           NEW result \in ToolResults, NEW failures \in Nat
    PROVE  LET hook == LoopDetection(m, call, result, failures)
           IN  /\ hook.mw \in MiddlewareRecords
               /\ hook.inject \in BOOLEAN
               /\ hook.mw.verification_passed = m.verification_passed
               /\ hook.mw.verification_required = m.verification_required
               /\ hook.mw.exit_attempts = m.exit_attempts
<1> DEFINE counted == Counted(m, call)
<1>1. /\ counted \in MiddlewareRecords
      /\ counted.verification_passed = m.verification_passed
      /\ counted.verification_required = m.verification_required
      /\ counted.exit_attempts = m.exit_attempts
  <2>1. CASE call.tool = "write_file"
    <3>1. call.target \in Files
      BY <2>1 DEF ToolCalls
    <3>2. m.file_edit_counts[call.target] + 1 \in Nat
      BY <3>1, Limits DEF MiddlewareRecords
    <3>3. UpTo(file_edit_threshold, m.file_edit_counts[call.target] + 1) \in 0..file_edit_threshold
      BY <3>2, UpToBounds, Limits
    <3> QED
      BY <2>1, <3>1, <3>3 DEF Counted, MiddlewareRecords
  <2>2. CASE call.tool = "run_bash"
    <3>1. call.target \in Commands
      BY <2>2 DEF ToolCalls
    <3>2. m.repeats + 1 \in Nat
      BY Limits DEF MiddlewareRecords
    <3>3. UpTo(command_repeat_threshold, m.repeats + 1) \in 0..command_repeat_threshold
      BY <3>2, UpToBounds, Limits
    <3>4. 1 \in 0..command_repeat_threshold
      BY Limits
    <3> QED
      BY <2>2, <3>1, <3>3, <3>4 DEF Counted, MiddlewareRecords
  <2>3. CASE call.tool \notin {"write_file", "run_bash"}
    BY <2>3 DEF Counted
  <2> QED
    BY <2>1, <2>2, <2>3
<1>2. FileLoop(counted, call) => call.target \in Files
  BY DEF FileLoop, ToolCalls
<1> HIDE DEF counted
<1> QED
  BY <1>1, <1>2 DEF LoopDetection, counted, MiddlewareRecords, FileLoop, CommandLoop, ErrorLoop

\* ErrorGuidance likewise.
LEMMA ErrorGuidanceType ==
    ASSUME NEW m \in MiddlewareRecords, NEW call \in ToolCalls, NEW result \in ToolResults
    PROVE  LET hook == ErrorGuidance(m, call, result)
           IN  /\ hook.mw \in MiddlewareRecords
               /\ hook.inject \in BOOLEAN
               /\ hook.mw.verification_passed = m.verification_passed
               /\ hook.mw.verification_required = m.verification_required
               /\ hook.mw.exit_attempts = m.exit_attempts
BY ZenonT(60) DEF ErrorGuidance, MiddlewareRecords, ToolResults

\* The chain of a role: only a call that PreExitVerification got changes what
\* it holds of the last test, and no call changes the exit gate.
LEMMA PostToolEffect ==
    ASSUME NEW r, NEW m \in MiddlewareRecords, NEW call \in ToolCalls,
           NEW result \in ToolResults, NEW failures \in Nat
    PROVE  LET hook == post_tool(r, m, call, result, failures)
           IN  /\ hook.mw \in MiddlewareRecords
               /\ hook.inject \in BOOLEAN
               /\ hook.heard \in BOOLEAN
               /\ hook.mw.verification_required = m.verification_required
               /\ hook.mw.exit_attempts = m.exit_attempts
               /\ hook.mw.verification_passed =
                     IF ~ hook.heard THEN m.verification_passed
                     ELSE IF is_verification_tool_call(call) THEN result.success
                     ELSE m.verification_passed /\ ~ IsEdit(call, result)
<1>1. CASE r = "evaluator"
  <2>1. m.browser_test_count + 1 \in Nat
    BY Limits DEF MiddlewareRecords
  <2> DEFINE count == UpTo(hard_limit, m.browser_test_count + 1)
             soft == count < hard_limit /\ count >= soft_limit /\ ~ m.soft_warned
             warned == m.soft_warned \/ soft
             tested == [m EXCEPT !.browser_test_count = count, !.soft_warned = warned]
             full == count >= hard_limit \/ soft
  <2>2. count \in 0..hard_limit
    BY <2>1, UpToBounds, Limits
  <2>3. warned \in BOOLEAN /\ full \in BOOLEAN
    OBVIOUS
  <2>4. post_tool(r, m, call, result, failures) =
          IF call.tool # "browser_test" THEN [mw |-> m, inject |-> FALSE, heard |-> FALSE]
          ELSE [mw |-> tested, inject |-> full, heard |-> FALSE]
    BY <1>1 DEF post_tool, BrowserTestBudget
  <2> HIDE DEF count, warned, soft, full
  <2>5. /\ tested \in MiddlewareRecords
        /\ tested.verification_required = m.verification_required
        /\ tested.exit_attempts = m.exit_attempts
        /\ tested.verification_passed = m.verification_passed
    BY <2>2, <2>3 DEF MiddlewareRecords
  <2> HIDE DEF tested
  <2>6. CASE call.tool # "browser_test"
    BY <2>4, <2>6
  <2>7. CASE call.tool = "browser_test"
    BY <2>3, <2>4, <2>5, <2>7
  <2> QED
    BY <2>6, <2>7
<1>2. CASE r # "evaluator"
  <2> DEFINE loop == LoopDetection(m, call, result, failures)
             guidance == ErrorGuidance(loop.mw, call, result)
  <2>1. /\ loop.mw \in MiddlewareRecords
        /\ loop.inject \in BOOLEAN
        /\ loop.mw.verification_passed = m.verification_passed
        /\ loop.mw.verification_required = m.verification_required
        /\ loop.mw.exit_attempts = m.exit_attempts
    BY LoopDetectionType
  <2> HIDE DEF loop
  <2>2. /\ guidance.mw \in MiddlewareRecords
        /\ guidance.inject \in BOOLEAN
        /\ guidance.mw.verification_passed = m.verification_passed
        /\ guidance.mw.verification_required = m.verification_required
        /\ guidance.mw.exit_attempts = m.exit_attempts
    BY <2>1, ErrorGuidanceType
  <2> HIDE DEF guidance
  <2>3. /\ is_verification_tool_call(call) \in BOOLEAN
        /\ IsEdit(call, result) \in BOOLEAN
        /\ result.success \in BOOLEAN
    BY DEF is_verification_tool_call, IsEdit, ToolResults
  <2>4. LET heard == Verification(guidance.mw, call, result)
        IN  /\ heard \in MiddlewareRecords
            /\ heard.verification_required = m.verification_required
            /\ heard.exit_attempts = m.exit_attempts
            /\ heard.verification_passed =
                  IF is_verification_tool_call(call) THEN result.success
                  ELSE m.verification_passed /\ ~ IsEdit(call, result)
    BY ZenonT(60), <2>2, <2>3 DEF Verification, MiddlewareRecords
  <2>5. post_tool(r, m, call, result, failures) =
          IF loop.inject THEN [mw |-> loop.mw, inject |-> TRUE, heard |-> FALSE]
          ELSE IF guidance.inject THEN [mw |-> guidance.mw, inject |-> TRUE, heard |-> FALSE]
          ELSE [mw |-> Verification(guidance.mw, call, result), inject |-> FALSE, heard |-> TRUE]
    BY <1>2 DEF post_tool, loop, guidance
  <2> QED
    BY <2>1, <2>2, <2>4, <2>5
<1> QED
  BY <1>1, <1>2

\* The hooks at the top of an iteration.
LEMMA PerIterationEffect ==
    ASSUME NEW r, NEW m \in MiddlewareRecords, NEW n \in Nat, NEW t \in Nat, NEW b \in BOOLEAN
    PROVE  LET hooks == per_iteration(r, m, n, t, b)
           IN  /\ hooks.mw \in MiddlewareRecords
               /\ hooks.inject \in BOOLEAN
               /\ hooks.mw.verification_passed = m.verification_passed
               /\ hooks.mw.verification_required = m.verification_required
               /\ hooks.mw.exit_attempts = m.exit_attempts
<1> DEFINE skeleton == SkeletonDetection(m, n, b)
<1>1. /\ skeleton.mw \in MiddlewareRecords
      /\ skeleton.inject \in BOOLEAN
      /\ skeleton.mw.verification_passed = m.verification_passed
      /\ skeleton.mw.verification_required = m.verification_required
      /\ skeleton.mw.exit_attempts = m.exit_attempts
  BY DEF SkeletonDetection, MiddlewareRecords
<1> HIDE DEF skeleton
<1> DEFINE critical == (t >= task_budget \/ t >= critical_at) /\ ~ skeleton.mw.critical
           warned == /\ t < task_budget /\ ~ critical
                     /\ t >= warn_at /\ ~ skeleton.mw.warned
           was_critical == skeleton.mw.critical \/ critical
           was_warned == skeleton.mw.warned \/ warned
           told == [skeleton.mw EXCEPT !.critical = was_critical, !.warned = was_warned]
<1>2. was_critical \in BOOLEAN /\ was_warned \in BOOLEAN /\ (critical \/ warned) \in BOOLEAN
  OBVIOUS
<1>3. TimeBudget(skeleton.mw, t) =
        [mw |-> told, inject |-> critical \/ warned]
  BY DEF TimeBudget
<1> HIDE DEF critical, warned, was_critical, was_warned
<1>4. /\ told \in MiddlewareRecords
      /\ told.verification_passed = m.verification_passed
      /\ told.verification_required = m.verification_required
      /\ told.exit_attempts = m.exit_attempts
  BY ZenonT(60), <1>1, <1>2 DEF MiddlewareRecords
<1> DEFINE time == TimeBudget(skeleton.mw, t)
           speaks == skeleton.inject \/ time.inject
<1>5. time.mw = told /\ speaks \in BOOLEAN
  BY <1>3
<1>6. per_iteration(r, m, n, t, b) =
        IF r = "evaluator" THEN [mw |-> m, inject |-> FALSE]
        ELSE [mw |-> time.mw, inject |-> speaks]
  BY DEF per_iteration, skeleton
<1> HIDE DEF told, time, speaks
<1>7. CASE r = "evaluator"
  BY <1>6, <1>7
<1>8. CASE r # "evaluator"
  BY <1>4, <1>5, <1>6, <1>8
<1> QED
  BY <1>7, <1>8

\* The exit gate.
LEMMA PreExitEffect ==
    ASSUME NEW m \in MiddlewareRecords, NEW worked \in BOOLEAN
    PROVE  LET hook == pre_exit(m, worked)
           IN  /\ hook.mw \in MiddlewareRecords
               /\ hook.inject \in BOOLEAN
               /\ hook.mw.verification_passed = m.verification_passed
               /\ hook.inject = Refuses(m, worked)
<1> DEFINE attempts == m.exit_attempts + 1
           required == m.verification_required \/ (worked /\ ~ m.verification_passed)
           asked == [m EXCEPT !.exit_attempts = attempts, !.verification_required = required]
<1>1. attempts \in Nat
  BY DEF MiddlewareRecords
<1>2. required \in BOOLEAN
  OBVIOUS
<1>3. pre_exit(m, worked) = [mw |-> asked, inject |-> Refuses(m, worked)]
  BY DEF pre_exit, MiddlewareRecords
<1> HIDE DEF attempts, required
<1>4. /\ asked \in MiddlewareRecords
      /\ asked.verification_passed = m.verification_passed
  BY <1>1, <1>2 DEF MiddlewareRecords
<1>5. Refuses(m, worked) \in BOOLEAN
  <2>1. CASE worked
    BY <2>1 DEF Refuses
  <2>2. CASE ~ worked
    BY <2>2 DEF Refuses
  <2> QED
    BY <2>1, <2>2
<1> HIDE DEF asked
<1> QED
  BY <1>3, <1>4, <1>5

\* An agent that may exit was patient enough or passed its verification.
LEMMA PreExitOpens ==
    ASSUME NEW m \in MiddlewareRecords, NEW worked \in BOOLEAN, ~ pre_exit(m, worked).inject
    PROVE  \/ ~ worked /\ m.exit_attempts + 1 > max_idle_nudges
           \/ m.verification_passed
           \/ m.exit_attempts + 1 > max_verification_nudges
<1>1. m.exit_attempts \in Nat
  BY DEF MiddlewareRecords
<1>2. ~ Refuses(m, worked)
  <2>1. pre_exit(m, worked).inject = Refuses(m, worked)
    BY PreExitEffect
  <2> QED
    BY <2>1
<1>3. CASE worked
  BY <1>1, <1>2, <1>3, Limits DEF Refuses
<1>4. CASE ~ worked
  BY <1>1, <1>2, <1>4, Limits DEF Refuses
<1> QED
  BY <1>3, <1>4

\* The results a call can have are results.
LEMMA ResultsType ==
    ASSUME NEW call PROVE ResultsOf(call) \subseteq ToolResults
<1>1. Fine \in ToolResults
  BY DEF ToolResults, Fine
<1>2. Noisy \in ToolResults
  BY DEF ToolResults, Noisy, Guidances
<1>3. Failed \in ToolResults
  BY DEF ToolResults, Failed
<1>4. Explained \in ToolResults
  BY DEF ToolResults, Explained, Guidances
<1>5. Marked \in ToolResults
  BY DEF ToolResults, Marked
<1> QED
  BY <1>1, <1>2, <1>3, <1>4, <1>5 DEF ResultsOf

-----------------------------------------------------------------------------
(* What is done to the message list.                                       *)

\* A user message is appended.
LEMMA SaidEffect ==
    ASSUME NEW c \in Conversations, NEW b \in BOOLEAN
    PROVE  /\ Said(c) \in Conversations /\ SaidIf(c, b) \in Conversations
           /\ Said(c).unanswered = c.unanswered /\ SaidIf(c, b).unanswered = c.unanswered
           /\ c.unanswered = 0 /\ ~ c.interrupted =>
                 ~ Said(c).interrupted /\ ~ SaidIf(c, b).interrupted
<1> DEFINE interrupted == c.interrupted \/ c.unanswered > 0
<1>1. interrupted \in BOOLEAN
  OBVIOUS
<1>2. Said(c) = [c EXCEPT !.interrupted = interrupted]
  BY DEF Said
<1>3. c.unanswered = 0 /\ ~ c.interrupted => ~ interrupted
  OBVIOUS
<1> HIDE DEF interrupted
<1>4. /\ Said(c) \in Conversations
      /\ Said(c).unanswered = c.unanswered
      /\ c.unanswered = 0 /\ ~ c.interrupted => ~ Said(c).interrupted
  BY <1>1, <1>2, <1>3 DEF Conversations
<1> QED
  BY <1>4 DEF SaidIf

\* An assistant message is appended.
LEMMA RepliedEffect ==
    ASSUME NEW c \in Conversations, NEW n \in 0..MaxCalls
    PROVE  /\ Replied(c, n) \in Conversations
           /\ Replied(c, n).unanswered = n
           /\ c.unanswered = 0 /\ ~ c.interrupted => ~ Replied(c, n).interrupted
BY SaidEffect DEF Replied, Conversations

\* A tool message is appended.
LEMMA AnsweredEffect ==
    ASSUME NEW c \in Conversations, c.unanswered > 0, NEW call, NEW f \in BOOLEAN
    PROVE  /\ Answered(c, call, f) \in Conversations
           /\ Answered(c, call, f).unanswered = c.unanswered - 1
           /\ Answered(c, call, f).interrupted = c.interrupted
<1> DEFINE worked == c.worked \/ IsAction(call)
           failures == IF f THEN UpTo(3, c.failures + 1) ELSE c.failures
<1>1. worked \in BOOLEAN
  OBVIOUS
<1>2. failures \in 0..3
  BY DEF UpTo, Conversations
<1>3. c.unanswered - 1 \in 0..MaxCalls
  BY AgentAssumption DEF Conversations
<1>4. Answered(c, call, f) =
        [c EXCEPT !.unanswered = c.unanswered - 1, !.tooled = TRUE, !.worked = worked,
                  !.failures = failures]
  BY DEF Answered
<1> HIDE DEF worked, failures
<1> QED
  BY <1>1, <1>2, <1>3, <1>4 DEF Conversations

\* Compaction and reset.
LEMMA CompactedEffect ==
    ASSUME NEW c \in Conversations, NEW d \in {InitConversation} \cup Compacted(c),
           c.unanswered = 0, ~ c.interrupted
    PROVE  d \in Conversations /\ d.unanswered = 0 /\ ~ d.interrupted
<1>1. CASE d = InitConversation
  <2>1. 0 \in 0..MaxCalls
    BY AgentAssumption
  <2> QED
    BY <1>1, <2>1 DEF InitConversation, Conversations
<1>2. CASE d \in Compacted(c)
  <2>1. PICK w \in {c.worked, FALSE}, t \in {c.tooled, FALSE}, f \in {c.finalized, FALSE} :
           d = [c EXCEPT !.worked = w, !.tooled = t, !.finalized = f]
    BY <1>2 DEF Compacted
  <2>2. w \in BOOLEAN /\ t \in BOOLEAN /\ f \in BOOLEAN
    BY DEF Conversations
  <2> QED
    BY <2>1, <2>2 DEF Conversations
<1> QED
  BY <1>1, <1>2

-----------------------------------------------------------------------------
(* The invariant.  Why it is needed: ApiContract follows from the number of *)
(* unanswered calls at every other step, the bound of the exit gate from    *)
(* what a refusal leaves behind, StaleAgentStops from the fact that only a  *)
(* step that ends the run executes a tool without a lease.                  *)

GateLimit ==
    IF max_verification_nudges > max_idle_nudges THEN max_verification_nudges
    ELSE max_idle_nudges

CallsAreAnswered ==
    /\ pc = "tools" => /\ reply.calls > 0
                       /\ conversation.unanswered = reply.calls
    /\ pc \in {"start", "context", "call", "finish"} => conversation.unanswered = 0
    /\ pc # "done" => ~ conversation.interrupted

RunGoesOn == pc # "done" => exit_reason = "none" /\ late = 0

GateRefused ==
    pc # "done" =>
      IF mw.verification_required THEN mw.exit_attempts =< GateLimit + 1
      ELSE mw.exit_attempts =< max_idle_nudges

AgentInv ==
    /\ AgentTypeOK
    /\ CallsAreAnswered
    /\ RunGoesOn
    /\ StaleAgentStops
    /\ GateRefused
    /\ ExitGateOpens
    /\ UnverifiedExitIsLate
    /\ StalePassIsUnheard

\* AgentAssumption, one constant at a time.
LEMMA LoopLimits ==
    /\ MAX_AGENT_ITERATIONS \in Nat \ {0}
    /\ MAX_TOOL_ERRORS \in Nat \ {0}
    /\ builder_budget \in Nat \ {0}
    /\ evaluator_budget \in Nat \ {0}
    /\ finalization_reserve \in Nat \ {0}
    /\ MaxCalls \in Nat \ {0}
    /\ time_budget \in Nat \ {0}
BY AgentAssumption DEF time_budget

\* The invariant holds at first.
LEMMA InitInv == Init => AgentInv
<1> SUFFICES ASSUME Init PROVE AgentInv
  OBVIOUS
<1>1. conversation \in Conversations /\ conversation.unanswered = 0 /\ ~ conversation.interrupted
  BY LoopLimits DEF Init, InitConversation, Conversations
<1>2. /\ mw \in MiddlewareRecords
      /\ mw.exit_attempts = 0 /\ ~ mw.verification_required /\ ~ mw.verification_passed
  <2>1. [f \in Files |-> 0] \in [Files -> 0..file_edit_threshold]
    BY Limits
  <2> QED
    BY <2>1, Limits DEF Init, InitMiddlewares, MiddlewareRecords
<1>3. reply \in [calls : 0..MaxCalls, finish : {"none", "tool_calls", "stop", "length"}]
  BY LoopLimits DEF Init
<1>4. AgentTypeOK
  <2>1. CountersOK
    BY LoopLimits DEF Init, CountersOK
  <2>2. RecordsOK
    BY <1>1, <1>2, <1>3 DEF RecordsOK
  <2>3. FlagsOK
    BY DEF Init, FlagsOK
  <2> QED
    BY <2>1, <2>2, <2>3 DEF AgentTypeOK
<1>5. CallsAreAnswered /\ RunGoesOn
  BY <1>1 DEF Init, CallsAreAnswered, RunGoesOn
<1>6. StaleAgentStops /\ StalePassIsUnheard /\ UnverifiedExitIsLate
  BY <1>2 DEF Init, StaleAgentStops, StalePassIsUnheard, UnverifiedExitIsLate
<1>7. GateRefused /\ ExitGateOpens
  BY <1>2, Limits DEF GateRefused, ExitGateOpens
<1> QED
  BY <1>4, <1>5, <1>6, <1>7 DEF AgentInv

\* Time stays within the budget.
LEMMA ClockStays ==
    ASSUME CountersOK, TimePasses PROVE clock' \in 0..time_budget
BY UpToBounds, LoopLimits DEF TimePasses, CountersOK

\* Steps that leave the exit gate alone and do not end the run normally.
LEMMA GateStays ==
    ASSUME AgentInv, pc # "done", exit_reason' # "no_tool_calls",
           mw'.exit_attempts = mw.exit_attempts,
           mw'.verification_required = mw.verification_required
    PROVE  GateRefused' /\ ExitGateOpens' /\ UnverifiedExitIsLate'
<1>1. mw.exit_attempts =< GateLimit + 1
  BY Limits DEF AgentInv, AgentTypeOK, RecordsOK, MiddlewareRecords, GateRefused, GateLimit
<1> QED
  BY <1>1 DEF AgentInv, GateRefused, ExitGateOpens, UnverifiedExitIsLate

\* Every step of the agent and the loss of the lease keep the invariant.
LEMMA NextInv == AgentInv /\ [Next]_vars => AgentInv'
<1> SUFFICES ASSUME AgentInv, [Next]_vars PROVE AgentInv'
  OBVIOUS
<1> USE DEF AgentInv
<1>0. /\ CountersOK /\ RecordsOK /\ FlagsOK
      /\ conversation \in Conversations
      /\ conversation.unanswered \in 0..MaxCalls
      /\ mw \in MiddlewareRecords
      /\ reply \in [calls : 0..MaxCalls, finish : {"none", "tool_calls", "stop", "length"}]
      /\ mw.verification_passed \in BOOLEAN
  BY DEF AgentTypeOK, RecordsOK, Conversations, MiddlewareRecords

<1>1. CASE EndOfLoop
  <2>20. CountersOK'
    BY <1>0, <1>1, LoopLimits DEF EndOfLoop, CountersOK, Exit, GoTo, time_budget
  <2>21. RecordsOK'
    BY <1>0, <1>1 DEF EndOfLoop, RecordsOK
  <2>22. FlagsOK'
    BY <1>0, <1>1 DEF EndOfLoop, FlagsOK, ExitReasons, Exit, GoTo, ghosts
  <2>23. CallsAreAnswered' /\ RunGoesOn' /\ StaleAgentStops'
    BY <1>0, <1>1 DEF EndOfLoop, CallsAreAnswered, RunGoesOn, StaleAgentStops, Exit, GoTo, ghosts
  <2>24. GateRefused' /\ ExitGateOpens' /\ UnverifiedExitIsLate'
    BY <1>0, <1>1, GateStays DEF EndOfLoop, Exit, GoTo, RunGoesOn
  <2>25. StalePassIsUnheard'
    BY <1>0, <1>1 DEF EndOfLoop, StalePassIsUnheard, ghosts
  <2> QED
    BY <2>20, <2>21, <2>22, <2>23, <2>24, <2>25 DEF AgentTypeOK
<1>2. CASE StartIteration
  <2>1. PICK found \in BOOLEAN, remembered \in 0..conversation.failures :
          LET hooks == per_iteration(role, mw, iteration', clock, found)
              last_call == finalizing' /\ ~ conversation.finalized
              c == [conversation EXCEPT !.failures = remembered,
                                        !.finalized = @ \/ last_call]
          IN  /\ mw' = hooks.mw
              /\ conversation' = SaidIf(SaidIf(c, last_call), hooks.inject)
    BY <1>2 DEF StartIteration
  <2> DEFINE hooks == per_iteration(role, mw, iteration', clock, found)
             last_call == finalizing' /\ ~ conversation.finalized
             c == [conversation EXCEPT !.failures = remembered,
                                       !.finalized = @ \/ last_call]
  <2>2. iteration' \in Nat /\ clock \in Nat
    BY <1>0, <1>2, LoopLimits DEF StartIteration, CountersOK
  <2>3. /\ mw' \in MiddlewareRecords
        /\ hooks.inject \in BOOLEAN
        /\ mw'.verification_passed = mw.verification_passed
        /\ mw'.verification_required = mw.verification_required
        /\ mw'.exit_attempts = mw.exit_attempts
    BY <1>0, <2>1, <2>2, PerIterationEffect
  <2>4. last_call \in BOOLEAN /\ (conversation.finalized \/ last_call) \in BOOLEAN
    OBVIOUS
  <2>5. /\ c \in Conversations
        /\ c.unanswered = 0 /\ ~ c.interrupted
    <3>1. conversation.unanswered = 0 /\ ~ conversation.interrupted
      BY <1>2 DEF StartIteration, CallsAreAnswered
    <3> DEFINE finalized == conversation.finalized \/ last_call
    <3>2. finalized \in BOOLEAN /\ remembered \in 0..3
      BY <1>0 DEF Conversations
    <3>3. c = [conversation EXCEPT !.failures = remembered, !.finalized = finalized]
      OBVIOUS
    <3> HIDE DEF last_call, finalized, c
    <3> QED
      BY <1>0, <3>1, <3>2, <3>3 DEF Conversations
  <2> HIDE DEF c, last_call
  <2>6. /\ SaidIf(c, last_call) \in Conversations
        /\ SaidIf(c, last_call).unanswered = 0 /\ ~ SaidIf(c, last_call).interrupted
    BY <2>4, <2>5, SaidEffect
  <2>7. conversation' = SaidIf(SaidIf(c, last_call), hooks.inject)
    BY <2>1 DEF c, last_call
  <2>8. /\ conversation' \in Conversations
        /\ conversation'.unanswered = 0 /\ ~ conversation'.interrupted
    BY <2>3, <2>6, <2>7, SaidEffect
  <2>20. CountersOK'
    BY <1>0, <1>2, LoopLimits DEF StartIteration, CountersOK, Exit, GoTo, time_budget
  <2>21. RecordsOK'
    BY <1>0, <1>2, <2>3, <2>8 DEF StartIteration, RecordsOK
  <2>22. FlagsOK'
    BY <1>0, <1>2 DEF StartIteration, FlagsOK, _should_finalize_for_time, GoTo, ghosts
  <2>23. CallsAreAnswered' /\ RunGoesOn' /\ StaleAgentStops'
    BY <1>0, <1>2, <2>8 DEF StartIteration, CallsAreAnswered, RunGoesOn, StaleAgentStops, GoTo, ghosts
  <2>24. GateRefused' /\ ExitGateOpens' /\ UnverifiedExitIsLate'
    BY <1>0, <1>2, <2>3, GateStays DEF StartIteration, GoTo, RunGoesOn
  <2>25. StalePassIsUnheard'
    BY <1>0, <1>2, <2>3 DEF StartIteration, StalePassIsUnheard, ghosts
  <2> QED
    BY <2>20, <2>21, <2>22, <2>23, <2>24, <2>25 DEF AgentTypeOK
<1>3. CASE ContextCheck
  <2>1. /\ conversation' \in Conversations
        /\ conversation'.unanswered = 0 /\ ~ conversation'.interrupted
    BY <1>0, <1>3, CompactedEffect DEF ContextCheck, CallsAreAnswered
  <2>20. CountersOK'
    BY <1>0, <1>3, LoopLimits DEF ContextCheck, CountersOK, Exit, GoTo, time_budget
  <2>21. RecordsOK'
    BY <1>0, <1>3, <2>1 DEF ContextCheck, RecordsOK
  <2>22. FlagsOK'
    BY <1>0, <1>3 DEF ContextCheck, FlagsOK, ExitReasons, Exit, GoTo, ghosts
  <2>23. CallsAreAnswered' /\ RunGoesOn' /\ StaleAgentStops'
    BY <1>0, <1>3, <2>1 DEF ContextCheck, CallsAreAnswered, RunGoesOn, StaleAgentStops, Exit, GoTo, ghosts
  <2>24. GateRefused' /\ ExitGateOpens' /\ UnverifiedExitIsLate'
    BY <1>0, <1>3, GateStays DEF ContextCheck, Exit, GoTo, RunGoesOn
  <2>25. StalePassIsUnheard'
    BY <1>0, <1>3 DEF ContextCheck, StalePassIsUnheard, ghosts
  <2> QED
    BY <2>20, <2>21, <2>22, <2>23, <2>24, <2>25 DEF AgentTypeOK
<1>4. CASE CallFails
  <2>1. /\ conversation' \in Conversations
        /\ conversation'.unanswered = 0 /\ ~ conversation'.interrupted
    BY <1>0, <1>4, SaidEffect DEF CallFails, CallsAreAnswered
  <2>20. CountersOK'
    BY <1>0, <1>4, LoopLimits, ClockStays DEF CallFails, CountersOK, Exit, GoTo, time_budget, TooManyErrors
  <2>21. RecordsOK'
    BY <1>0, <1>4, <2>1 DEF CallFails, RecordsOK, TooManyErrors
  <2>22. FlagsOK'
    BY <1>0, <1>4 DEF CallFails, FlagsOK, ExitReasons, Exit, GoTo, ghosts
  <2>23. CallsAreAnswered' /\ RunGoesOn' /\ StaleAgentStops'
    BY <1>0, <1>4, <2>1 DEF CallFails, CallsAreAnswered, RunGoesOn, StaleAgentStops, Exit, GoTo, ghosts, TooManyErrors
  <2>24. GateRefused' /\ ExitGateOpens' /\ UnverifiedExitIsLate'
    BY <1>0, <1>4, GateStays DEF CallFails, Exit, GoTo, RunGoesOn
  <2>25. StalePassIsUnheard'
    BY <1>0, <1>4 DEF CallFails, StalePassIsUnheard, ghosts
  <2> QED
    BY <2>20, <2>21, <2>22, <2>23, <2>24, <2>25 DEF AgentTypeOK
<1>5. CASE EmptyChoices
  <2>20. CountersOK'
    BY <1>0, <1>5, LoopLimits, ClockStays DEF EmptyChoices, CountersOK, Exit, GoTo, time_budget, TooManyErrors
  <2>21. RecordsOK'
    BY <1>0, <1>5 DEF EmptyChoices, RecordsOK, TooManyErrors
  <2>22. FlagsOK'
    BY <1>0, <1>5 DEF EmptyChoices, FlagsOK, ExitReasons, Exit, GoTo, ghosts
  <2>23. CallsAreAnswered' /\ RunGoesOn' /\ StaleAgentStops'
    BY <1>0, <1>5 DEF EmptyChoices, CallsAreAnswered, RunGoesOn, StaleAgentStops, Exit, GoTo, ghosts, TooManyErrors
  <2>24. GateRefused' /\ ExitGateOpens' /\ UnverifiedExitIsLate'
    BY <1>0, <1>5, GateStays DEF EmptyChoices, Exit, GoTo, RunGoesOn
  <2>25. StalePassIsUnheard'
    BY <1>0, <1>5 DEF EmptyChoices, StalePassIsUnheard, ghosts
  <2> QED
    BY <2>20, <2>21, <2>22, <2>23, <2>24, <2>25 DEF AgentTypeOK
<1>6. CASE ReplyWithCalls
  <2>1. PICK n \in 1..MaxCalls, finish \in {"tool_calls", "stop", "length"} :
          /\ reply' = [calls |-> n, finish |-> finish]
          /\ conversation' = Replied(conversation, n)
    BY <1>6 DEF ReplyWithCalls
  <2>2. /\ conversation' \in Conversations
        /\ conversation'.unanswered = n /\ ~ conversation'.interrupted
    BY SMTT(30), <1>0, <1>6, <2>1, RepliedEffect DEF ReplyWithCalls, CallsAreAnswered
  <2>20. CountersOK'
    BY <1>0, <1>6, LoopLimits, ClockStays DEF ReplyWithCalls, CountersOK, Exit, GoTo, time_budget
  <2>21. RecordsOK'
    BY <1>0, <1>6, <2>1, <2>2 DEF ReplyWithCalls, RecordsOK
  <2>22. FlagsOK'
    BY <1>0, <1>6 DEF ReplyWithCalls, FlagsOK, ExitReasons, Exit, GoTo, ghosts
  <2>23. CallsAreAnswered' /\ RunGoesOn' /\ StaleAgentStops'
    BY <1>0, <1>6, <2>1, <2>2 DEF ReplyWithCalls, CallsAreAnswered, RunGoesOn, StaleAgentStops, GoTo, ghosts
  <2>24. GateRefused' /\ ExitGateOpens' /\ UnverifiedExitIsLate'
    BY <1>0, <1>6, GateStays DEF ReplyWithCalls, Exit, GoTo, RunGoesOn
  <2>25. StalePassIsUnheard'
    BY <1>0, <1>6 DEF ReplyWithCalls, StalePassIsUnheard, ghosts
  <2> QED
    BY <2>20, <2>21, <2>22, <2>23, <2>24, <2>25 DEF AgentTypeOK
<1>7. CASE ReplyTruncated
  <2>1. /\ Replied(conversation, 0) \in Conversations
        /\ Replied(conversation, 0).unanswered = 0
        /\ ~ Replied(conversation, 0).interrupted
    BY <1>0, <1>7, LoopLimits, RepliedEffect DEF ReplyTruncated, CallsAreAnswered
  <2>2. /\ conversation' \in Conversations
        /\ conversation'.unanswered = 0 /\ ~ conversation'.interrupted
    BY <1>7, <2>1, SaidEffect DEF ReplyTruncated
  <2>20. CountersOK'
    BY <1>0, <1>7, LoopLimits, ClockStays DEF ReplyTruncated, CountersOK, Exit, GoTo, time_budget
  <2>21. RecordsOK'
    BY <1>0, <1>7, <2>2 DEF ReplyTruncated, RecordsOK
  <2>22. FlagsOK'
    BY <1>0, <1>7 DEF ReplyTruncated, FlagsOK, ExitReasons, Exit, GoTo, ghosts
  <2>23. CallsAreAnswered' /\ RunGoesOn' /\ StaleAgentStops'
    BY <1>0, <1>7, <2>2 DEF ReplyTruncated, CallsAreAnswered, RunGoesOn, StaleAgentStops, Exit, GoTo, ghosts
  <2>24. GateRefused' /\ ExitGateOpens' /\ UnverifiedExitIsLate'
    BY <1>0, <1>7, GateStays DEF ReplyTruncated, Exit, GoTo, RunGoesOn
  <2>25. StalePassIsUnheard'
    BY <1>0, <1>7 DEF ReplyTruncated, StalePassIsUnheard, ghosts
  <2> QED
    BY <2>20, <2>21, <2>22, <2>23, <2>24, <2>25 DEF AgentTypeOK
<1>8. CASE ReplyWithText
  <2>1. /\ Replied(conversation, 0) \in Conversations
        /\ Replied(conversation, 0).unanswered = 0
        /\ ~ Replied(conversation, 0).interrupted
    BY <1>0, <1>8, LoopLimits, RepliedEffect DEF ReplyWithText, CallsAreAnswered
  <2> DEFINE hook == IF role = "builder" THEN pre_exit(mw, conversation.worked)
                     ELSE [mw |-> mw, inject |-> FALSE]
  <2>2. /\ hook.mw \in MiddlewareRecords
        /\ hook.inject \in BOOLEAN
        /\ hook.mw.verification_passed = mw.verification_passed
    BY <1>0, PreExitEffect DEF Conversations
  <2>3. \/ /\ conversation' = Said(Replied(conversation, 0))
           /\ GoTo("start")
           /\ mw' = mw
        \/ /\ mw' = hook.mw
           /\ conversation' = SaidIf(Replied(conversation, 0), hook.inject)
           /\ IF hook.inject THEN GoTo("start") ELSE Exit("no_tool_calls")
    BY <1>8 DEF ReplyWithText
  <2>4. /\ conversation' \in Conversations
        /\ conversation'.unanswered = 0 /\ ~ conversation'.interrupted
        /\ mw' \in MiddlewareRecords
        /\ mw'.verification_passed = mw.verification_passed
    <3> HIDE DEF hook
    <3> QED
      BY <1>0, <2>1, <2>2, <2>3, SaidEffect
  <2>5. pc' \in {"start", "done"}
    BY <2>3 DEF Exit, GoTo
  <2>20. CountersOK'
    <3>1. clock' \in 0..time_budget
      BY <1>0, <1>8, ClockStays DEF ReplyWithText
    <3> QED
      BY <1>0, <1>8, <2>5, <3>1, LoopLimits DEF ReplyWithText, CountersOK, time_budget
  <2>21. RecordsOK'
    BY <1>0, <1>8, <2>4 DEF ReplyWithText, RecordsOK
  <2>22. FlagsOK'
    BY <1>0, <1>8, <2>3 DEF ReplyWithText, FlagsOK, ExitReasons, Exit, GoTo, ghosts
  <2>23. CallsAreAnswered' /\ RunGoesOn' /\ StaleAgentStops'
    BY <1>0, <1>8, <2>3, <2>4 DEF ReplyWithText, CallsAreAnswered, RunGoesOn, StaleAgentStops, Exit, GoTo, ghosts
  <2>24. GateRefused' /\ ExitGateOpens' /\ UnverifiedExitIsLate'
    <3>1. CASE mw' = mw /\ GoTo("start")
      BY <1>0, <1>8, <3>1, GateStays DEF ReplyWithText, GoTo, RunGoesOn
    <3>2. CASE mw' = hook.mw /\ (IF hook.inject THEN GoTo("start") ELSE Exit("no_tool_calls"))
      <4>1. CASE role = "builder"
        <5>1. hook = pre_exit(mw, conversation.worked)
          BY <4>1
        <5>2. mw.exit_attempts \in Nat /\ conversation.worked \in BOOLEAN
          BY <1>0 DEF MiddlewareRecords, Conversations
        <5>3. /\ mw'.exit_attempts = mw.exit_attempts + 1
              /\ mw'.verification_required =
                    (mw.verification_required \/ (conversation.worked /\ ~ mw.verification_passed))
          BY <1>0, <3>2, <5>1 DEF pre_exit, MiddlewareRecords
        <5>4. /\ mw.exit_attempts =< GateLimit + 1
              /\ ~ mw.verification_required => mw.exit_attempts =< max_idle_nudges
          BY <1>8, <5>2, Limits DEF ReplyWithText, GateRefused, GateLimit
        <5>5. CASE hook.inject
          <6>1. \/ ~ conversation.worked /\ mw.exit_attempts + 1 =< max_idle_nudges
                \/ /\ conversation.worked /\ ~ mw.verification_passed
                   /\ mw.verification_required => mw.exit_attempts < max_verification_nudges
            BY <1>0, <5>1, <5>2, <5>5, PreExitEffect DEF Refuses
          <6>2. pc' = "start" /\ exit_reason' = "none"
            BY <1>8, <3>2, <5>5 DEF ReplyWithText, GoTo, RunGoesOn
          <6>3. mw.exit_attempts + 1 =< GateLimit + 1
            BY <5>2, <5>4, <6>1, Limits DEF GateLimit
          <6>4. ~ mw'.verification_required => mw.exit_attempts + 1 =< max_idle_nudges
            BY <5>3, <6>1
          <6> QED
            BY <5>2, <5>3, <6>2, <6>3, <6>4, Limits
               DEF GateRefused, ExitGateOpens, UnverifiedExitIsLate, GateLimit
        <5>6. CASE ~ hook.inject
          <6>1. \/ ~ conversation.worked /\ mw.exit_attempts + 1 > max_idle_nudges
                \/ mw.verification_passed
                \/ mw.exit_attempts + 1 > max_verification_nudges
            BY <1>0, <5>1, <5>2, <5>6, PreExitOpens
          <6>2. pc' = "done"
            BY <3>2, <5>6 DEF Exit
          <6> QED
            BY <2>4, <5>2, <5>3, <5>4, <6>1, <6>2, Limits
               DEF GateRefused, ExitGateOpens, UnverifiedExitIsLate, GateLimit
        <5> QED
          BY <5>5, <5>6
      <4>2. CASE role # "builder"
        <5>1. mw' = mw /\ pc' = "done" /\ role' = role
          BY <1>8, <3>2, <4>2 DEF ReplyWithText, Exit
        <5> QED
          BY <4>2, <5>1 DEF GateRefused, ExitGateOpens, UnverifiedExitIsLate
      <4> QED
        BY <4>1, <4>2
    <3> QED
      BY <2>3, <3>1, <3>2
  <2>25. StalePassIsUnheard'
    BY <1>0, <1>8, <2>4 DEF ReplyWithText, StalePassIsUnheard, ghosts
  <2> QED
    BY <2>20, <2>21, <2>22, <2>23, <2>24, <2>25 DEF AgentTypeOK
<1>9. CASE BadArguments
  <2>1. PICK call : conversation' = Answered(conversation, call, TRUE)
    BY <1>9 DEF BadArguments
  <2>2. /\ conversation' \in Conversations
        /\ conversation'.unanswered = reply.calls - 1 /\ ~ conversation'.interrupted
    BY <1>0, <1>9, <2>1, AnsweredEffect DEF BadArguments, CallsAreAnswered
  <2>3. reply.calls \in 1..MaxCalls
    BY <1>0, <1>9, LoopLimits DEF BadArguments, CallsAreAnswered
  <2>4. LET fewer == [reply EXCEPT !.calls = @ - 1]
        IN  /\ fewer \in [calls : 0..MaxCalls, finish : {"none", "tool_calls", "stop", "length"}]
            /\ fewer.calls = reply.calls - 1
    BY <1>0, <2>3, LoopLimits
  <2>5. \/ pc' = "done" /\ exit_reason' = "stale_lease" /\ reply' = reply
        \/ /\ reply' = [reply EXCEPT !.calls = @ - 1]
           /\ exit_reason' = exit_reason
           /\ pc' = IF reply.calls = 1 THEN "finish" ELSE "tools"
    BY <1>9 DEF BadArguments, CallDone, Exit, GoTo
  <2>20. CountersOK'
    BY <1>0, <1>9, LoopLimits DEF BadArguments, CountersOK, Exit, GoTo, time_budget, CallDone
  <2>21. RecordsOK'
    BY <1>0, <1>9, <2>2, <2>4, <2>5 DEF BadArguments, RecordsOK
  <2>22. FlagsOK'
    BY <1>0, <1>9 DEF BadArguments, FlagsOK, ExitReasons, Exit, GoTo, CallDone, ghosts
  <2>23. CallsAreAnswered' /\ RunGoesOn' /\ StaleAgentStops'
    <3>1. pc = "tools" /\ late' = late /\ late = 0 /\ exit_reason = "none"
      BY <1>9 DEF BadArguments, RunGoesOn, ghosts
    <3>2. CASE pc' = "done"
      BY <3>1, <3>2 DEF CallsAreAnswered, RunGoesOn, StaleAgentStops
    <3>3. CASE pc' # "done"
      <4>1. /\ exit_reason' = "none" /\ reply'.calls = reply.calls - 1
            /\ pc' = IF reply.calls = 1 THEN "finish" ELSE "tools"
        BY <2>4, <2>5, <3>1, <3>3
      <4> QED
        BY <2>2, <2>3, <3>1, <4>1 DEF CallsAreAnswered, RunGoesOn, StaleAgentStops
    <3> QED
      BY <3>2, <3>3
  <2>24. GateRefused' /\ ExitGateOpens' /\ UnverifiedExitIsLate'
    BY <1>0, <1>9, GateStays DEF BadArguments, Exit, GoTo, RunGoesOn, CallDone
  <2>25. StalePassIsUnheard'
    BY <1>0, <1>9 DEF BadArguments, StalePassIsUnheard, ghosts
  <2> QED
    BY <2>20, <2>21, <2>22, <2>23, <2>24, <2>25 DEF AgentTypeOK
<1>10. CASE BrokenArguments
  <2>20. CountersOK'
    BY <1>0, <1>10, LoopLimits DEF BrokenArguments, CountersOK, Exit, GoTo, time_budget
  <2>21. RecordsOK'
    BY <1>0, <1>10 DEF BrokenArguments, RecordsOK
  <2>22. FlagsOK'
    BY <1>0, <1>10 DEF BrokenArguments, FlagsOK, ExitReasons, Exit, GoTo, ghosts
  <2>23. CallsAreAnswered' /\ RunGoesOn' /\ StaleAgentStops'
    BY <1>0, <1>10 DEF BrokenArguments, CallsAreAnswered, RunGoesOn, StaleAgentStops, Exit, GoTo, ghosts
  <2>24. GateRefused' /\ ExitGateOpens' /\ UnverifiedExitIsLate'
    BY <1>0, <1>10, GateStays DEF BrokenArguments, Exit, GoTo, RunGoesOn
  <2>25. StalePassIsUnheard'
    BY <1>0, <1>10 DEF BrokenArguments, StalePassIsUnheard, ghosts
  <2> QED
    BY <2>20, <2>21, <2>22, <2>23, <2>24, <2>25 DEF AgentTypeOK
<1>11. CASE ExecuteTool
  <2>1. PICK call \in OfferedCalls : \E result \in ResultsOf(call) :
          LET answered == Answered(conversation, call, result.failing)
              hook == post_tool(role, mw, call, result, answered.failures)
          IN  /\ fresh' = Fresh(call, result)
              /\ late' = IF lease = "lost" THEN late + 1 ELSE late
              /\ IF CheckpointRaises
                 THEN /\ Exit("stale_lease")
                      /\ conversation' = answered
                      /\ unheard' = Unheard(call, result, FALSE)
                      /\ UNCHANGED <<mw, reply>>
                 ELSE /\ mw' = hook.mw
                      /\ unheard' = Unheard(call, result, hook.heard)
                      /\ conversation' = SaidIf(answered, hook.inject /\ MayInject)
                      /\ CallDone
    BY <1>11 DEF ExecuteTool
  <2>2. PICK result \in ResultsOf(call) :
          LET answered == Answered(conversation, call, result.failing)
              hook == post_tool(role, mw, call, result, answered.failures)
          IN  /\ fresh' = Fresh(call, result)
              /\ late' = IF lease = "lost" THEN late + 1 ELSE late
              /\ IF CheckpointRaises
                 THEN /\ Exit("stale_lease")
                      /\ conversation' = answered
                      /\ unheard' = Unheard(call, result, FALSE)
                      /\ UNCHANGED <<mw, reply>>
                 ELSE /\ mw' = hook.mw
                      /\ unheard' = Unheard(call, result, hook.heard)
                      /\ conversation' = SaidIf(answered, hook.inject /\ MayInject)
                      /\ CallDone
    BY <2>1
  <2> DEFINE answered == Answered(conversation, call, result.failing)
             hook == post_tool(role, mw, call, result, answered.failures)
             tested == is_verification_tool_call(call)
             edited == IsEdit(call, result)
  <2>3. call \in ToolCalls /\ result \in ToolResults
    BY ResultsType DEF OfferedCalls
  <2>4. /\ result.failing \in BOOLEAN /\ result.success \in BOOLEAN
        /\ tested \in BOOLEAN /\ edited \in BOOLEAN
    BY <2>3 DEF ToolResults, is_verification_tool_call, IsEdit
  <2>5. reply.calls \in 1..MaxCalls /\ conversation.unanswered = reply.calls
    BY <1>0, <1>11, LoopLimits DEF ExecuteTool, CallsAreAnswered
  <2>6. /\ answered \in Conversations
        /\ answered.unanswered = reply.calls - 1 /\ ~ answered.interrupted
    BY <1>0, <1>11, <2>4, <2>5, AnsweredEffect DEF ExecuteTool, CallsAreAnswered
  <2>7. answered.failures \in Nat
    BY <2>6 DEF Conversations
  <2>8. /\ hook.mw \in MiddlewareRecords
        /\ hook.inject \in BOOLEAN
        /\ hook.heard \in BOOLEAN
        /\ hook.mw.verification_required = mw.verification_required
        /\ hook.mw.exit_attempts = mw.exit_attempts
        /\ hook.mw.verification_passed =
              IF ~ hook.heard THEN mw.verification_passed
              ELSE IF tested THEN result.success
              ELSE mw.verification_passed /\ ~ edited
    BY <1>0, <2>3, <2>7, PostToolEffect
  <2> HIDE DEF answered, hook
  <2>9. (hook.inject /\ MayInject) \in BOOLEAN
    OBVIOUS
  <2>10. /\ SaidIf(answered, hook.inject /\ MayInject) \in Conversations
         /\ SaidIf(answered, hook.inject /\ MayInject).unanswered = reply.calls - 1
    BY <2>6, <2>9, SaidEffect
  <2>11. ~ SaidIf(answered, hook.inject /\ MayInject).interrupted
    <3>1. CASE reply.calls = 1
      <4>1. answered.unanswered = 0
        BY <2>6, <3>1
      <4> QED
        BY <2>6, <2>9, <4>1, SaidEffect
    <3>2. CASE reply.calls # 1
      BY <2>6, <3>2 DEF MayInject, SaidIf
    <3> QED
      BY <3>1, <3>2
  <2>12. \/ /\ lease = "lost" /\ pc' = "done" /\ exit_reason' = "stale_lease"
            /\ conversation' = answered
            /\ unheard' = Unheard(call, result, FALSE)
            /\ mw' = mw /\ reply' = reply
         \/ /\ lease # "lost" /\ exit_reason' = exit_reason
            /\ mw' = hook.mw
            /\ unheard' = Unheard(call, result, hook.heard)
            /\ conversation' = SaidIf(answered, hook.inject /\ MayInject)
            /\ reply' = [reply EXCEPT !.calls = @ - 1]
            /\ pc' = IF reply.calls = 1 THEN "finish" ELSE "tools"
    BY <2>2 DEF answered, hook, CheckpointRaises, Exit, CallDone, GoTo
  <2>13. /\ fresh' = Fresh(call, result)
         /\ late' = IF lease = "lost" THEN late + 1 ELSE late
    BY <2>2
  <2>14. /\ conversation' \in Conversations /\ mw' \in MiddlewareRecords
         /\ mw'.verification_required = mw.verification_required
         /\ mw'.exit_attempts = mw.exit_attempts
    BY <1>0, <2>6, <2>8, <2>10, <2>12
  <2>15. LET fewer == [reply EXCEPT !.calls = @ - 1]
         IN  /\ fewer \in [calls : 0..MaxCalls, finish : {"none", "tool_calls", "stop", "length"}]
             /\ fewer.calls = reply.calls - 1
    BY <1>0, <2>5, LoopLimits
  <2>16. pc = "tools" /\ late = 0 /\ late \in Nat
    BY <1>11 DEF ExecuteTool, RunGoesOn
  <2>20. CountersOK'
    BY <1>0, <1>11, LoopLimits, ClockStays, <2>12 DEF ExecuteTool, CountersOK, time_budget
  <2>21. RecordsOK'
    BY <1>0, <2>12, <2>14, <2>15 DEF RecordsOK
  <2>22. FlagsOK'
    <3>1. Fresh(call, result) \in BOOLEAN
      BY <1>0, <2>4 DEF Fresh, FlagsOK
    <3>2. Unheard(call, result, FALSE) \in BOOLEAN /\ Unheard(call, result, hook.heard) \in BOOLEAN
      BY <1>0, <2>8 DEF Unheard, FlagsOK
    <3>3. unheard' \in BOOLEAN /\ fresh' \in BOOLEAN
      BY <2>12, <2>13, <3>1, <3>2
    <3>4. late' \in Nat
      BY <1>0, <2>13 DEF FlagsOK
    <3> QED
      BY <1>0, <1>11, <2>12, <3>3, <3>4 DEF ExecuteTool, FlagsOK, ExitReasons
  <2>23. CallsAreAnswered' /\ RunGoesOn' /\ StaleAgentStops'
    <3>1. CASE lease = "lost"
      BY <2>12, <2>13, <2>16, <3>1 DEF CallsAreAnswered, RunGoesOn, StaleAgentStops
    <3>2. CASE lease # "lost"
      <4>1. /\ late' = 0 /\ exit_reason' = "none" /\ ~ conversation'.interrupted
            /\ conversation'.unanswered = reply.calls - 1 /\ reply'.calls = reply.calls - 1
            /\ pc' = IF reply.calls = 1 THEN "finish" ELSE "tools"
        BY <2>10, <2>11, <2>12, <2>13, <2>15, <2>16, <3>2 DEF RunGoesOn
      <4> QED
        BY <2>5, <4>1 DEF CallsAreAnswered, RunGoesOn, StaleAgentStops
    <3> QED
      BY <3>1, <3>2
  <2>24. GateRefused' /\ ExitGateOpens' /\ UnverifiedExitIsLate'
    BY <1>0, <1>11, <2>12, <2>14, GateStays DEF ExecuteTool, RunGoesOn
  <2>25. StalePassIsUnheard'
    <3>1. CASE tested
      BY <1>0, <2>4, <2>8, <2>12, <2>13, <3>1 DEF StalePassIsUnheard, Fresh, Unheard
    <3>2. CASE ~ tested /\ edited
      BY <1>0, <2>4, <2>8, <2>12, <2>13, <3>2 DEF StalePassIsUnheard, Fresh, Unheard
    <3>3. CASE ~ tested /\ ~ edited
      BY <1>0, <2>4, <2>8, <2>12, <2>13, <3>3 DEF StalePassIsUnheard, Fresh, Unheard
    <3> QED
      BY <2>4, <3>1, <3>2, <3>3
  <2> QED
    BY <2>20, <2>21, <2>22, <2>23, <2>24, <2>25 DEF AgentTypeOK
<1>12. CASE FinishReason
  <2>1. /\ conversation' \in Conversations
        /\ conversation'.unanswered = 0 /\ ~ conversation'.interrupted
    BY <1>0, <1>12, SaidEffect DEF FinishReason, CallsAreAnswered
  <2>20. CountersOK'
    BY <1>0, <1>12, LoopLimits DEF FinishReason, CountersOK, Exit, GoTo, time_budget
  <2>21. RecordsOK'
    BY <1>0, <1>12, <2>1 DEF FinishReason, RecordsOK
  <2>22. FlagsOK'
    BY <1>0, <1>12 DEF FinishReason, FlagsOK, ExitReasons, Exit, GoTo, ghosts
  <2>23. CallsAreAnswered' /\ RunGoesOn' /\ StaleAgentStops'
    BY <1>0, <1>12, <2>1 DEF FinishReason, CallsAreAnswered, RunGoesOn, StaleAgentStops, Exit, GoTo, ghosts
  <2>24. GateRefused' /\ ExitGateOpens' /\ UnverifiedExitIsLate'
    BY <1>0, <1>12, GateStays DEF FinishReason, Exit, GoTo, RunGoesOn
  <2>25. StalePassIsUnheard'
    BY <1>0, <1>12 DEF FinishReason, StalePassIsUnheard, ghosts
  <2> QED
    BY <2>20, <2>21, <2>22, <2>23, <2>24, <2>25 DEF AgentTypeOK
<1>13. CASE LoseLease
  <2>20. CountersOK'
    BY <1>0, <1>13, LoopLimits DEF LoseLease, CountersOK, Exit, GoTo, time_budget
  <2>21. RecordsOK'
    BY <1>0, <1>13 DEF LoseLease, RecordsOK
  <2>22. FlagsOK'
    BY <1>0, <1>13 DEF LoseLease, FlagsOK, ExitReasons, Exit, GoTo, ghosts
  <2>23. CallsAreAnswered' /\ RunGoesOn' /\ StaleAgentStops'
    BY <1>0, <1>13 DEF LoseLease, CallsAreAnswered, RunGoesOn, StaleAgentStops, Exit, GoTo, ghosts
  <2>24. GateRefused' /\ ExitGateOpens' /\ UnverifiedExitIsLate'
    BY <1>0, <1>13, GateStays DEF LoseLease, Exit, GoTo, RunGoesOn
  <2>25. StalePassIsUnheard'
    BY <1>0, <1>13 DEF LoseLease, StalePassIsUnheard, ghosts
  <2> QED
    BY <2>20, <2>21, <2>22, <2>23, <2>24, <2>25 DEF AgentTypeOK
<1>14. CASE UNCHANGED vars
  BY <1>0, <1>14 DEF vars, CountersOK, RecordsOK, FlagsOK, AgentTypeOK, CallsAreAnswered,
     RunGoesOn, StaleAgentStops, GateRefused, ExitGateOpens, UnverifiedExitIsLate,
     StalePassIsUnheard, time_budget
<1> QED
  BY <1>1, <1>2, <1>3, <1>4, <1>5, <1>6, <1>7, <1>8, <1>9, <1>10, <1>11, <1>12, <1>13, <1>14
     DEF Next, AgentStep

\* The invariant the theorems below follow from.
THEOREM AgentInvHolds == Spec => []AgentInv
BY InitInv, NextInv, PTL DEF Spec

-----------------------------------------------------------------------------
(* The properties, for all limits, budgets, files and commands.            *)

\* Every variable keeps its type; an agent that goes on has neither
\* MAX_TOOL_ERRORS failed calls nor three truncated replies in a row.
THEOREM AgentTypeCorrect == Spec => []AgentTypeOK
<1>1. AgentInv => AgentTypeOK
  BY DEF AgentInv
<1> QED
  BY <1>1, AgentInvHolds, PTL

\* The list sent to the model has every call answered, and answered at once.
THEOREM RequestsAreWellFormed == Spec => []ApiContract
<1>1. AgentInv => ApiContract
  BY DEF AgentInv, CallsAreAnswered, ApiContract
<1> QED
  BY <1>1, AgentInvHolds, PTL

\* No sequence of work, resets and tests lets a builder leave unverified early.
THEOREM UnverifiedExitsAreLate == Spec => []UnverifiedExitIsLate
<1>1. AgentInv => UnverifiedExitIsLate
  BY DEF AgentInv
<1> QED
  BY <1>1, AgentInvHolds, PTL

\* pre_exit refuses a bounded number of times in a run.
THEOREM TheGateOpens == Spec => []ExitGateOpens
<1>1. AgentInv => ExitGateOpens
  BY DEF AgentInv
<1> QED
  BY <1>1, AgentInvHolds, PTL

\* Only a call that never reached Verification leaves a stale pass behind.
THEOREM StalePassesWereUnheard == Spec => []StalePassIsUnheard
<1>1. AgentInv => StalePassIsUnheard
  BY DEF AgentInv
<1> QED
  BY <1>1, AgentInvHolds, PTL

\* The checkpoint of the next tool stops an agent whose lease is lost.
THEOREM StaleAgentsStop == Spec => []StaleAgentStops
<1>1. AgentInv => StaleAgentStops
  BY DEF AgentInv
<1> QED
  BY <1>1, AgentInvHolds, PTL
-----------------------------------------------------------------------------
(* The message list.                                                       *)

LEMMA LeastNatural ==
  ASSUME NEW S \in SUBSET Nat, S # {}
  PROVE  \E m \in S : \A x \in S : m =< x
<1> DEFINE R == {ss \in Nat \X Nat : ss[1] < ss[2]}
<1>1. IsWellFoundedOn(R, Nat)
  BY NatLessThanWellFounded DEF OpToRel
<1>2. \A m, n \in Nat : n < m => <<n, m>> \in R
  OBVIOUS
<1> HIDE DEF R
<1>3. PICK m \in S : \A x \in S : <<x, m>> \notin R
  BY <1>1, WFMin
<1>4. m \in Nat /\ \A x \in S : x \in Nat /\ ~ (x < m)
  BY <1>2, <1>3
<1> QED
  BY <1>4

\* Going back from anywhere a place to cut is found, the beginning at last.
LEMMA SplitIndex ==
  ASSUME NEW h \in Seq(Message), NEW target_idx \in Int
  PROVE  _safe_split_index(h, target_idx) \in 0..Len(h)
         /\ MayCut(h, _safe_split_index(h, target_idx))
<1> DEFINE start == IF target_idx < 0 THEN 0
                    ELSE IF target_idx > Len(h) THEN Len(h) ELSE target_idx
           Found(s) == MayCut(h, s) /\ \A u \in s + 1..start : ~ MayCut(h, u)
           S == {n \in Nat : n =< start /\ MayCut(h, start - n)}
<1>1. start \in 0..Len(h)
  OBVIOUS
<1>2. _safe_split_index(h, target_idx) = CHOOSE s \in 0..start : Found(s)
  BY DEF _safe_split_index
<1> HIDE DEF start
<1>3. start \in S
  <2>1. start - start = 0
    BY <1>1
  <2> QED
    BY <1>1, <2>1 DEF MayCut
<1>4. PICK m \in S : \A n \in S : m =< n
  BY <1>3, LeastNatural
<1>5. Found(start - m)
  <2>1. ASSUME NEW u \in start - m + 1..start PROVE ~ MayCut(h, u)
    <3>1. start - u \in Nat /\ start - u < m /\ start - u =< start /\ start - (start - u) = u
      BY <1>1, <1>4, <2>1
    <3>2. start - u \notin S
      BY <1>4, <3>1
    <3> QED
      BY <3>1, <3>2
  <2> QED
    BY <1>4, <2>1
<1>6. start - m \in 0..start
  BY <1>1, <1>4
<1> HIDE DEF Found
<1>7. /\ _safe_split_index(h, target_idx) \in 0..start
      /\ Found(_safe_split_index(h, target_idx))
  BY <1>2, <1>5, <1>6
<1> QED
  BY <1>1, <1>7 DEF Found

\* However long the list and whatever the role keeps, compact_messages leaves no
\* tool message without its call and no call without its answers.
THEOREM CompactionKeepsAnswers ==
  ASSUME NEW h \in Seq(Message), h # <<>>, h[1].role = "system", WellAnswered(h), NEW agent_role
  PROVE  WellAnswered(compact_messages(h, agent_role))
<1> DEFINE non_system == Tail(h)
           share == (Len(non_system) * retention(agent_role)) \div 100
           keep_count == IF share > 4 THEN share ELSE 4
           s == _safe_split_index(non_system, Len(non_system) - keep_count)
           c == <<Head(h), UserMessage>> \o SubSeq(non_system, s + 1, Len(non_system))
<1>1. /\ non_system \in Seq(Message) /\ Len(h) \in Nat \ {0}
      /\ Len(non_system) = Len(h) - 1
      /\ \A i \in 1..Len(non_system) : non_system[i] = h[i + 1]
  OBVIOUS
<1>2. keep_count \in Int
  <2>1. retention(agent_role) \in {50, 15, 25}
    BY DEF retention
  <2> QED
    BY <1>1, <2>1
<1>3. compact_messages(h, agent_role) = IF s = 0 THEN h ELSE c
  BY DEF compact_messages
<1>4. Head(h) = h[1] /\ h[1] \in Message
  OBVIOUS
<1> HIDE DEF non_system, keep_count
<1>5. s \in 0..Len(h) - 1 /\ MayCut(non_system, s)
  <2>1. Len(non_system) - keep_count \in Int
    BY <1>1, <1>2
  <2>2. s \in 0..Len(non_system) /\ MayCut(non_system, s)
    BY <1>1, <2>1, SplitIndex
  <2> HIDE DEF s
  <2> QED
    BY <1>1, <2>2
<1> HIDE DEF s
<1> SUFFICES ASSUME s # 0 PROVE WellAnswered(c)
  BY <1>3
<1>6. /\ Len(c) = Len(h) + 1 - s
      /\ c[1] = h[1] /\ c[2] = UserMessage
      /\ \A i \in 3..Len(c) : c[i] = h[s + i - 1]
  <2> DEFINE kept == SubSeq(non_system, s + 1, Len(non_system))
  <2>1. /\ kept \in Seq(Message) /\ Len(kept) = Len(h) - 1 - s
        /\ \A i \in 1..Len(kept) : kept[i] = h[s + i + 1]
    BY <1>1, <1>5
  <2>2. UserMessage \in Message
    BY DEF UserMessage, Message
  <2> HIDE DEF kept
  <2>3. c = <<h[1], UserMessage>> \o kept
    BY <1>4 DEF kept
  <2> HIDE DEF c
  <2>4. <<h[1], UserMessage>> \in Seq(Message) /\ Len(<<h[1], UserMessage>>) = 2
    BY <1>4, <2>2
  <2>5. /\ Len(c) = 2 + Len(kept) /\ c[1] = h[1] /\ c[2] = UserMessage
        /\ \A i \in 3..Len(c) : c[i] = kept[i - 2]
    BY <2>1, <2>3, <2>4
  <2>6. ASSUME NEW i \in 3..Len(c) PROVE c[i] = h[s + i - 1]
    <3>1. i - 2 \in 1..Len(kept) /\ s + (i - 2) + 1 = s + i - 1
      <4>1. Len(kept) \in Nat /\ s \in Nat
        BY <1>1, <1>5, <2>1
      <4>2. Len(c) = 2 + Len(kept) /\ i \in 3..Len(c)
        BY <2>5, <2>6
      <4> QED
        BY <4>1, <4>2
    <3> QED
      BY <2>1, <2>5, <2>6, <3>1
  <2> QED
    BY <1>1, <1>5, <2>1, <2>5, <2>6
<1> HIDE DEF c
<1>7. \A k \in 1..Len(h) : h[k].calls \in Nat
  <2>1. \A k \in 1..Len(h) : h[k] \in Message
    OBVIOUS
  <2> QED
    BY <2>1 DEF Message
<1>8. c[1].role = "system" /\ c[1].calls = 0 /\ c[2].role = "user" /\ c[2].calls = 0
  <2>1. 1 \in 1..Len(h)
    BY <1>1
  <2>2. h[1].calls = 0
    BY <1>7, <2>1 DEF WellAnswered
  <2> QED
    BY <1>6, <2>2 DEF UserMessage
<1>9. ASSUME NEW k \in 3..Len(c)
      PROVE  /\ s + k - 1 \in 1..Len(h) /\ s + k - 1 >= s + 2
             /\ c[k] = h[s + k - 1] /\ c[k].calls \in Nat
  <2>1. s + k - 1 \in 1..Len(h) /\ s + k - 1 >= s + 2
    BY <1>1, <1>5, <1>6
  <2> QED
    BY <1>6, <1>7, <2>1
<1>a. Len(c) \in Nat /\ Len(c) >= 2
  BY <1>1, <1>5, <1>6
<1>b. \A k \in 1..Len(c) : k \in {1, 2} \cup 3..Len(c)
  BY <1>a
<1>c. \A k \in 1..Len(c) : c[k].calls > 0 => c[k].role = "assistant"
  BY <1>8, <1>9, <1>b DEF WellAnswered
<1>d. ASSUME NEW k \in 1..Len(c)
      PROVE  /\ k + c[k].calls =< Len(c)
             /\ \A i \in k + 1..k + c[k].calls : c[i].role = "tool"
  <2>1. CASE k \in {1, 2}
    BY <1>8, <1>a, <2>1
  <2>2. CASE k \in 3..Len(c)
    <3>1. /\ s + k - 1 \in 1..Len(h) /\ c[k] = h[s + k - 1] /\ c[k].calls \in Nat
      BY <1>9, <2>2
    <3>2. s + k - 1 + c[k].calls =< Len(h)
      BY <3>1 DEF WellAnswered
    <3>3. k + c[k].calls =< Len(c)
      BY SMTT(30), <1>1, <1>5, <1>6, <3>1, <3>2
    <3>4. ASSUME NEW i \in k + 1..k + c[k].calls PROVE c[i].role = "tool"
      <4>1. i \in 3..Len(c) /\ s + i - 1 \in s + k - 1 + 1..s + k - 1 + c[k].calls
        <5>1. i \in Int /\ k + 1 =< i /\ i =< k + c[k].calls /\ k >= 3 /\ s \in Nat
          BY <1>5, <2>2, <3>1, <3>4
        <5>2. i =< Len(c)
          BY <1>a, <2>2, <3>1, <3>3, <5>1
        <5> QED
          BY <1>a, <2>2, <3>1, <5>1, <5>2
      <4>2. h[s + i - 1].role = "tool"
        BY <3>1, <4>1 DEF WellAnswered
      <4> QED
        BY <1>6, <4>1, <4>2
    <3> QED
      BY <3>3, <3>4
  <2> QED
    BY <1>b, <2>1, <2>2
<1>e. ASSUME NEW i \in 1..Len(c), c[i].role = "tool"
      PROVE  \E k \in 1..Len(c) : Answers(c, i, k)
  <2>1. i \in 3..Len(c)
    BY <1>8, <1>b, <1>e
  <2>2. /\ s + i - 1 \in 1..Len(h) /\ s + i - 1 >= s + 2 /\ h[s + i - 1].role = "tool"
    BY <1>9, <1>e, <2>1
  <2>3. PICK k \in 1..Len(h) : k < s + i - 1 /\ s + i - 1 =< k + h[k].calls
    BY <2>2 DEF WellAnswered, Answers
  <2>4. k >= s + 2
    <3>1. s < Len(h) - 1
      BY <1>1, <1>5, <2>2
    <3>2. h[s + 2].role # "tool"
      <4>1. non_system[s + 1].role # "tool"
        BY <1>1, <1>5, <3>1 DEF MayCut
      <4>2. non_system[s + 1] = h[s + 2]
        BY <1>1, <1>5, <3>1
      <4> QED
        BY <4>1, <4>2
    <3>3. ASSUME k < s + 2 PROVE FALSE
      <4>1. s + 2 \in k + 1..k + h[k].calls
        BY SMTT(30), <1>5, <1>7, <2>2, <2>3, <3>3
      <4>2. h[s + 2].role = "tool"
        BY <4>1 DEF WellAnswered
      <4> QED
        BY <3>2, <4>2
    <3> QED
      BY <1>5, <3>3
  <2>5. k - s + 1 \in 3..Len(c) /\ s + (k - s + 1) - 1 = k
    BY <1>1, <1>5, <1>6, <2>4
  <2>6. c[k - s + 1] = h[k]
    BY <1>6, <2>5
  <2>7. k - s + 1 < i /\ i =< k - s + 1 + h[k].calls
    BY <1>5, <1>7, <2>1, <2>3
  <2>8. Answers(c, i, k - s + 1)
    BY <1>e, <2>6, <2>7 DEF Answers
  <2> QED
    BY <1>a, <2>5, <2>8
<1> QED
  BY <1>c, <1>d, <1>e DEF WellAnswered

=============================================================================
