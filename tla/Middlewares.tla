---------------------------- MODULE Middlewares ----------------------------
(***************************************************************************)
(* The hooks of middlewares.py that the terminal profile puts around its   *)
(* builder and the app-builder profile around its evaluator.  Their fields *)
(* are the components of one record, mw; a hook yields the record after    *)
(* the call and whether it returns a message to inject.  Counters stop     *)
(* where they no longer decide anything.                                   *)
(***************************************************************************)
EXTENDS Integers, FiniteSets

CONSTANTS
    Files,                      \* the files the agent edits
    Commands,                   \* its shell commands, normalised
    TestCommands,               \* those that verification.py takes for a test
    file_edit_threshold,
    command_repeat_threshold,
    max_idle_nudges,            \* for an agent that has done nothing
    max_verification_nudges,
    soft_limit, hard_limit,     \* of browser tests
    warn_at, critical_at,       \* the thresholds of the time budget, as times
    task_budget

ASSUME MiddlewareAssumption ==
    /\ TestCommands \subseteq Commands
    /\ {file_edit_threshold, command_repeat_threshold, max_idle_nudges,
        max_verification_nudges, soft_limit, hard_limit} \subseteq Nat \ {0}
    /\ {warn_at, critical_at, task_budget} \subseteq Nat
    /\ "none" \notin Commands

-----------------------------------------------------------------------------
(* Tool calls and what their results tell the hooks.                       *)

ToolCalls ==
    [tool : {"write_file", "edit_file"}, target : Files]
      \cup [tool : {"run_bash"}, target : Commands]
      \cup [tool : {"delegate_task", "browser_test", "read_file"}, target : {"none"}]

\* The tools the model is offered: terminal's builder has its own list, the
\* evaluator the common one with the browser, or the few it needs to finalize.
OfferedTools(role, finalizing) ==
    IF role = "builder" THEN {"read_file", "write_file", "edit_file", "run_bash"}
    ELSE {"read_file", "write_file"}
           \cup (IF finalizing THEN {} ELSE {"run_bash", "delegate_task", "browser_test"})

Guidances == {"command_not_found", "python_import"}

\* success: what classify_tool_result says; error: "[error]" or "command not
\* found" is part of the text; failing: one of them, or an exit code, is;
\* guidance: the error pattern that matches.
ToolResults ==
    [success : BOOLEAN, error : BOOLEAN, failing : BOOLEAN,
     guidance : Guidances \cup {"none"}]

Fine == [success |-> TRUE, error |-> FALSE, failing |-> FALSE, guidance |-> "none"]
\* Exit code 0 after a command that was not found.
Noisy == [success |-> TRUE, error |-> TRUE, failing |-> TRUE, guidance |-> "command_not_found"]
Failed == [success |-> FALSE, error |-> FALSE, failing |-> TRUE, guidance |-> "none"]
\* A non-zero exit code with a message that ErrorGuidance knows.
Explained == [success |-> FALSE, error |-> FALSE, failing |-> TRUE, guidance |-> "python_import"]
\* "[error]", for a time-out or an exception in the tool.
Marked == [success |-> FALSE, error |-> TRUE, failing |-> TRUE, guidance |-> "none"]

ResultsOf(call) ==
    IF call.tool = "run_bash" THEN {Fine, Noisy, Failed, Explained, Marked} ELSE {Fine, Marked}

is_verification_tool_call(call) ==
    \/ call.tool = "browser_test"
    \/ call.tool = "run_bash" /\ call.target \in TestCommands

IsAction(call) == call.tool \in {"run_bash", "write_file", "delegate_task"}

\* A direct edit, as PreExitVerificationMiddleware sees it.
IsEdit(call, result) ==
    call.tool \in {"write_file", "edit_file", "delegate_task"} /\ result.success

-----------------------------------------------------------------------------
InitMiddlewares ==
    [file_edit_counts |-> [f \in Files |-> 0], file_warned |-> {},
     last_command |-> "none", repeats |-> 0,
     last_guidance |-> "none",
     exit_attempts |-> 0, verification_required |-> FALSE,
     verification_attempted |-> FALSE, verification_passed |-> FALSE,
     skeleton_checked |-> FALSE, warned |-> FALSE, critical |-> FALSE,
     browser_test_count |-> 0, soft_warned |-> FALSE]

UpTo(limit, n) == IF n > limit THEN limit ELSE n

(* LoopDetectionMiddleware                                                 *)
Counted(mw, call) ==
    CASE call.tool = "write_file" ->
            [mw EXCEPT !.file_edit_counts[call.target] = UpTo(file_edit_threshold, @ + 1)]
      [] call.tool = "run_bash" ->
            [mw EXCEPT !.last_command = call.target,
                       !.repeats = IF call.target = mw.last_command
                                   THEN UpTo(command_repeat_threshold, @ + 1) ELSE 1]
      [] OTHER -> mw

FileLoop(mw, call) ==
    /\ call.tool = "write_file"
    /\ mw.file_edit_counts[call.target] >= file_edit_threshold
    /\ call.target \notin mw.file_warned

CommandLoop(mw, call) ==
    call.tool = "run_bash" /\ mw.repeats >= command_repeat_threshold

\* failures: the failing tool messages among the last ten.
ErrorLoop(call, result, failures) ==
    call.tool = "run_bash" /\ result.error /\ failures >= 3

LoopDetection(mw, call, result, failures) ==
    LET counted == Counted(mw, call)
    IN  [mw |-> IF FileLoop(counted, call)
                THEN [counted EXCEPT !.file_warned = @ \cup {call.target}] ELSE counted,
         inject |-> \/ FileLoop(counted, call)
                    \/ CommandLoop(counted, call)
                    \/ ErrorLoop(call, result, failures)]

(* ErrorGuidanceMiddleware                                                 *)
ErrorGuidance(mw, call, result) ==
    IF call.tool # "run_bash" THEN [mw |-> mw, inject |-> FALSE]
    ELSE [mw |-> [mw EXCEPT !.last_guidance = result.guidance],
          inject |-> result.guidance \notin {"none", mw.last_guidance}]

(* PreExitVerificationMiddleware                                           *)

\* Wrong form: a failed test leaves an older pass in place.
Verification_PassKept(mw, call, result) ==
    IF is_verification_tool_call(call)
    THEN [mw EXCEPT !.verification_attempted = TRUE,
                    !.verification_passed = @ \/ result.success]
    ELSE IF IsEdit(call, result)
    THEN [mw EXCEPT !.verification_attempted = FALSE, !.verification_passed = FALSE]
    ELSE mw

Verification(mw, call, result) ==
    IF is_verification_tool_call(call)
    THEN [mw EXCEPT !.verification_attempted = TRUE,
                    !.verification_passed = result.success]
    ELSE IF IsEdit(call, result)
    THEN [mw EXCEPT !.verification_attempted = FALSE, !.verification_passed = FALSE]
    ELSE mw

\* Wrong form: an attempted verification opens the gate, whatever came of it.
pre_exit_Attempted(mw, has_worked) ==
    LET exit_attempts == mw.exit_attempts + 1
    IN  [mw |-> [mw EXCEPT !.exit_attempts = exit_attempts,
                           !.verification_required =
                              @ \/ (has_worked /\ ~ mw.verification_attempted)],
         inject |-> IF ~ has_worked THEN exit_attempts =< max_idle_nudges
                    ELSE /\ ~ mw.verification_attempted
                         /\ mw.verification_required =>
                              exit_attempts - 1 < max_verification_nudges]

\* Wrong form: an idle agent is sent back every time.
pre_exit_IdleForever(mw, has_worked) ==
    [mw |-> [mw EXCEPT !.exit_attempts = @ + 1,
                       !.verification_required = @ \/ (has_worked /\ ~ mw.verification_passed)],
     inject |-> IF ~ has_worked THEN TRUE
                ELSE /\ ~ mw.verification_passed
                     /\ mw.verification_required => mw.exit_attempts < max_verification_nudges]

\* The exit is the exit_attempts-th one: once work is done, a first refusal asks
\* for a verification and later ones count against the nudges.
Refuses(mw, has_worked) ==
    IF ~ has_worked THEN mw.exit_attempts + 1 =< max_idle_nudges
    ELSE /\ ~ mw.verification_passed
         /\ mw.verification_required => mw.exit_attempts < max_verification_nudges

pre_exit(mw, has_worked) ==
    [mw |-> [mw EXCEPT !.exit_attempts = @ + 1,
                       !.verification_required = @ \/ (has_worked /\ ~ mw.verification_passed)],
     inject |-> Refuses(mw, has_worked)]

(* BrowserTestBudgetMiddleware                                             *)
BrowserTestBudget(mw, call) ==
    LET count == UpTo(hard_limit, mw.browser_test_count + 1)
        soft == count < hard_limit /\ count >= soft_limit /\ ~ mw.soft_warned
    IN  IF call.tool # "browser_test" THEN [mw |-> mw, inject |-> FALSE]
        ELSE [mw |-> [mw EXCEPT !.browser_test_count = count, !.soft_warned = @ \/ soft],
              inject |-> count >= hard_limit \/ soft]

(* TimeBudgetMiddleware and SkeletonDetectionMiddleware                    *)
TimeBudget(mw, clock) ==
    LET critical == (clock >= task_budget \/ clock >= critical_at) /\ ~ mw.critical
        warned == /\ clock < task_budget /\ ~ critical
                  /\ clock >= warn_at /\ ~ mw.warned
    IN  [mw |-> [mw EXCEPT !.critical = @ \/ critical, !.warned = @ \/ warned],
         inject |-> critical \/ warned]

SkeletonDetection(mw, iteration, found) ==
    LET now == iteration \in 2..3 /\ ~ mw.skeleton_checked
    IN  [mw |-> [mw EXCEPT !.skeleton_checked = @ \/ now], inject |-> now /\ found]

-----------------------------------------------------------------------------
(* The chains of the two roles.  heard: PreExitVerification got the call.  *)

post_tool(role, mw, call, result, failures) ==
    IF role = "evaluator"
    THEN LET browser == BrowserTestBudget(mw, call)
         IN  [mw |-> browser.mw, inject |-> browser.inject, heard |-> FALSE]
    ELSE LET loop == LoopDetection(mw, call, result, failures)
             guidance == ErrorGuidance(loop.mw, call, result)
         IN  IF loop.inject THEN [mw |-> loop.mw, inject |-> TRUE, heard |-> FALSE]
             ELSE IF guidance.inject THEN [mw |-> guidance.mw, inject |-> TRUE, heard |-> FALSE]
             ELSE [mw |-> Verification(guidance.mw, call, result),
                   inject |-> FALSE, heard |-> TRUE]

per_iteration(role, mw, iteration, clock, found) ==
    IF role = "evaluator" THEN [mw |-> mw, inject |-> FALSE]
    ELSE LET skeleton == SkeletonDetection(mw, iteration, found)
             time == TimeBudget(skeleton.mw, clock)
         IN  [mw |-> time.mw, inject |-> skeleton.inject \/ time.inject]

=============================================================================
