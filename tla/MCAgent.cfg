SPECIFICATION Spec
CONSTANTS
    Roles = {"builder", "evaluator"}
    Files = {"app.py"}
    Commands = {"pytest"}
    TestCommands = {"pytest"}
    file_edit_threshold = 2
    command_repeat_threshold = 3
    max_idle_nudges = 1
    max_verification_nudges = 1
    soft_limit = 1
    hard_limit = 2
    warn_at = 0
    critical_at = 1
    task_budget = 1
    MAX_AGENT_ITERATIONS = 4
    MAX_TOOL_ERRORS = 2
    builder_budget = 1
    evaluator_budget = 2
    finalization_reserve = 1
    MaxCalls = 2
INVARIANTS
    AgentTypeOK
    ApiContract
    UnverifiedExitIsLate
    ExitGateOpens
    StalePassIsUnheard
    
CHECK_DEADLOCK FALSE
