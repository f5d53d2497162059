------------------------------ MODULE MCAgent ------------------------------
(***************************************************************************)
(* An agent with one file and one command, a test, and the message lists   *)
(* that compaction is evaluated on.                                        *)
(***************************************************************************)
EXTENDS AgentProperties, ContextWindow

\* Lists of a system prompt and seven messages; up to two calls a message.
MCMessages ==
    {UserMessage, [role |-> "tool", calls |-> 0]}
      \cup [role : {"assistant"}, calls : 0..2]

MCHistories ==
    {<<SystemPrompt>> \o h : h \in [1..7 -> MCMessages]}

\* Whatever the role keeps, a list whose calls are all answered is compacted to
\* one whose calls are all answered.
ASSUME MCCompaction ==
    \A h \in {g \in MCHistories : WellAnswered(g)} :
        \A r \in {"builder", "evaluator", "planner"} : WellAnswered(compact_messages(h, r))

=============================================================================
