--------------------------- MODULE ContextWindow ---------------------------
(***************************************************************************)
(* The message list of an agent and how context.py shortens it.  A message *)
(* is its role and the number of tool calls it makes; the model API wants  *)
(* every call answered by a tool message, right after the message that     *)
(* makes the calls.                                                        *)
(***************************************************************************)
EXTENDS Integers, Sequences

Message == [role : {"system", "user", "assistant", "tool"}, calls : Nat]

SystemPrompt == [role |-> "system", calls |-> 0]
UserMessage == [role |-> "user", calls |-> 0]

\* Message i answers a call of message k.
Answers(h, i, k) ==
    /\ k < i /\ i =< k + h[k].calls
    /\ h[i].role = "tool"

\* What the API requires of the list h.
WellAnswered(h) ==
    /\ \A k \in 1..Len(h) : h[k].calls > 0 => h[k].role = "assistant"
    /\ \A k \in 1..Len(h) : k + h[k].calls =< Len(h)
    /\ \A k \in 1..Len(h) : \A i \in k + 1..k + h[k].calls : h[i].role = "tool"
    /\ \A i \in 1..Len(h) : h[i].role = "tool" => \E k \in 1..Len(h) : Answers(h, i, k)

-----------------------------------------------------------------------------
\* The list may be cut before its message s + 1.
MayCut(h, s) ==
    \/ s = 0
    \/ s = Len(h)
    \/ /\ h[s + 1].role # "tool"
       /\ ~ (h[s + 1].role = "assistant" /\ h[s + 1].calls > 0)

\* The first place to cut at, going back from target_idx.
_safe_split_index(h, target_idx) ==
    LET start == IF target_idx < 0 THEN 0
                 ELSE IF target_idx > Len(h) THEN Len(h) ELSE target_idx
    IN  CHOOSE s \in 0..start : /\ MayCut(h, s)
                                /\ \A u \in s + 1..start : ~ MayCut(h, u)

\* Percentage of the messages a role keeps.
retention(role) ==
    CASE role = "evaluator" -> 50
      [] role = "builder"   -> 15
      [] OTHER              -> 25

\* The message list of an agent begins with its system prompt.  The rest is
\* cut in two, and a summary takes the place of the older part.
compact_messages(h, role) ==
    LET non_system == Tail(h)
        share == (Len(non_system) * retention(role)) \div 100
        keep_count == IF share > 4 THEN share ELSE 4
        split_idx == _safe_split_index(non_system, Len(non_system) - keep_count)
    IN  IF split_idx = 0 THEN h
        ELSE <<Head(h), UserMessage>>
               \o SubSeq(non_system, split_idx + 1, Len(non_system))

\* The handoff document is the only thing the next session starts from.
restore_from_checkpoint == <<SystemPrompt, UserMessage>>

=============================================================================
