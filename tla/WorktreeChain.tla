--------------------------- MODULE WorktreeChain ---------------------------
(***************************************************************************)
(* The chain execute, verify, integrate of a run in one Git worktree.      *)
(* GitWorktreeAgentAdapter names worktree and branch after the item that   *)
(* executes, so all attempts of the three items meet in it: those that     *)
(* hold the lease, and those that lost it and do not know.  The agent runs *)
(* in the process of the worker (ProfileAgentAdapter).                     *)
(***************************************************************************)
EXTENDS Naturals, Sequences

CONSTANTS
    Workers,
    Files,              \* paths that a verifier must not touch
    max_attempts,
    MaxEdits            \* bound: edits of all agents together

ASSUME ChainAssumption == {max_attempts, MaxEdits} \subseteq Nat

Kinds == {"execute", "verify", "integrate"}

VARIABLES
    status, attempt_count,  \* of the work item of a kind
    session,            \* what a worker is at
    present,            \* the worktree is there,
    tree,               \*   what is in it (0: the base revision),
    changed,            \*   and what git status reports
    edits,              \* which attempt made which edit; edit n leads to tree n
    branch,             \* the commits after base_revision
    merging,            \* the target repository is in the middle of a merge
    merged,             \* heads of the branch that were merged
    verified,           \* what accepted verifications looked at
    interrupted         \* attempts that lost their lease, raised or died

vars == <<status, attempt_count, session, present, tree, changed, edits, branch,
          merging, merged, verified, interrupted>>

items == <<status, attempt_count>>
worktree == <<present, tree, changed, edits>>

Idle == [pc |-> "idle", kind |-> "execute", attempt |-> 0, head |-> 0, changed |-> {},
         judged |-> 0, result |-> "none"]

Init ==
    /\ status = [k \in Kinds |-> "ready"]
    /\ attempt_count = [k \in Kinds |-> 0]
    /\ session = [w \in Workers |-> Idle]
    /\ present = FALSE /\ tree = 0 /\ changed = {} /\ edits = <<>>
    /\ branch = <<>>
    /\ merging = FALSE /\ merged = {}
    /\ verified = {}
    /\ interrupted = {}

pc(w) == session[w].pc
kind(w) == session[w].kind
Attempt(w) == <<kind(w), session[w].attempt>>
Goes(w, next) == session' = [session EXCEPT ![w].pc = next]
Ends(w, result) == session' = [session EXCEPT ![w].pc = "completing", ![w].result = result]

head == Len(branch)
TreeOf(h) == IF h = 0 THEN 0 ELSE branch[h].tree

-----------------------------------------------------------------------------
(* Leases.                                                                 *)

Before(k) == CASE k = "execute" -> {}
               [] k = "verify" -> {"execute"}
               [] k = "integrate" -> {"execute", "verify"}

Claim(w, k) ==
    /\ pc(w) = "idle"
    /\ status[k] = "ready" /\ \A d \in Before(k) : status[d] = "succeeded"
    /\ status' = [status EXCEPT ![k] = "leased"]
    /\ attempt_count' = [attempt_count EXCEPT ![k] = @ + 1]
    /\ session' = [session EXCEPT ![w] =
                     [Idle EXCEPT !.pc = "started", !.kind = k,
                                  !.attempt = attempt_count[k] + 1]]
    /\ UNCHANGED <<worktree, branch, merging, merged, verified, interrupted>>

Retried(k) == IF attempt_count[k] < max_attempts THEN "ready" ELSE "failed"

Expire(k) ==
    /\ status[k] = "leased"
    /\ status' = [status EXCEPT ![k] = Retried(k)]
    /\ interrupted' = interrupted \cup {<<k, attempt_count[k]>>}
    /\ UNCHANGED <<attempt_count, session, worktree, branch, merging, merged, verified>>

\* Wrong form: the fencing token is not compared.
HoldsLease_Item(w) == status[kind(w)] = "leased"

HoldsLease(w) ==
    status[kind(w)] = "leased" /\ attempt_count[kind(w)] = session[w].attempt

\* The result of an attempt, which is refused from one that lost its lease.
Complete(w) ==
    /\ pc(w) = "completing"
    /\ session' = [session EXCEPT ![w] = Idle]
    /\ IF HoldsLease(w)
       THEN /\ status' = [status EXCEPT ![kind(w)] =
                            CASE session[w].result = "succeeded" -> "succeeded"
                              [] session[w].result = "failed" -> Retried(kind(w))
                              [] session[w].result = "fatal" -> "failed"]
            /\ verified' =
                 IF kind(w) = "verify" /\ session[w].result = "succeeded"
                 THEN verified \cup {[head |-> session[w].head, judged |-> session[w].judged]}
                 ELSE verified
       ELSE UNCHANGED <<status, verified>>
    /\ UNCHANGED <<attempt_count, worktree, branch, merging, merged, interrupted>>

\* An exception of the agent or of Git: a failure that may be retried.
Raise(w) ==
    /\ pc(w) \notin {"idle", "merging", "completing"}
    /\ Ends(w, "failed")
    /\ interrupted' = interrupted \cup {Attempt(w)}
    /\ UNCHANGED <<items, worktree, branch, merging, merged, verified>>

\* A worker that dies during a merge takes git with it, or git ends the merge.
Crash(w) ==
    /\ pc(w) # "idle"
    /\ session' = [session EXCEPT ![w] = Idle]
    /\ interrupted' = interrupted \cup {Attempt(w)}
    /\ \/ UNCHANGED <<merging, merged>>
       \/ /\ pc(w) = "merging"
          /\ merging' = FALSE
          /\ merged' = merged \cup {session[w].head}
    /\ UNCHANGED <<items, worktree, branch, verified>>

-----------------------------------------------------------------------------
(* Execute.                                                                *)

\* A worktree that is there is taken as it is, with what an earlier attempt
\* left in it; otherwise the branch is checked out.
Prepare(w) ==
    /\ kind(w) = "execute" /\ pc(w) = "started"
    /\ Goes(w, "agent")
    /\ present' = TRUE
    /\ IF present THEN UNCHANGED <<tree, changed>>
                  ELSE tree' = TreeOf(head) /\ changed' = {}
    /\ UNCHANGED <<items, edits, branch, merging, merged, verified, interrupted>>

\* Agents edit; one that verifies should not.
Edit(w) ==
    /\ pc(w) \in {"agent", "judged"}
    /\ present
    /\ Len(edits) < MaxEdits
    /\ edits' = Append(edits, Attempt(w))
    /\ tree' = Len(edits) + 1
    /\ \E path \in Files : changed' = changed \cup {path}
    /\ UNCHANGED <<items, session, present, branch, merging, merged, verified, interrupted>>

Executed(w) ==
    /\ kind(w) = "execute" /\ pc(w) = "agent"
    /\ Goes(w, "commit") \/ Ends(w, "failed")
    /\ UNCHANGED <<items, worktree, branch, merging, merged, verified, interrupted>>

\* add -A; commit --allow-empty.  Nobody asks for the lease.
Commit(w) ==
    /\ pc(w) = "commit"
    /\ present
    /\ branch' = Append(branch, [tree |-> tree, attempt |-> session[w].attempt])
    /\ changed' = {}
    /\ Ends(w, "succeeded")
    /\ UNCHANGED <<items, present, tree, edits, merging, merged, verified, interrupted>>

-----------------------------------------------------------------------------
(* Verify.                                                                 *)

Inspect(w) ==
    /\ kind(w) = "verify" /\ pc(w) = "started"
    /\ IF present
       THEN session' = [session EXCEPT ![w].pc = "agent", ![w].head = head,
                                       ![w].changed = changed]
       ELSE Ends(w, "fatal")
    /\ UNCHANGED <<items, worktree, branch, merging, merged, verified, interrupted>>

Judge(w) ==
    /\ kind(w) = "verify" /\ pc(w) = "agent"
    /\ present
    /\ \E verdict \in {"succeeded", "failed"} :
          session' = [session EXCEPT ![w].pc = "judged", ![w].judged = tree,
                                     ![w].result = verdict]
    /\ UNCHANGED <<items, worktree, branch, merging, merged, verified, interrupted>>

\* Wrong form: only the commit is compared.
Mutated_Head(w) == session[w].head # head

\* verifier_mutated_workspace: a path that was changed before is not looked at.
Mutated(w) == session[w].head # head \/ changed \ session[w].changed # {}

Compare(w) ==
    /\ pc(w) = "judged"
    /\ present
    /\ IF Mutated(w) THEN Ends(w, "fatal") ELSE Goes(w, "completing")
    /\ UNCHANGED <<items, worktree, branch, merging, merged, verified, interrupted>>

-----------------------------------------------------------------------------
(* Integrate.                                                              *)

\* git switch refuses a repository that is merging: see Raise.
StartMerge(w) ==
    /\ kind(w) = "integrate" /\ pc(w) = "started"
    /\ IF present
       THEN /\ ~merging
            /\ merging' = TRUE
            /\ session' = [session EXCEPT ![w].pc = "merging", ![w].head = head]
       ELSE Ends(w, "fatal") /\ UNCHANGED merging
    /\ UNCHANGED <<items, worktree, branch, merged, verified, interrupted>>

\* A merge of what has been merged succeeds; a conflict is aborted.
EndMerge(w) ==
    /\ pc(w) = "merging"
    /\ merging' = FALSE
    /\ \/ Goes(w, "remove") /\ merged' = merged \cup {session[w].head}
       \/ Ends(w, "fatal") /\ UNCHANGED merged
    /\ UNCHANGED <<items, worktree, branch, verified, interrupted>>

\* worktree remove --force; another integrator may have done it: see Raise.
Remove(w) ==
    /\ pc(w) = "remove"
    /\ present
    /\ present' = FALSE
    /\ Ends(w, "succeeded")
    /\ UNCHANGED <<items, tree, changed, edits, branch, merging, merged, verified, interrupted>>

-----------------------------------------------------------------------------
Next ==
    \/ \E k \in Kinds : Expire(k)
    \/ \E w \in Workers :
          \/ \E k \in Kinds : Claim(w, k)
          \/ Complete(w) \/ Raise(w) \/ Crash(w)
          \/ Prepare(w) \/ Edit(w) \/ Executed(w) \/ Commit(w)
          \/ Inspect(w) \/ Judge(w) \/ Compare(w)
          \/ StartMerge(w) \/ EndMerge(w) \/ Remove(w)

Spec == Init /\ [][Next]_vars

=============================================================================
