------------------------------ MODULE Sandbox ------------------------------
(***************************************************************************)
(* The attempts of one work item whose agent runs in a Docker container:   *)
(* DockerProfileAgentAdapter prepares the files that worker and container  *)
(* share, DockerExecutor watches the container and drains its journal of   *)
(* checkpoints, and the adapter reads the outcome.  A container outlives   *)
(* the worker that started it, and its files are in a workspace that the   *)
(* item's attempts have in common.                                         *)
(***************************************************************************)
EXTENDS Naturals, Sequences

CONSTANTS
    max_attempts,
    EntryPoints,        \* durable_activity.py, and a program outside src/ that
                        \* keeps the contract of the two shared files
    Faults,             \* what may go wrong,
    MaxFaults,          \* bound: and how often
    MaxLines            \* bound: checkpoints of a container

FaultKinds == {"expire", "cancel", "heartbeat", "crash", "refuse", "timeout", "rm", "killed"}

ASSUME SandboxAssumption ==
    /\ {max_attempts, MaxFaults, MaxLines} \subseteq Nat
    /\ EntryPoints \subseteq {"durable_activity", "external"}
    /\ Faults \subseteq FaultKinds

VARIABLES
    status, attempt_count,  \* of the work item
    call,               \* of an attempt: where its worker is, why its loop ended,
                        \* lease_lost, the checkpoints it committed, the outcome
                        \* it took; and three ghosts: whose outcome that was, which
                        \* attempts before it were not over when it began, and
                        \* whether its lease ran out or docker rm failed
    container,          \* of an attempt: its program and state, the lines it wrote,
                        \* half a line, the outcome
    journal,            \* the checkpoint files: who wrote each line
    outcome,            \* the outcome file, which all attempts share, and (a
                        \* ghost) the attempt whose container wrote it
    faults

vars == <<status, attempt_count, call, container, journal, outcome, faults>>

Attempts == 1..max_attempts

\* No outcome file, and one that was cut off.
Absent == [content |-> "absent", author |-> 0]
Cut == [content |-> "cut", author |-> 0]

Init ==
    /\ status = "ready"
    /\ attempt_count = 0
    /\ call = [a \in Attempts |-> [pc |-> "none", why |-> "exit", lost |-> FALSE,
                                   committed |-> <<>>, result |-> "none", author |-> 0,
                                   beside |-> {}, loose |-> FALSE]]
    /\ container = [a \in Attempts |-> [program |-> "none", state |-> "none", written |-> 0,
                                        half |-> FALSE, wrote |-> FALSE]]
    /\ journal = [a \in Attempts |-> <<>>]
    /\ outcome = Absent
    /\ faults = 0

\* Something goes wrong.
Fault(kind) == kind \in Faults /\ faults < MaxFaults /\ faults' = faults + 1

pc(a) == call[a].pc
Up(a) == container[a].state = "up"

\* An open attempt of the item; every repository call of another is refused.
HoldsLease(a) == status = "leased" /\ attempt_count = a

-----------------------------------------------------------------------------
(* The work item, as claims, the reaper and the API change it.             *)

Claim ==
    /\ status = "ready"
    /\ status' = "leased"
    /\ attempt_count' = attempt_count + 1
    /\ call' = [call EXCEPT ![attempt_count + 1].pc = "claimed"]
    /\ UNCHANGED <<container, journal, outcome>>

Retried == IF attempt_count < max_attempts THEN "ready" ELSE "failed"

Expire ==
    /\ Fault("expire")
    /\ status = "leased"
    /\ status' = Retried
    /\ call' = [call EXCEPT ![attempt_count].loose = TRUE]
    /\ UNCHANGED <<attempt_count, container, journal, outcome>>

CancelRun ==
    /\ Fault("cancel")
    /\ status \in {"ready", "leased"}
    /\ status' = "cancelled"
    /\ UNCHANGED <<attempt_count, call, container, journal, outcome>>

-----------------------------------------------------------------------------
(* The container.                                                          *)

\* durable_activity.main reads the checkpoint of the attempt before and then
\* defines the callback under the same name: that is what run gets.
PassedCheckpoint(a) ==
    IF container[a].program = "durable_activity" THEN "callback" ELSE "mapping"

\* The note on the checkpoint asks for a mapping, before the agent starts.
MainRaises(a) ==
    /\ Up(a)
    /\ PassedCheckpoint(a) # "mapping"
    /\ container' = [container EXCEPT ![a].state = "exited"]
    /\ UNCHANGED <<status, attempt_count, call, journal, outcome>>

Works(a) == Up(a) /\ PassedCheckpoint(a) = "mapping"

\* A line longer than the buffer reaches the file in two writes.
StartLine(a) ==
    /\ Works(a)
    /\ ~container[a].half /\ ~container[a].wrote
    /\ container[a].written < MaxLines
    /\ container' = [container EXCEPT ![a].half = TRUE]
    /\ UNCHANGED <<status, attempt_count, call, journal, outcome>>

\* Wrong form: the journal has the name of the work item, like the outcome.
JournalOf_Item(a) == 1

JournalOf(a) == a

EndLine(a) ==
    /\ Works(a)
    /\ container[a].half
    /\ container' = [container EXCEPT ![a].half = FALSE, ![a].written = @ + 1]
    /\ journal' = [journal EXCEPT ![JournalOf(a)] = Append(@, a)]
    /\ UNCHANGED <<status, attempt_count, call, outcome>>

WriteOutcome(a) ==
    /\ Works(a)
    /\ ~container[a].half /\ ~container[a].wrote
    /\ container' = [container EXCEPT ![a].wrote = TRUE]
    /\ \E content \in {"ok", "retry"} : outcome' = [content |-> content, author |-> a]
    /\ UNCHANGED <<status, attempt_count, call, journal>>

Exit(a) ==
    /\ Works(a)
    /\ container[a].wrote
    /\ container' = [container EXCEPT ![a].state = "exited"]
    /\ UNCHANGED <<status, attempt_count, call, journal, outcome>>

\* The end of a container in the middle of what it does: the outcome file may
\* be left truncated.
Torn(a) ==
    IF Works(a) /\ ~container[a].wrote /\ ~container[a].half
    THEN {outcome, Cut} ELSE {outcome}

Killed(a) ==
    /\ Fault("killed")
    /\ Up(a)
    /\ container' = [container EXCEPT ![a].state = "exited"]
    /\ outcome' \in Torn(a)
    /\ UNCHANGED <<status, attempt_count, call, journal>>

-----------------------------------------------------------------------------
(* The worker: before the container.                                       *)

\* Wrong form: the outcome of the attempt before is left in the workspace.
Cleared_Kept == outcome

Cleared == Absent

Begin(a) ==
    /\ pc(a) = "claimed"
    /\ outcome' = Cleared
    /\ journal' = [journal EXCEPT ![JournalOf(a)] = <<>>]
    /\ \E program \in EntryPoints :
          container' = [container EXCEPT ![a].state = "up", ![a].program = program]
    /\ call' = [call EXCEPT ![a].pc = "polling",
                            ![a].beside = {b \in 1..a - 1 : pc(b) = "claimed" \/ Up(b)}]
    /\ UNCHANGED <<status, attempt_count>>

\* The image, a host, the workspace or a secret is refused.
Refuse(a) ==
    /\ Fault("refuse")
    /\ pc(a) = "claimed"
    /\ outcome' = Cleared
    /\ call' = [call EXCEPT ![a].pc = "raised"]
    /\ UNCHANGED <<status, attempt_count, container, journal>>

\* The heartbeat thread finds the lease gone,
Heartbeat(a) ==
    /\ pc(a) \notin {"none", "finished", "dead"}
    /\ ~call[a].lost
    /\ ~HoldsLease(a)
    /\ call' = [call EXCEPT ![a].lost = TRUE]
    /\ UNCHANGED <<status, attempt_count, container, journal, outcome>>

\* or raises anything else, which counts as a lost lease.
HeartbeatRaises(a) ==
    /\ Fault("heartbeat")
    /\ pc(a) \notin {"none", "finished", "dead"}
    /\ HoldsLease(a) /\ ~call[a].lost
    /\ call' = [call EXCEPT ![a].lost = TRUE]
    /\ UNCHANGED <<status, attempt_count, container, journal, outcome>>

-----------------------------------------------------------------------------
(* _run_cancellable.                                                       *)

Look(a) ==
    /\ pc(a) = "polling"
    /\ call' = [call EXCEPT ![a].pc = IF Up(a) THEN "draining" ELSE "final"]
    /\ UNCHANGED <<status, attempt_count, container, journal, outcome>>

Pending(a) == Len(journal[JournalOf(a)]) > Len(call[a].committed)

\* The file ends with half a line.
HalfLine(a) == \E b \in Attempts : JournalOf(b) = JournalOf(a) /\ container[b].half

CommitLine(a) ==
    /\ pc(a) \in {"draining", "final"}
    /\ Pending(a)
    /\ HoldsLease(a)
    /\ call' = [call EXCEPT ![a].committed =
                              Append(@, journal[JournalOf(a)][Len(@) + 1])]
    /\ UNCHANGED <<status, attempt_count, container, journal, outcome>>

\* The repository refuses the checkpoint, or the line is no JSON yet.
FailLine(a) ==
    /\ pc(a) \in {"draining", "final"}
    /\ IF Pending(a) THEN ~HoldsLease(a) ELSE HalfLine(a)
    /\ call' = [call EXCEPT ![a].pc = "kill", ![a].why = "error"]
    /\ UNCHANGED <<status, attempt_count, container, journal, outcome>>

\* The second drain, after the loop, precedes what the loop ended for.
Drained(a) ==
    /\ ~Pending(a) /\ ~HalfLine(a)
    /\ \/ pc(a) = "draining" /\ call' = [call EXCEPT ![a].pc = "checking"]
       \/ /\ pc(a) = "final"
          /\ call' = [call EXCEPT ![a].pc = IF call[a].why = "exit" THEN "done" ELSE "kill"]
    /\ UNCHANGED <<status, attempt_count, container, journal, outcome>>

\* Wrong form: the lease is not asked for.
Cancels_Run(a) == status = "cancelled"

Cancels(a) == call[a].lost \/ status = "cancelled"

Check(a) ==
    /\ pc(a) = "checking"
    /\ call' = IF Cancels(a)
               THEN [call EXCEPT ![a].pc = "final", ![a].why = "cancelled"]
               ELSE [call EXCEPT ![a].pc = "polling"]
    /\ UNCHANGED <<status, attempt_count, container, journal, outcome>>

TimeOut(a) ==
    /\ Fault("timeout")
    /\ pc(a) = "checking" /\ ~Cancels(a)
    /\ call' = [call EXCEPT ![a].pc = "final", ![a].why = "timed_out"]
    /\ UNCHANGED <<status, attempt_count, container, journal, outcome>>

\* docker rm -f; a checkpoint that failed is raised again afterwards.
Stopped(a) == IF call[a].why = "error" THEN "raised" ELSE "done"

Kill(a) ==
    /\ pc(a) = "kill"
    /\ container' = [container EXCEPT ![a].state = "gone"]
    /\ outcome' \in Torn(a)
    /\ call' = [call EXCEPT ![a].pc = Stopped(a)]
    /\ UNCHANGED <<status, attempt_count, journal>>

\* Nobody looks at the result of docker rm; it may also run into its timeout.
KillFails(a) ==
    /\ Fault("rm")
    /\ pc(a) = "kill"
    /\ \E next \in {Stopped(a), "raised"} :
          call' = [call EXCEPT ![a].pc = next, ![a].loose = TRUE]
    /\ UNCHANGED <<status, attempt_count, container, journal, outcome>>

-----------------------------------------------------------------------------
(* The worker: after the container.                                        *)

\* What the adapter finds; another container may be about to write the file.
Found(a) ==
    (IF outcome.content \in {"ok", "retry"} THEN {outcome.content} ELSE {"failed"})
      \cup (IF \E b \in Attempts : Works(b) /\ ~container[b].wrote THEN {"failed"} ELSE {})

Return(a) ==
    /\ journal' = [journal EXCEPT ![JournalOf(a)] = <<>>]
    /\ \/ pc(a) = "raised" /\ call' = [call EXCEPT ![a].pc = "completing", ![a].result = "failed"]
       \/ /\ pc(a) = "done"
          /\ \E result \in Found(a) :
                call' = [call EXCEPT ![a].pc = "completing", ![a].result = result,
                                     ![a].author = IF result = "failed" THEN 0 ELSE outcome.author]
    /\ UNCHANGED <<status, attempt_count, container, outcome>>

\* complete_attempt, which refuses the result of a worker that lost its lease.
Complete(a) ==
    /\ pc(a) = "completing"
    /\ call' = [call EXCEPT ![a].pc = "finished"]
    /\ status' = IF ~HoldsLease(a) THEN status
                 ELSE IF call[a].result = "ok" THEN "succeeded" ELSE Retried
    /\ UNCHANGED <<attempt_count, container, journal, outcome>>

\* The worker process ends; its container does not.
Crash(a) ==
    /\ Fault("crash")
    /\ pc(a) \notin {"none", "finished", "dead"}
    /\ call' = [call EXCEPT ![a].pc = "dead"]
    /\ UNCHANGED <<status, attempt_count, container, journal, outcome>>

-----------------------------------------------------------------------------
Runs(a) == MainRaises(a) \/ StartLine(a) \/ EndLine(a) \/ WriteOutcome(a) \/ Exit(a)

Watches(a) == Look(a) \/ CommitLine(a) \/ FailLine(a) \/ Drained(a) \/ Check(a) \/ Kill(a)

Steps ==
    \/ Claim
    \/ \E a \in Attempts :
          Runs(a) \/ Begin(a) \/ Heartbeat(a) \/ Watches(a) \/ Return(a) \/ Complete(a)

Failures ==
    \/ Expire \/ CancelRun
    \/ \E a \in Attempts :
          \/ Killed(a) \/ Refuse(a) \/ HeartbeatRaises(a)
          \/ TimeOut(a) \/ KillFails(a) \/ Crash(a)

Next == (Steps /\ UNCHANGED faults) \/ Failures

Spec == Init /\ [][Next]_vars

\* The two threads that watch a container go on.
WatchSpec ==
    /\ Spec
    /\ \A a \in Attempts :
          /\ WF_vars(Watches(a) /\ UNCHANGED faults)
          /\ WF_vars(Heartbeat(a) /\ UNCHANGED faults)

\* So does the rest of the worker, and workers claim what is ready.  An agent
\* need not come to an end; main does when it raises.
FairSpec ==
    /\ WatchSpec
    /\ WF_vars(Claim /\ UNCHANGED faults)
    /\ \A a \in Attempts :
          /\ WF_vars((Begin(a) \/ Return(a) \/ Complete(a)) /\ UNCHANGED faults)
          /\ WF_vars(MainRaises(a) /\ UNCHANGED faults)

=============================================================================
