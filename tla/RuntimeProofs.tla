--------------------------- MODULE RuntimeProofs ---------------------------
(***************************************************************************)
(* For every plan, pool of workers and bound: the processes of the durable *)
(* runtime, with what each has read and not yet written, implement the     *)
(* controller, so that DurableProofs is about them.                        *)
(*                                                                         *)
(* What needs an argument is the patch of a plan.  A planner computes it   *)
(* from one snapshot and appends it to a later one; PatchIsEvidence says   *)
(* that it is still the patch of that later snapshot.                      *)
(***************************************************************************)
EXTENDS RuntimeProperties, DurableProofs, WellFoundedInduction, FiniteSetTheorems

SessionType ==
    [pc : PC, run : Runs \cup {"none"}, item : Items \cup {0},
     attempt : AttemptIds \cup {0}, obsolete : SUBSET Items,
     base : 0..MaxRevision, tries : 0..(MaxTries - 1)]

\* Where a worker has an attempt.
AttemptPC == {"starting", "working", "reporting", "completing", "failing"}

\* Where a planner works.
ReplanPC == {"replanning", "patching", "committing"}

\* A process that works for a run knows it, and a worker the attempt it claimed.
WellPlaced(c, s) ==
    /\ s.pc \notin {"idle", "dead"} => s.run \in Runs
    /\ s.pc \in AttemptPC => /\ c \in Workers
                             /\ s.item \in Items
                             /\ s.attempt \in AttemptIds
                             /\ s.run = RunOf[s.item]

SessionsOK ==
    /\ session \in [Clients -> SessionType]
    /\ \A c \in Clients : WellPlaced(c, session[c])

\* The patch that some of the failures in the plan of r call for.
CalledFor(statuses, r, obsolete) ==
    LET plan == {i \in Items : RunOf[i] = r /\ statuses[i] # "absent"}
    IN  \E seen \in (SUBSET {i \in plan : statuses[i] \in {"failed", "blocked"}}) \ {{}} :
           obsolete = ObsoleteItems(plan, statuses, seen)

\* The patch a planner holds is about the current plan or an earlier one; in
\* the first case it is still what the failures call for, unless the run ended.
PatchIsEvidence ==
    \A c \in Clients : pc(c) \in {"patching", "committing"} =>
       /\ session[c].base =< current_plan_revision[run(c)]
       /\ /\ session[c].base = current_plan_revision[run(c)]
          /\ run_status[run(c)] \notin TERMINAL_RUN_STATUSES
          => CalledFor(work_item_statuses, run(c), session[c].obsolete)

RuntimeInv == Inv /\ SessionsOK /\ PatchIsEvidence

-----------------------------------------------------------------------------
(* Sessions.                                                               *)

Alone(c) == \A d \in Clients \ {c} : session'[d] = session[d]

LEMMA Moved ==
  ASSUME SessionsOK, NEW c \in Clients, NEW s \in SessionType, WellPlaced(c, s),
         session' = [session EXCEPT ![c] = s]
  PROVE  SessionsOK' /\ Alone(c) /\ session'[c] = s
BY DEF SessionsOK, Alone

LEMMA NoSessionType == NoSession \in SessionType /\ NoSession.pc = "idle"
<1>1. {} \in SUBSET Items /\ 0 \in 0..MaxRevision /\ 0 \in 0..(MaxTries - 1)
  BY RuntimeAssumption, RecoveryRequiredAssumption
<1> QED
  BY <1>1 DEF NoSession, SessionType, PC

\* Goto keeps the local variables.
LEMMA GotoMoves ==
  ASSUME SessionsOK, NEW c \in Clients, NEW next \in PC, Goto(c, next),
         next \in AttemptPC => pc(c) \in AttemptPC,
         next \notin {"idle", "dead"} => pc(c) \notin {"idle", "dead"}
  PROVE  SessionsOK' /\ Alone(c) /\ session'[c] = [session[c] EXCEPT !.pc = next]
<1> DEFINE s == [session[c] EXCEPT !.pc = next]
<1>1. session[c] \in SessionType /\ WellPlaced(c, session[c])
  BY DEF SessionsOK
<1>2. s \in SessionType
  BY <1>1 DEF SessionType
<1>3. WellPlaced(c, s)
  BY <1>1 DEF WellPlaced, SessionType, pc
<1>4. session' = [session EXCEPT ![c] = s]
  BY DEF Goto
<1> HIDE DEF s
<1>5. SessionsOK' /\ Alone(c) /\ session'[c] = s
  BY <1>2, <1>3, <1>4, Moved
<1> QED
  BY <1>5 DEF s

LEMMA FinishMoves ==
  ASSUME SessionsOK, NEW c \in Clients, Finish(c)
  PROVE  SessionsOK' /\ Alone(c) /\ session'[c].pc = "idle"
<1>1. WellPlaced(c, NoSession)
  BY NoSessionType DEF WellPlaced, AttemptPC
<1> QED
  BY <1>1, NoSessionType, Moved DEF Finish

LEMMA RaiseMoves ==
  ASSUME SessionsOK, NEW c \in Clients, Raise(c)
  PROVE  SessionsOK' /\ Alone(c) /\ session'[c].pc \in {"idle", "dead"}
<1> DEFINE dead == [NoSession EXCEPT !.pc = "dead"]
<1>1. dead \in SessionType /\ dead.pc = "dead"
  BY NoSessionType DEF SessionType, PC
<1>2. WellPlaced(c, dead) /\ WellPlaced(c, NoSession)
  BY <1>1, NoSessionType DEF WellPlaced, AttemptPC
<1>3. session' = [session EXCEPT ![c] = dead] \/ session' = [session EXCEPT ![c] = NoSession]
  BY DEF Raise
<1> HIDE DEF dead
<1> QED
  BY <1>1, <1>2, <1>3, NoSessionType, Moved

LEMMA AdvanceMoves ==
  ASSUME SessionsOK, NEW c \in Clients, NEW r \in Runs, Advance(c, r)
  PROVE  /\ SessionsOK' /\ Alone(c)
         /\ session'[c].pc = "advancing" /\ session'[c].run = r
<1> DEFINE s == [NoSession EXCEPT !.pc = "advancing", !.run = r]
<1>1. s \in SessionType /\ s.pc = "advancing" /\ s.run = r
  BY NoSessionType DEF SessionType, PC
<1>2. session' = [session EXCEPT ![c] = s]
  BY DEF Advance
<1> HIDE DEF s
<1>3. WellPlaced(c, s)
  BY <1>1 DEF WellPlaced, AttemptPC
<1> QED
  BY <1>1, <1>2, <1>3, Moved

LEMMA DecidedMoves ==
  ASSUME SessionsOK, NEW c \in Clients, pc(c) \notin {"idle", "dead"},
         NEW decision, Decided(c, decision)
  PROVE  /\ SessionsOK' /\ Alone(c)
         /\ \/ session'[c].pc = "idle"
            \/ /\ session'[c].pc = "replanning"
               /\ decision = "replan" /\ HasPlanner(c)
<1>1. CASE decision = "replan" /\ HasPlanner(c)
  <2> DEFINE s == [session[c] EXCEPT !.pc = "replanning", !.tries = 0]
  <2>1. session[c] \in SessionType /\ session[c].run \in Runs
    BY DEF SessionsOK, WellPlaced, pc
  <2>2. 0 \in 0..(MaxTries - 1)
    BY RuntimeAssumption
  <2>3. s \in SessionType /\ s.pc = "replanning" /\ s.run = session[c].run
    BY <2>1, <2>2 DEF SessionType, PC
  <2>4. session' = [session EXCEPT ![c] = s]
    BY <1>1 DEF Decided
  <2> HIDE DEF s
  <2>5. WellPlaced(c, s)
    BY <2>1, <2>3 DEF WellPlaced, AttemptPC
  <2> QED
    BY <1>1, <2>3, <2>4, <2>5, Moved
<1>2. CASE ~ (decision = "replan" /\ HasPlanner(c))
  <2>1. Finish(c)
    BY <1>2 DEF Decided
  <2> QED
    BY <2>1, FinishMoves
<1> QED
  BY <1>1, <1>2

-----------------------------------------------------------------------------
(* Where the steps lead.                                                   *)

\* A session that does not change.
LEMMA StayMoves ==
  ASSUME SessionsOK, UNCHANGED session
  PROVE  SessionsOK' /\ \A c : Alone(c)
BY DEF SessionsOK, Alone

\* The attempt of a claim is the one the row names.
LEMMA ClaimMoves ==
  ASSUME SessionsOK, Inv', NEW w \in Workers, Claim(w)
  PROVE  /\ SessionsOK' /\ Alone(w)
         /\ session'[w].pc = "starting"
         /\ \E i \in Items : item_status[i] = "ready" /\ session'[w].run = RunOf[i]
<1>1. PICK i \in Items :
         /\ claim_work(w, i)
         /\ session' = [session EXCEPT ![w] =
               [NoSession EXCEPT !.pc = "starting", !.run = RunOf[i], !.item = i,
                            !.attempt = fencing_token'[i]]]
  BY DEF Claim
<1>2. item_status[i] = "ready" /\ item_status' = [item_status EXCEPT ![i] = "leased"]
  BY <1>1 DEF claim_work, CanClaim
<1>3. fencing_token'[i] \in AttemptIds
  <2>1. i \in DOMAIN item_status
    BY <1>1 DEF claim_work, Inv, TypeOK, TablesTypeOK
  <2>2. item_status'[i] \in ActiveStatus
    BY <1>2, <2>1 DEF ActiveStatus
  <2> QED
    BY <2>2 DEF Inv, Fencing, CurrentAttemptIsOpen
<1>4. RunOf[i] \in Runs
  BY ItemAssumption
<1> DEFINE s == [NoSession EXCEPT !.pc = "starting", !.run = RunOf[i], !.item = i,
                             !.attempt = fencing_token'[i]]
<1>5. s \in SessionType
  BY <1>3, <1>4, NoSessionType DEF SessionType, PC
<1>6. s.pc = "starting" /\ s.run = RunOf[i] /\ s.item = i /\ s.attempt = fencing_token'[i]
  BY DEF NoSession
<1>7. session' = [session EXCEPT ![w] = s]
  BY <1>1
<1> HIDE DEF s
<1>8. WellPlaced(w, s)
  BY <1>3, <1>4, <1>6 DEF WellPlaced, AttemptPC
<1>9. w \in Clients
  BY DEF Clients
<1> QED
  BY <1>2, <1>5, <1>6, <1>7, <1>8, <1>9, Moved

\* A worker keeps its run until it has closed its attempt and advanced the run.
LEMMA WorkerMoves ==
  ASSUME SessionsOK, Inv', NEW w \in Workers, WorkerStep(w) \/ Heartbeat(w) \/ Restart(w)
  PROVE  /\ SessionsOK' /\ Alone(w)
         /\ session'[w].pc \notin ReplanPC
         /\ session'[w].pc \in AttemptPC \cup {"advancing", "appending"} =>
               \/ pc(w) \in AttemptPC /\ session'[w].run = run(w)
               \/ \E i \in Items : item_status[i] = "ready" /\ session'[w].run = RunOf[i]
<1> w \in Clients
  BY DEF Clients
<1> USE DEF AttemptPC, ReplanPC
<1>t. session[w] \in SessionType /\ WellPlaced(w, session[w])
  BY DEF SessionsOK
<1>1. ASSUME NEW next \in AttemptPC, Goto(w, next), pc(w) \in AttemptPC
      PROVE  /\ SessionsOK' /\ Alone(w)
             /\ session'[w].pc = next /\ session'[w].run = run(w)
  <2>1. SessionsOK' /\ Alone(w) /\ session'[w] = [session[w] EXCEPT !.pc = next]
    BY <1>1, GotoMoves DEF PC
  <2> QED
    BY <1>t, <2>1 DEF SessionType, run
<1>2. ASSUME Advance(w, run(w)), pc(w) \in AttemptPC
      PROVE  /\ SessionsOK' /\ Alone(w)
             /\ session'[w].pc = "advancing" /\ session'[w].run = run(w)
  <2>1. run(w) \in Runs
    BY <1>t, <1>2 DEF WellPlaced, pc, run
  <2> QED
    BY <1>2, <2>1, AdvanceMoves
<1>3. ASSUME UNCHANGED session, pc(w) \in {"idle"} \cup AttemptPC
      PROVE  /\ SessionsOK' /\ Alone(w)
             /\ session'[w].pc = pc(w) /\ session'[w].run = run(w)
  BY <1>3, StayMoves DEF pc, run
<1>4. CASE ReleaseLeases(w)
  BY <1>4, <1>3 DEF ReleaseLeases
<1>5. CASE Claim(w)
  BY <1>5, ClaimMoves
<1>6. CASE Start(w)
  <2>1. pc(w) \in AttemptPC /\ (Goto(w, "working") \/ Raise(w))
    BY <1>6 DEF Start
  <2> QED
    BY <1>1, <2>1, RaiseMoves
<1>7. CASE Checkpoint(w)
  <2>1. pc(w) \in AttemptPC /\ (Goto(w, "failing") \/ UNCHANGED session)
    BY <1>7 DEF Checkpoint
  <2> QED
    BY <1>1, <1>3, <2>1
<1>8. CASE Work(w)
  <2>1. pc(w) \in AttemptPC
        /\ (Goto(w, "completing") \/ Goto(w, "failing") \/ Goto(w, "reporting"))
    BY <1>8 DEF Work
  <2> QED
    BY <1>1, <2>1
<1>9. CASE Report(w)
  <2>1. pc(w) \in AttemptPC /\ (Goto(w, "completing") \/ Goto(w, "failing"))
    BY <1>9 DEF Report
  <2> QED
    BY <1>1, <2>1
<1>10. CASE Complete(w)
  <2>1. pc(w) \in AttemptPC /\ (Goto(w, "failing") \/ Advance(w, run(w)))
    BY <1>10 DEF Complete, Close
  <2> QED
    BY <1>1, <1>2, <2>1
<1>11. CASE Fail(w)
  <2>1. pc(w) \in AttemptPC /\ Advance(w, run(w))
    BY <1>11 DEF Fail, Close
  <2> QED
    BY <1>2, <2>1
<1>12. CASE Heartbeat(w)
  BY <1>12, <1>3 DEF Heartbeat
<1>13. CASE Restart(w)
  BY <1>13, FinishMoves DEF Restart
<1> QED
  BY <1>4, <1>5, <1>6, <1>7, <1>8, <1>9, <1>10, <1>11, <1>12, <1>13 DEF WorkerStep

\* A process that advances a run keeps to it, and has its steps in order.
LEMMA AdvancingMoves ==
  ASSUME SessionsOK, Inv, NEW c \in Clients, AdvanceStep(c)
  PROVE  /\ SessionsOK' /\ Alone(c)
         /\ session'[c].pc \notin AttemptPC
         /\ session'[c].pc = "patching" => Replan(c)
         /\ session'[c].pc = "committing" => Patch(c)
         /\ session'[c].pc = "replanning" =>
               /\ pc(c) \in {"advancing", "appending"}
               /\ HasPlanner(c) /\ Decision(run(c)) = "replan"
         /\ session'[c].pc \in {"advancing", "appending"} =>
               /\ pc(c) \in {"advancing", "appending", "committing"}
               /\ session'[c].run = run(c)
<1> USE DEF AttemptPC, ReplanPC
<1>t. session[c] \in SessionType /\ WellPlaced(c, session[c])
  BY DEF SessionsOK
<1>1. ASSUME NEW next \in {"appending", "committing"}, Goto(c, next),
             pc(c) \in {"advancing", "patching"}
      PROVE  /\ SessionsOK' /\ Alone(c)
             /\ session'[c].pc = next /\ session'[c].run = run(c)
  <2>1. SessionsOK' /\ Alone(c) /\ session'[c] = [session[c] EXCEPT !.pc = next]
    BY <1>1, GotoMoves DEF PC
  <2> QED
    BY <1>t, <2>1 DEF SessionType, run
<1>2. CASE ReconcileRead(c)
  <2>1. pc(c) = "advancing" /\ (Goto(c, "appending") \/ Decided(c, Decision(run(c))))
    BY <1>2 DEF ReconcileRead
  <2> QED
    BY <1>1, <2>1, DecidedMoves
<1>3. CASE ReconcileAppend(c)
  <2>1. pc(c) = "appending"
    BY <1>3 DEF ReconcileAppend
  <2>2. CASE Decided(c, Decision(run(c)))
    BY <2>1, <2>2, DecidedMoves
  <2>3. CASE Raise(c)
    BY <2>3, RaiseMoves
  <2>4. CASE /\ ~ OutOfTries(c)
             /\ session' = [session EXCEPT ![c].pc = "advancing", ![c].tries = @ + 1]
    <3> DEFINE s == [session[c] EXCEPT !.pc = "advancing", !.tries = @ + 1]
    <3>1. session[c].tries + 1 \in 0..(MaxTries - 1)
      BY <1>t, <2>4, RuntimeAssumption DEF SessionType, OutOfTries
    <3>2. s \in SessionType /\ s.pc = "advancing" /\ s.run = run(c)
      BY <1>t, <3>1 DEF SessionType, PC, run
    <3>3. session' = [session EXCEPT ![c] = s]
      BY <2>4
    <3>4. run(c) \in Runs
      BY <1>t, <2>1 DEF WellPlaced, run, pc
    <3> HIDE DEF s
    <3>5. WellPlaced(c, s)
      BY <3>2, <3>4 DEF WellPlaced
    <3> QED
      BY <2>1, <3>2, <3>3, <3>5, Moved
  <2> QED
    BY <1>3, <2>2, <2>3, <2>4 DEF ReconcileAppend
<1>4. CASE Replan(c)
  <2>1. pc(c) = "replanning" /\ run(c) \in Runs
    BY <1>4, <1>t DEF Replan, WellPlaced, pc, run
  <2>2. CASE Raise(c)
    BY <2>2, RaiseMoves
  <2> DEFINE r == run(c)
             obsolete == ObsoleteItems(PlanItems(r), work_item_statuses, FailedOrBlocked(r))
             s == [session[c] EXCEPT !.pc = "patching", !.base = current_plan_revision[r],
                                     !.obsolete = obsolete]
  <2>3. CASE session' = [session EXCEPT ![c].pc = "patching",
                                        ![c].base = current_plan_revision[r],
                                        ![c].obsolete = obsolete]
    <3>1. obsolete \in SUBSET Items
      BY DEF ObsoleteItems, PlanItems
    <3>2. current_plan_revision[r] \in 0..MaxRevision
      BY <2>1 DEF Inv, TypeOK, AggregateTypeOK
    <3> HIDE DEF obsolete
    <3>3. s \in SessionType /\ s.pc = "patching" /\ s.run = r
      BY <1>t, <3>1, <3>2 DEF SessionType, PC, run
    <3>4. session' = [session EXCEPT ![c] = s]
      BY <2>3
    <3> HIDE DEF s
    <3>5. WellPlaced(c, s)
      BY <2>1, <3>3 DEF WellPlaced
    <3> QED
      BY <1>4, <3>3, <3>4, <3>5, Moved
  <2> QED
    BY <1>4, <2>2, <2>3 DEF Replan
<1>5. CASE Patch(c)
  BY <1>5, <1>1 DEF Patch
<1>6. CASE CommitPatch(c)
  <2>1. pc(c) = "committing" /\ run(c) \in Runs
    BY <1>6, <1>t DEF CommitPatch, WellPlaced, pc, run
  <2>2. Advance(c, run(c)) \/ Raise(c)
    BY <1>6 DEF CommitPatch
  <2> QED
    BY <2>1, <2>2, AdvanceMoves, RaiseMoves
<1> QED
  BY <1>2, <1>3, <1>4, <1>5, <1>6 DEF AdvanceStep

\* The request that creates a run advances it when it has committed a plan.
LEMMA CreatorMoves ==
  ASSUME SessionsOK, (\E r \in Runs : CreateRun(r)) \/ PlanRun
  PROVE  /\ SessionsOK' /\ Alone(Creator)
         /\ session'[Creator].pc \in {"idle", "dead", "planning", "advancing"}
         /\ session'[Creator].pc = "advancing" =>
               commit_plan(run(Creator)) /\ session'[Creator].run = run(Creator)
<1> Creator \in Clients
  BY DEF Clients
<1>1. ASSUME NEW r \in Runs, CreateRun(r)
      PROVE  SessionsOK' /\ Alone(Creator) /\ session'[Creator].pc = "planning"
  <2> DEFINE s == [NoSession EXCEPT !.pc = "planning", !.run = r]
  <2>1. s \in SessionType /\ s.pc = "planning" /\ s.run = r
    BY NoSessionType DEF SessionType, PC
  <2>2. session' = [session EXCEPT ![Creator] = s]
    BY <1>1 DEF CreateRun
  <2> HIDE DEF s
  <2>3. WellPlaced(Creator, s)
    BY <2>1 DEF WellPlaced, AttemptPC
  <2> QED
    BY <2>1, <2>2, <2>3, Moved
<1>2. CASE PlanRun
  <2>1. run(Creator) \in Runs
    BY <1>2 DEF PlanRun, SessionsOK, WellPlaced, pc, run
  <2>2. \/ Raise(Creator)
        \/ commit_plan(run(Creator)) /\ Advance(Creator, run(Creator))
    BY <1>2 DEF PlanRun
  <2> QED
    BY <2>1, <2>2, RaiseMoves, AdvanceMoves
<1> QED
  BY <1>1, <1>2

\* The other requests advance a run at most.
LEMMA OperatorMoves ==
  ASSUME SessionsOK, ResumeAppend \/ \E r \in Runs : RequestStep(r)
  PROVE  /\ SessionsOK' /\ Alone(Operator)
         /\ session'[Operator].pc \in {"idle", "dead", "resuming", "advancing"}
<1> Operator \in Clients
  BY DEF Clients
<1>1. CASE ResumeAppend
  <2>1. run(Operator) \in Runs
    BY <1>1 DEF ResumeAppend, SessionsOK, WellPlaced, pc, run
  <2>2. Raise(Operator) \/ Advance(Operator, run(Operator))
    BY <1>1 DEF ResumeAppend
  <2> QED
    BY <2>1, <2>2, RaiseMoves, AdvanceMoves
<1>2. ASSUME NEW r \in Runs, RequestStep(r)
      PROVE  /\ SessionsOK' /\ Alone(Operator)
             /\ session'[Operator].pc \in {"idle", "dead", "resuming", "advancing"}
  <2>1. pc(Operator) = "idle"
    BY <1>2 DEF RequestStep, PauseRun, ResumeRun, DecideApproval, CancelRun
  <2>2. CASE UNCHANGED session
    BY <2>1, <2>2, StayMoves DEF pc
  <2>3. CASE Advance(Operator, r)
    BY <2>3, AdvanceMoves
  <2>4. CASE ResumeRun(r)
    <3> DEFINE s == [NoSession EXCEPT !.pc = "resuming", !.run = r]
    <3>1. s \in SessionType /\ s.pc = "resuming" /\ s.run = r
      BY NoSessionType DEF SessionType, PC
    <3>2. session' = [session EXCEPT ![Operator] = s]
      BY <2>4 DEF ResumeRun
    <3> HIDE DEF s
    <3>3. WellPlaced(Operator, s)
      BY <3>1 DEF WellPlaced, AttemptPC
    <3> QED
      BY <3>1, <3>2, <3>3, Moved
  <2> QED
    BY <1>2, <2>2, <2>3, <2>4 DEF RequestStep, PauseRun, DecideApproval, CancelRun
<1> QED
  BY <1>1, <1>2

LEMMA SessionStep ==
  ASSUME SessionsOK, Inv, Inv', [RuntimeNext]_runtime_vars
  PROVE  SessionsOK'
<1>1. CASE UNCHANGED runtime_vars
  BY <1>1, StayMoves DEF runtime_vars
<1>2. CASE \E c \in Clients : Crash(c)
  BY <1>2, RaiseMoves DEF Crash
<1>3. CASE \E i \in Items : LeaseExpires(i)
  BY <1>3, StayMoves DEF LeaseExpires
<1> QED
  BY <1>1, <1>2, <1>3, WorkerMoves, AdvancingMoves, CreatorMoves, OperatorMoves
     DEF RuntimeNext, ApiStep

-----------------------------------------------------------------------------
(* Transactions.                                                           *)

\* What the controller does apart from replanning.
PlainStep ==
    \/ \E r \in Runs :
          \/ create_run(r)
          \/ commit_plan(r)
          \/ reconcile(r)
          \/ \E i \in Items, approved \in BOOLEAN : decide_approval(r, i, approved)
          \/ \E status \in {"paused", "running"} : change_status(r, status)
          \/ cancel(r)
    \/ \E i \in Items, n \in AttemptIds : AttemptStep(i, n)
    \/ LeaseStep

\* A worker that has an attempt has the item and the number of one.
LEMMA AttemptIsKnown ==
  ASSUME SessionsOK, NEW w \in Workers, pc(w) \in AttemptPC
  PROVE  item(w) \in Items /\ attempt(w) \in AttemptIds /\ run(w) = RunOf[item(w)]
BY DEF SessionsOK, WellPlaced, Clients, pc, item, attempt, run

\* complete_attempt, of an open or of a cancelled attempt, or nothing.
LEMMA CloseTransacts ==
  ASSUME SessionsOK, NEW w \in Workers, pc(w) \in AttemptPC,
         NEW succeeded \in BOOLEAN, NEW retryable \in BOOLEAN, NEW refused,
         Close(w, succeeded, retryable, refused)
  PROVE  PlainStep \/ UNCHANGED repository_vars
<1>1. item(w) \in Items /\ attempt(w) \in AttemptIds
  BY AttemptIsKnown
<1>2. \/ complete_attempt(item(w), attempt(w), succeeded, retryable)
      \/ complete_cancelled_attempt(item(w), attempt(w))
      \/ UNCHANGED repository_vars
  BY DEF Close
<1>3. ASSUME complete_attempt(item(w), attempt(w), succeeded, retryable)
             \/ complete_cancelled_attempt(item(w), attempt(w))
      PROVE  AttemptStep(item(w), attempt(w))
  BY <1>3 DEF AttemptStep
<1> QED
  BY <1>1, <1>2, <1>3 DEF PlainStep

LEMMA WorkerTransacts ==
  ASSUME SessionsOK, Inv, NEW w \in Workers, WorkerStep(w) \/ Heartbeat(w) \/ Restart(w)
  PROVE  PlainStep \/ UNCHANGED repository_vars
<1> USE DEF AttemptPC
<1>1. CASE ReleaseLeases(w)
  <2>1. PICK S \in SUBSET ExpiredItems : release_expired_leases(S)
    BY <1>1 DEF ReleaseLeases
  <2>2. S \in SUBSET Items
    BY DEF ExpiredItems, ActiveItems
  <2> QED
    BY <2>1, <2>2 DEF PlainStep, LeaseStep
<1>2. CASE Claim(w)
  BY <1>2 DEF Claim, PlainStep, LeaseStep
<1>3. CASE Start(w)
  <2>1. item(w) \in Items /\ attempt(w) \in AttemptIds
    BY <1>3, AttemptIsKnown DEF Start
  <2>2. start_attempt(item(w), attempt(w)) \/ UNCHANGED repository_vars
    BY <1>3 DEF Start
  <2> QED
    BY <2>1, <2>2 DEF PlainStep, AttemptStep
<1>4. CASE Checkpoint(w)
  <2> DEFINE i == item(w)
             n == attempt(w)
             seq == checkpoint_sequence[i][n] + 1
  <2>1. i \in Items /\ n \in AttemptIds
    BY <1>4, AttemptIsKnown DEF Checkpoint
  <2>2. checkpoint_sequence[i][n] \in 0..MaxSequence
    BY <2>1 DEF Inv, TypeOK, TablesTypeOK
  <2>3. seq \in 1..MaxSequence
    BY <1>4, <2>2, RepositoryAssumption DEF Checkpoint
  <2>4. commit_checkpoint(i, n, seq) \/ UNCHANGED repository_vars
    BY <1>4 DEF Checkpoint
  <2> HIDE DEF i, n, seq
  <2> QED
    BY <2>1, <2>3, <2>4 DEF PlainStep, AttemptStep
<1>5. CASE Complete(w)
  BY <1>5, CloseTransacts DEF Complete
<1>6. CASE Fail(w)
  BY <1>6, CloseTransacts DEF Fail
<1>7. CASE Heartbeat(w)
  <2>1. item(w) \in Items /\ attempt(w) \in AttemptIds
    BY <1>7, AttemptIsKnown DEF Heartbeat
  <2> QED
    BY <1>7, <2>1 DEF Heartbeat, PlainStep, AttemptStep
<1>8. CASE Work(w) \/ Report(w) \/ Restart(w)
  BY <1>8 DEF Work, Report, Restart
<1> QED
  BY <1>1, <1>2, <1>3, <1>4, <1>5, <1>6, <1>7, <1>8 DEF WorkerStep

\* The patch that is committed was built from failures of the same revision.
LEMMA PatchTransacts ==
  ASSUME RuntimeInv, NEW c \in Clients, CommitPatch(c)
  PROVE  \/ run(c) \in Runs /\ replan_from_evidence(run(c))
         \/ UNCHANGED repository_vars
<1>1. CASE ~ Committable(c)
  BY <1>1 DEF CommitPatch
<1>2. CASE Committable(c)
  <2> DEFINE r == run(c)
             obsolete == session[c].obsolete
  <2>1. pc(c) = "committing" /\ r \in Runs
    BY <1>2 DEF CommitPatch, RuntimeInv, SessionsOK, WellPlaced, AttemptPC, pc, run
  <2>2. CalledFor(work_item_statuses, r, obsolete)
    BY <1>2, <2>1 DEF Committable, RuntimeInv, PatchIsEvidence
  <2>3. apply_patch(r, obsolete)
    BY <1>2 DEF CommitPatch
  <2>4. replan_from_evidence(r)
    BY <2>2, <2>3 DEF CalledFor, replan_from_evidence, FailedOrBlocked, PlanItems
  <2> QED
    BY <2>1, <2>4
<1> QED
  BY <1>1, <1>2

\* Every step is a transaction of the controller or changes no row; only
\* CommitPatch replans.
LEMMA StepTransacts ==
  ASSUME RuntimeInv, [RuntimeNext]_runtime_vars
  PROVE  \/ PlainStep
         \/ UNCHANGED repository_vars
         \/ \E c \in Clients : /\ CommitPatch(c) /\ pc(c) = "committing"
                               /\ run(c) \in Runs /\ replan_from_evidence(run(c))
<1> USE DEF RuntimeInv
<1>1. CASE UNCHANGED runtime_vars
  BY <1>1 DEF runtime_vars
<1>2. ASSUME NEW c \in Clients, AdvanceStep(c)
      PROVE  \/ PlainStep
             \/ UNCHANGED repository_vars
             \/ /\ CommitPatch(c) /\ pc(c) = "committing"
                /\ run(c) \in Runs /\ replan_from_evidence(run(c))
  <2>1. CASE ReconcileAppend(c)
    <3>1. run(c) \in Runs
      BY <2>1 DEF ReconcileAppend, SessionsOK, WellPlaced, pc, run
    <3> QED
      BY <2>1, <3>1 DEF ReconcileAppend, PlainStep
  <2>2. CASE CommitPatch(c)
    <3>1. pc(c) = "committing"
      BY <2>2 DEF CommitPatch
    <3> QED
      BY <2>2, <3>1, PatchTransacts
  <2>3. CASE ReconcileRead(c) \/ Replan(c) \/ Patch(c)
    BY <2>3 DEF ReconcileRead, Replan, Patch
  <2> QED
    BY <1>2, <2>1, <2>2, <2>3 DEF AdvanceStep
<1>3. CASE ApiStep
  <2>1. ASSUME NEW r \in Runs, CreateRun(r) PROVE PlainStep \/ UNCHANGED repository_vars
    BY <2>1 DEF CreateRun, PlainStep
  <2>2. CASE PlanRun
    <3>1. run(Creator) \in Runs
      BY <2>2 DEF PlanRun, SessionsOK, WellPlaced, Clients, pc, run
    <3> QED
      BY <2>2, <3>1 DEF PlanRun, PlainStep
  <2>3. CASE ResumeAppend
    <3>1. run(Operator) \in Runs
      BY <2>3 DEF ResumeAppend, SessionsOK, WellPlaced, Clients, pc, run
    <3>2. change_status(run(Operator), "running") \/ UNCHANGED repository_vars
      BY <2>3 DEF ResumeAppend
    <3> QED
      BY <3>1, <3>2 DEF PlainStep
  <2> QED
    BY <1>3, <2>1, <2>2, <2>3 DEF ApiStep
<1>4. ASSUME NEW r \in Runs, RequestStep(r) PROVE PlainStep \/ UNCHANGED repository_vars
  BY <1>4 DEF RequestStep, PauseRun, ResumeRun, DecideApproval, CancelRun, PlainStep
<1>5. CASE \E c \in Clients : Crash(c)
  BY <1>5 DEF Crash
<1>6. CASE \E i \in Items : LeaseExpires(i)
  BY <1>6 DEF LeaseExpires, PlainStep, LeaseStep
<1> QED
  BY <1>1, <1>2, <1>3, <1>4, <1>5, <1>6, WorkerTransacts DEF RuntimeNext

LEMMA StepRefines ==
  ASSUME RuntimeInv, [RuntimeNext]_runtime_vars
  PROVE  [Next]_repository_vars
<1>1. ASSUME PlainStep PROVE Next
  BY <1>1 DEF PlainStep, Next, ControllerStep
<1>2. ASSUME NEW r \in Runs, replan_from_evidence(r) PROVE Next
  BY <1>2 DEF Next, ControllerStep
<1> QED
  BY <1>1, <1>2, StepTransacts

-----------------------------------------------------------------------------
(* Evidence.                                                               *)

\* The loop of EvidenceRecoveryPlanner.replan computes a set that it would not
\* extend, and the least one.
LEMMA ObsoleteIsClosed ==
  ASSUME NEW plan, NEW statuses, NEW seen \in SUBSET plan
  PROVE  /\ ObsoleteItems(plan, statuses, seen) \in SUBSET plan
         /\ ObsoleteClosed(ObsoleteItems(plan, statuses, seen), plan, statuses, seen)
         /\ \A S \in SUBSET plan :
               ObsoleteClosed(S, plan, statuses, seen) => ObsoleteItems(plan, statuses, seen) \subseteq S
<1> DEFINE O == ObsoleteItems(plan, statuses, seen)
<1>1. /\ O \in SUBSET plan
      /\ \A S \in SUBSET plan : ObsoleteClosed(S, plan, statuses, seen) => O \subseteq S
  BY DEF ObsoleteItems
<1>2. seen \subseteq O
  BY DEF ObsoleteItems, ObsoleteClosed
<1>3. ASSUME NEW i \in plan, dependencies[i] \cap O # {}, statuses[i] # "succeeded"
      PROVE  i \in O
  <2>1. ASSUME NEW S \in SUBSET plan, ObsoleteClosed(S, plan, statuses, seen) PROVE i \in S
    <3>1. dependencies[i] \cap S # {}
      BY <1>1, <1>3, <2>1
    <3> QED
      BY <1>3, <2>1, <3>1 DEF ObsoleteClosed
  <2> QED
    BY <2>1 DEF ObsoleteItems
<1> QED
  BY <1>1, <1>2, <1>3 DEF ObsoleteClosed

\* An obsolete item has not succeeded.
LEMMA ObsoleteIsUnfinished ==
  ASSUME NEW plan, NEW statuses, NEW seen \in SUBSET plan,
         \A i \in seen : statuses[i] # "succeeded",
         NEW i \in ObsoleteItems(plan, statuses, seen)
  PROVE  statuses[i] # "succeeded"
<1> DEFINE S == {j \in plan : statuses[j] # "succeeded"}
<1>1. S \in SUBSET plan /\ ObsoleteClosed(S, plan, statuses, seen)
  BY DEF ObsoleteClosed
<1> QED
  BY <1>1 DEF ObsoleteItems

\* Items that succeed in the meantime, after their dependencies, change nothing
\* in what the loop computes: it never reaches them.
LEMMA ObsoleteStays ==
  ASSUME NEW plan \in SUBSET Items, NEW before, NEW after, NEW seen \in SUBSET plan,
         \A i \in seen : after[i] # "succeeded",
         \A i \in plan : before[i] = "succeeded" => after[i] = "succeeded",
         \A i \in plan : after[i] = "succeeded" =>
            \A d \in dependencies[i] : after[d] = "succeeded"
  PROVE  ObsoleteItems(plan, after, seen) = ObsoleteItems(plan, before, seen)
<1> DEFINE B == ObsoleteItems(plan, before, seen)
           A == ObsoleteItems(plan, after, seen)
<1>1. /\ B \in SUBSET plan /\ ObsoleteClosed(B, plan, before, seen)
      /\ \A S \in SUBSET plan : ObsoleteClosed(S, plan, before, seen) => B \subseteq S
  BY ObsoleteIsClosed
<1>2. /\ A \in SUBSET plan /\ ObsoleteClosed(A, plan, after, seen)
      /\ \A S \in SUBSET plan : ObsoleteClosed(S, plan, after, seen) => A \subseteq S
  BY ObsoleteIsClosed
<1>3. \A i \in A : after[i] # "succeeded"
  BY ObsoleteIsUnfinished
<1> HIDE DEF A, B
<1>4. ObsoleteClosed(B, plan, after, seen)
  BY <1>1 DEF ObsoleteClosed
<1>5. ObsoleteClosed(A, plan, before, seen)
  <2>1. ASSUME NEW i \in plan, dependencies[i] \cap A # {}, before[i] # "succeeded"
        PROVE  i \in A
    <3>1. after[i] # "succeeded"
      BY <1>3, <2>1
    <3> QED
      BY <1>2, <2>1, <3>1 DEF ObsoleteClosed
  <2> QED
    BY <1>2, <2>1 DEF ObsoleteClosed
<1>6. A \subseteq B /\ B \subseteq A
  BY <1>1, <1>2, <1>4, <1>5
<1> QED
  BY <1>6 DEF A, B

\* A revision is the next one or the same, and a plan changes with it only.
LEMMA RevisionStep ==
  ASSUME Inv, [Next]_repository_vars, NEW r \in Runs
  PROVE  \/ current_plan_revision'[r] = current_plan_revision[r]
         \/ current_plan_revision'[r] = current_plan_revision[r] + 1
<1>t. AggregateTypeOK
  BY DEF Inv, TypeOK
<1>1. ASSUME ControllerStep(r)
      PROVE  \/ current_plan_revision'[r] = current_plan_revision[r]
             \/ current_plan_revision'[r] = current_plan_revision[r] + 1
  BY <1>1, <1>t DEF AggregateTypeOK, ControllerStep, create_run, commit_plan,
     replan_from_evidence, apply_patch, CommitPlan, reconcile, decide_approval, change_status, cancel
<1> QED
  BY <1>1, OtherRunsStay, WorkersLeaveRuns DEF Next, repository_vars, aggregate_vars

\* While the plan stays and the run has not ended, items neither enter nor leave
\* it, and failed or blocked ones stay so.
LEMMA FailureStays ==
  ASSUME Inv, [Next]_repository_vars, NEW i \in Items,
         current_plan_revision'[RunOf[i]] = current_plan_revision[RunOf[i]],
         run_status'[RunOf[i]] \notin TERMINAL_RUN_STATUSES
  PROVE  /\ work_item_statuses'[i] = "absent" <=> work_item_statuses[i] = "absent"
         /\ work_item_statuses[i] \in {"failed", "blocked"} =>
               work_item_statuses'[i] = work_item_statuses[i]
<1> DEFINE Goal == /\ work_item_statuses'[i] = "absent" <=> work_item_statuses[i] = "absent"
                   /\ work_item_statuses[i] \in {"failed", "blocked"} =>
                         work_item_statuses'[i] = work_item_statuses[i]
<1>t. AggregateTypeOK /\ TablesTypeOK /\ ProjectionAgrees
  BY DEF Inv, TypeOK
<1>1. ASSUME NEW r \in Runs, ControllerStep(r) PROVE Goal
  <2>1. CASE reconcile(r)
    <3>1. i \in NewlyBlocked(r) \cup NewlyReady(r) =>
             work_item_statuses[i] \in {"pending", "ready"}
      BY DEF NewlyBlocked, Blocked, blocked_work_item_ids, NewlyReady, Schedulable, Ready,
             ready_work_item_ids
    <3>2. work_item_statuses'[i] =
             IF i \in NewlyBlocked(r) THEN "blocked"
             ELSE IF i \in NewlyReady(r) THEN "ready" ELSE work_item_statuses[i]
      BY <2>1 DEF reconcile, DecidedItem
    <3> QED
      BY <3>1, <3>2
  <2>2. ASSUME NEW plan, CommitPlan(r, plan) PROVE Goal
    <3>1. RunOf[i] # r
      BY <1>t, <2>2, ItemAssumption DEF CommitPlan, AggregateTypeOK
    <3> QED
      BY <2>2, <3>1 DEF CommitPlan
  <2>3. CASE commit_plan(r) \/ replan_from_evidence(r)
    BY <2>2, <2>3 DEF commit_plan, replan_from_evidence, apply_patch
  <2>4. CASE cancel(r)
    <3>1. run_status'[r] = "cancelled"
      BY <1>t, <2>4 DEF cancel, AggregateTypeOK
    <3>2. RunOf[i] # r
      BY <3>1 DEF TERMINAL_RUN_STATUSES
    <3>3. i \notin CancelledItems(r)
      BY <3>2 DEF CancelledItems, PlanItems
    <3> QED
      BY <2>4, <3>3 DEF cancel
  <2>5. CASE \/ create_run(r)
             \/ \E j \in Items, approved \in BOOLEAN : decide_approval(r, j, approved)
             \/ \E status \in {"paused", "running"} : change_status(r, status)
    BY <2>5 DEF create_run, decide_approval, change_status
  <2> QED
    BY <1>1, <2>1, <2>3, <2>4, <2>5 DEF ControllerStep
<1>2. ASSUME NEW j \in Items, item_status[j] \in ActiveStatus \cup {"ready"},
             NEW s \in ActiveStatus \cup {"ready", "succeeded", "failed"},
             WorkMay(work_item_statuses[j], s),
             work_item_statuses' = [work_item_statuses EXCEPT ![j] = s]
      PROVE  Goal
  <2>1. work_item_statuses[j] = item_status[j]
    BY <1>t, <1>2 DEF WorkMay, ProjectionAgrees
  <2> QED
    BY <1>t, <1>2, <2>1 DEF AggregateTypeOK, ActiveStatus
<1>3. ASSUME NEW j \in Items, NEW n \in AttemptIds, AttemptStep(j, n) PROVE Goal
  <2>1. CASE start_attempt(j, n)
    <3>1. item_status[j] \in ActiveStatus
      BY <2>1, OpenAttempt DEF start_attempt, CanStart, ActiveStatus
    <3>2. StartedStatus(j) \in ActiveStatus
      BY DEF StartedStatus, ActiveStatus
    <3> QED
      BY <1>2, <2>1, <3>1, <3>2 DEF start_attempt, CanStart
  <2>2. CASE \E succeeded, retryable \in BOOLEAN : complete_attempt(j, n, succeeded, retryable)
    <3>1. item_status[j] \in ActiveStatus
      BY <2>2 DEF complete_attempt, CanComplete, Inv, Fencing, CurrentAttemptIsOpen, AttemptIds
    <3> QED
      BY <1>2, <2>2, <3>1 DEF complete_attempt, CanComplete, CompletionTarget, RetryStatus
  <2>3. CASE \/ renew_lease(j, n)
             \/ \E seq \in 1..MaxSequence : commit_checkpoint(j, n, seq)
             \/ complete_cancelled_attempt(j, n)
    BY <2>3 DEF renew_lease, commit_checkpoint, complete_cancelled_attempt, aggregate_vars
  <2> QED
    BY <1>3, <2>1, <2>2, <2>3 DEF AttemptStep
<1>4. CASE LeaseStep
  <2>1. CASE \E w \in Workers, j \in Items : claim_work(w, j)
    BY <1>2, <2>1 DEF claim_work, CanClaim, ActiveStatus
  <2>2. CASE \E j \in Items : ExpireLease(j)
    BY <2>2 DEF ExpireLease, aggregate_vars
  <2>3. ASSUME NEW S \in SUBSET Items, release_expired_leases(S) PROVE Goal
    <3>1. i \in S => /\ work_item_statuses[i] \in ActiveStatus
                     /\ RetryStatus(i, TRUE) # "absent"
      BY <1>t, <2>3 DEF release_expired_leases, CanRelease, ExpiredItems, ActiveItems, WorkMay,
         ProjectionAgrees, RetryStatus
    <3>2. work_item_statuses'[i] = IF i \in S THEN RetryStatus(i, TRUE) ELSE work_item_statuses[i]
      BY <2>3 DEF release_expired_leases
    <3> QED
      BY <3>1, <3>2 DEF ActiveStatus
  <2> QED
    BY <1>4, <2>1, <2>2, <2>3 DEF LeaseStep
<1>5. CASE UNCHANGED repository_vars
  BY <1>5 DEF repository_vars, aggregate_vars
<1> QED
  BY <1>1, <1>3, <1>4, <1>5 DEF Next

\* What calls for a patch is not lost while the plan stays and the run goes on.
LEMMA EvidenceStays ==
  ASSUME Inv, Inv', [Next]_repository_vars, NEW r \in Runs, NEW obsolete,
         CalledFor(work_item_statuses, r, obsolete),
         current_plan_revision'[r] = current_plan_revision[r],
         run_status'[r] \notin TERMINAL_RUN_STATUSES
  PROVE  CalledFor(work_item_statuses', r, obsolete)
<1> DEFINE Plan(statuses) == {i \in Items : RunOf[i] = r /\ statuses[i] # "absent"}
           plan == Plan(work_item_statuses)
<1>1. PICK seen \in (SUBSET {i \in plan : work_item_statuses[i] \in {"failed", "blocked"}}) \ {{}} :
         obsolete = ObsoleteItems(plan, work_item_statuses, seen)
  BY DEF CalledFor
<1>2. Plan(work_item_statuses') = plan
  BY FailureStays
<1>3. seen \in (SUBSET {i \in plan : work_item_statuses'[i] \in {"failed", "blocked"}}) \ {{}}
  BY <1>1, FailureStays
<1>4. seen \in SUBSET plan /\ \A i \in seen : work_item_statuses'[i] # "succeeded"
  BY <1>3
<1>5. plan \in SUBSET Items
  OBVIOUS
<1>6. \A i \in plan : work_item_statuses[i] = "succeeded" => work_item_statuses'[i] = "succeeded"
  BY <1>5, SuccessStep
<1>7. \A i \in plan : work_item_statuses'[i] = "succeeded" =>
         \A d \in dependencies[i] : work_item_statuses'[d] = "succeeded"
  BY <1>5 DEF Inv, DependencyOrder
<1> HIDE DEF plan
<1>8. ObsoleteItems(plan, work_item_statuses', seen) = ObsoleteItems(plan, work_item_statuses, seen)
  BY <1>4, <1>5, <1>6, <1>7, ObsoleteStays
<1> QED
  BY <1>1, <1>2, <1>3, <1>8 DEF CalledFor

\* A planner that has just built its patch.
LEMMA ReplanEvidence ==
  ASSUME Inv, SessionsOK, NEW c \in Clients, Replan(c), session'[c].pc = "patching"
  PROVE  /\ UNCHANGED repository_vars
         /\ run(c) \in Runs /\ session'[c].run = run(c)
         /\ session'[c].base = current_plan_revision[run(c)]
         /\ CalledFor(work_item_statuses, run(c), session'[c].obsolete)
<1> DEFINE r == run(c)
           obsolete == ObsoleteItems(PlanItems(r), work_item_statuses, FailedOrBlocked(r))
<1>t. session \in [Clients -> SessionType] /\ session[c] \in SessionType
      /\ WellPlaced(c, session[c])
  BY DEF SessionsOK
<1>1. UNCHANGED repository_vars /\ r \in Runs
  BY <1>t DEF Replan, WellPlaced, AttemptPC, pc, run
<1>2. ~ Raise(c)
  BY RaiseMoves
<1>3. /\ FailedOrBlocked(r) # {}
      /\ session' = [session EXCEPT ![c].pc = "patching",
                                    ![c].base = current_plan_revision[r],
                                    ![c].obsolete = obsolete]
  BY <1>2 DEF Replan
<1> HIDE DEF obsolete
<1>4. session'[c].base = current_plan_revision[r] /\ session'[c].obsolete = obsolete
      /\ session'[c].run = session[c].run
  BY <1>3, <1>t DEF SessionType
<1>5. CalledFor(work_item_statuses, r, obsolete)
  <2>1. FailedOrBlocked(r) \in (SUBSET FailedOrBlocked(r)) \ {{}}
    BY <1>3
  <2>2. \E seen \in (SUBSET FailedOrBlocked(r)) \ {{}} :
           obsolete = ObsoleteItems(PlanItems(r), work_item_statuses, seen)
    BY <2>1 DEF obsolete
  <2> HIDE DEF r
  <2> QED
    BY <2>2 DEF CalledFor, FailedOrBlocked, PlanItems
<1> QED
  BY <1>1, <1>4, <1>5 DEF run

\* apply_patch takes the patch over.
LEMMA PatchEvidence ==
  ASSUME Inv, SessionsOK, PatchIsEvidence, NEW c \in Clients, Patch(c)
  PROVE  /\ UNCHANGED repository_vars
         /\ pc(c) = "patching"
         /\ session'[c].run = run(c)
         /\ session'[c].base = session[c].base
         /\ session'[c].obsolete = session[c].obsolete
<1>1. session[c] \in SessionType
  BY DEF SessionsOK
<1>2. session'[c] = [session[c] EXCEPT !.pc = "committing"]
  BY DEF Patch, Goto, SessionsOK
<1> QED
  BY <1>1, <1>2 DEF Patch, SessionType, run

\* A planner's patch while others act.
LEMMA HeldEvidence ==
  ASSUME RuntimeInv, Inv', [Next]_repository_vars, NEW c \in Clients,
         pc(c) \in {"patching", "committing"},
         NEW s, s.run = run(c), s.base = session[c].base, s.obsolete = session[c].obsolete
  PROVE  /\ s.base =< current_plan_revision'[s.run]
         /\ /\ s.base = current_plan_revision'[s.run]
            /\ run_status'[s.run] \notin TERMINAL_RUN_STATUSES
            => CalledFor(work_item_statuses', s.run, s.obsolete)
<1> DEFINE r == run(c)
<1>t. AggregateTypeOK
  BY DEF RuntimeInv, Inv, TypeOK
<1>1. /\ session[c] \in SessionType /\ r \in Runs
      /\ session[c].base =< current_plan_revision[r]
      /\ session[c].base = current_plan_revision[r] /\ run_status[r] \notin TERMINAL_RUN_STATUSES
           => CalledFor(work_item_statuses, r, session[c].obsolete)
  BY DEF RuntimeInv, SessionsOK, PatchIsEvidence, WellPlaced, pc, run
<1>2. session[c].base \in Nat /\ current_plan_revision[r] \in Nat
  BY <1>1, <1>t, RecoveryRequiredAssumption DEF SessionType, AggregateTypeOK
<1>3. \/ current_plan_revision'[r] = current_plan_revision[r]
      \/ current_plan_revision'[r] = current_plan_revision[r] + 1
  BY <1>1, RevisionStep DEF RuntimeInv
<1>r. s.run = r
  OBVIOUS
<1> HIDE DEF r
<1>4. s.base =< current_plan_revision'[r]
  BY <1>1, <1>2, <1>3
<1>5. ASSUME s.base = current_plan_revision'[r], run_status'[r] \notin TERMINAL_RUN_STATUSES
      PROVE  CalledFor(work_item_statuses', r, s.obsolete)
  <2>1. /\ session[c].base = current_plan_revision[r]
        /\ current_plan_revision'[r] = current_plan_revision[r]
    BY <1>1, <1>2, <1>3, <1>5
  <2>2. run_status[r] \notin TERMINAL_RUN_STATUSES
    BY <1>1, <1>5, TerminalStep DEF RuntimeInv
  <2> QED
    BY <1>1, <1>5, <2>1, <2>2, EvidenceStays DEF RuntimeInv
<1> QED
  BY <1>4, <1>5, <1>r

LEMMA PatchStep ==
  ASSUME RuntimeInv, Inv', SessionsOK', [RuntimeNext]_runtime_vars
  PROVE  PatchIsEvidence'
<1> USE DEF RuntimeInv
<1>1. [Next]_repository_vars
  BY StepRefines
<1> SUFFICES ASSUME NEW c \in Clients, session'[c].pc \in {"patching", "committing"}
             PROVE  /\ session'[c].base =< current_plan_revision'[session'[c].run]
                    /\ /\ session'[c].base = current_plan_revision'[session'[c].run]
                       /\ run_status'[session'[c].run] \notin TERMINAL_RUN_STATUSES
                       => CalledFor(work_item_statuses', session'[c].run, session'[c].obsolete)
  BY DEF PatchIsEvidence, pc, run
<1>2. CASE session'[c] = session[c]
  <2>1. pc(c) \in {"patching", "committing"} /\ session'[c].run = run(c)
    BY <1>2 DEF pc, run
  <2> QED
    BY <1>1, <1>2, <2>1, HeldEvidence
<1>3. CASE Replan(c) /\ session'[c].pc = "patching"
  <2>1. /\ UNCHANGED repository_vars
        /\ run(c) \in Runs /\ session'[c].run = run(c)
        /\ session'[c].base = current_plan_revision[run(c)]
        /\ CalledFor(work_item_statuses, run(c), session'[c].obsolete)
    BY <1>3, ReplanEvidence
  <2>2. current_plan_revision' = current_plan_revision /\ work_item_statuses' = work_item_statuses
    BY <2>1 DEF repository_vars, aggregate_vars
  <2>3. current_plan_revision[run(c)] \in Nat
    BY <2>1, RecoveryRequiredAssumption DEF Inv, TypeOK, AggregateTypeOK
  <2> QED
    BY <2>1, <2>2, <2>3
<1>4. CASE Patch(c)
  BY <1>1, <1>4, PatchEvidence, HeldEvidence
<1>5. \/ session'[c] = session[c]
      \/ Replan(c) /\ session'[c].pc = "patching"
      \/ Patch(c)
  <2> USE DEF Alone, ReplanPC
  <2>1. ASSUME NEW w \in Workers, WorkerStep(w) \/ Heartbeat(w) \/ Restart(w)
        PROVE  session'[c] = session[c]
    BY <2>1, WorkerMoves
  <2>2. ASSUME NEW d \in Clients, AdvanceStep(d)
        PROVE  \/ session'[c] = session[c]
               \/ Replan(c) /\ session'[c].pc = "patching"
               \/ Patch(c)
    BY <2>2, AdvancingMoves
  <2>3. ASSUME NEW d \in Clients, Crash(d) PROVE session'[c] = session[c]
    BY <2>3, RaiseMoves DEF Crash
  <2>4. CASE ApiStep \/ \E r \in Runs : RequestStep(r)
    BY <2>4, CreatorMoves, OperatorMoves DEF ApiStep
  <2>5. CASE (\E i \in Items : LeaseExpires(i)) \/ UNCHANGED runtime_vars
    BY <2>5 DEF LeaseExpires, runtime_vars
  <2> QED
    BY <2>1, <2>2, <2>3, <2>4, <2>5 DEF RuntimeNext
<1> QED
  BY <1>2, <1>3, <1>4, <1>5

LEMMA InitRuntime == RuntimeInit => RuntimeInv
<1> SUFFICES ASSUME RuntimeInit PROVE RuntimeInv
  OBVIOUS
<1>1. Inv
  BY InitInv DEF RuntimeInit, Init
<1>2. session \in [Clients -> SessionType] /\ \A c \in Clients : session[c].pc = "idle"
  BY NoSessionType DEF RuntimeInit
<1>3. SessionsOK
  BY <1>2 DEF SessionsOK, WellPlaced, AttemptPC
<1>4. PatchIsEvidence
  BY <1>2 DEF PatchIsEvidence, pc
<1> QED
  BY <1>1, <1>3, <1>4 DEF RuntimeInv

LEMMA NextRuntime == RuntimeInv /\ [RuntimeNext]_runtime_vars => RuntimeInv'
<1> SUFFICES ASSUME RuntimeInv, [RuntimeNext]_runtime_vars PROVE RuntimeInv'
  OBVIOUS
<1>1. Inv'
  BY StepRefines, NextInv DEF RuntimeInv
<1>2. SessionsOK'
  BY <1>1, SessionStep DEF RuntimeInv
<1>3. PatchIsEvidence'
  BY <1>1, <1>2, PatchStep
<1> QED
  BY <1>1, <1>2, <1>3 DEF RuntimeInv

\* Whatever the processes have read, the store keeps its invariant, each process
\* knows its run and attempt, and a patch is one the failures call for.
THEOREM RuntimeInvHolds == RuntimeSpec => []RuntimeInv
BY InitRuntime, NextRuntime, PTL DEF RuntimeSpec

\* The processes, with stale snapshots, refused appends, crashes and retries,
\* do to the store what DurableController allows.
THEOREM RuntimeImplementsController == RuntimeSpec => ImplementsController
<1>1. RuntimeInit => Init
  BY DEF RuntimeInit, Init
<1>2. RuntimeInv /\ [RuntimeNext]_runtime_vars => [Next]_repository_vars
  BY StepRefines
<1> QED
  BY <1>1, <1>2, RuntimeInvHolds, PTL DEF RuntimeSpec, ImplementsController, Spec

\* So what DurableProofs says of the controller's operations holds of what the
\* processes do: completed runs are verified and done, terminal ones and
\* successes stay, cancelled ones are quiet, idle runs can go on.
THEOREM ProcessesKeepTheirPromises ==
  RuntimeSpec => /\ []CompletedMeansDone /\ CompletesVerified /\ []VerifiedRevisionIsCurrent
                 /\ []DependencyOrder /\ []CancelledIsQuiet
                 /\ TerminalIsFinal /\ SuccessIsFinal /\ CheckpointsAdvance
                 /\ []IdleRunsCanGoOn
BY RuntimeImplementsController, CompletedRunsAreDone, CompletionIsVerified, VerificationIsCurrent,
   DependenciesComeFirst, CancellationIsFinal, FinishedRunsStay, FinishedWorkIsKept,
   CheckpointsNeverGoBack, RunsDoNotStall, PTL DEF ImplementsController

-----------------------------------------------------------------------------
(* Types and stale workers.                                                *)

LEMMA CountersStep ==
  ASSUME RuntimeTypeOK, RuntimeInv, [RuntimeNext]_runtime_vars
  PROVE  fresh' \subseteq Clients /\ crashes' \in 0..MaxCrashes /\ requests' \in 0..MaxRequests
<1> USE RuntimeAssumption DEF RuntimeTypeOK
<1>1. CASE UNCHANGED runtime_vars
  BY <1>1 DEF runtime_vars
<1>2. ASSUME NEW w \in Workers, WorkerStep(w) \/ Heartbeat(w) \/ Restart(w)
      PROVE  fresh' \subseteq Clients /\ UNCHANGED counters
  <2>1. w \in Clients
    BY DEF Clients
  <2>2. CASE ReleaseLeases(w) \/ Claim(w) \/ Start(w) \/ Checkpoint(w)
    BY <2>2 DEF ReleaseLeases, Claim, Start, Checkpoint, Appended
  <2>3. CASE Work(w) \/ Report(w)
    BY <2>1, <2>3 DEF Work, Report, Appended, Read
  <2>4. CASE Complete(w) \/ Fail(w)
    BY <2>4 DEF Complete, Fail, Close, Appended
  <2>5. CASE Heartbeat(w) \/ Restart(w)
    BY <2>5 DEF Heartbeat, Restart
  <2> QED
    BY <1>2, <2>2, <2>3, <2>4, <2>5 DEF WorkerStep
<1>3. ASSUME NEW c \in Clients, AdvanceStep(c) PROVE fresh' \subseteq Clients /\ UNCHANGED counters
  <2>1. CASE ReconcileRead(c) \/ ReconcileAppend(c)
    BY <2>1 DEF ReconcileRead, ReconcileAppend, Appended, Read
  <2>2. CASE Replan(c) \/ Patch(c) \/ CommitPatch(c)
    BY <2>2 DEF Replan, Patch, CommitPatch, Appended, Read
  <2> QED
    BY <1>3, <2>1, <2>2 DEF AdvanceStep
<1>4. CASE ApiStep
  <2>1. fresh' \subseteq Clients
    BY <1>4 DEF ApiStep, CreateRun, PlanRun, ResumeAppend, Appended, Read, Clients
  <2>2. UNCHANGED counters
    BY <1>4 DEF ApiStep, CreateRun, PlanRun, ResumeAppend
  <2> QED
    BY <2>1, <2>2 DEF counters
<1>5. ASSUME NEW r \in Runs, RequestStep(r)
      PROVE  fresh' \subseteq Clients /\ crashes' = crashes /\ requests' \in 0..MaxRequests
  BY <1>5 DEF RequestStep, PauseRun, ResumeRun, DecideApproval, CancelRun, Appended, counters
<1>6. ASSUME NEW c \in Clients, Crash(c)
      PROVE  fresh' \subseteq Clients /\ crashes' \in 0..MaxCrashes /\ requests' = requests
  BY <1>6 DEF Crash
<1>7. CASE \E i \in Items : LeaseExpires(i)
  BY <1>7 DEF LeaseExpires, counters
<1> QED
  BY <1>1, <1>2, <1>3, <1>4, <1>5, <1>6, <1>7 DEF RuntimeNext, counters

\* Every process is at a step of its program, with the attempt, plan revision
\* and number of tries that belong to it.
THEOREM RuntimeTypeCorrect == RuntimeSpec => []RuntimeTypeOK
<1>1. RuntimeInit => RuntimeTypeOK
  <2> SUFFICES ASSUME RuntimeInit PROVE RuntimeTypeOK
    OBVIOUS
  <2>1. session \in [Clients -> SessionType]
    BY InitRuntime DEF RuntimeInv, SessionsOK
  <2> QED
    BY <2>1, RuntimeAssumption DEF RuntimeInit, RuntimeTypeOK, SessionType
<1>2. RuntimeTypeOK /\ RuntimeInv /\ [RuntimeNext]_runtime_vars => RuntimeTypeOK'
  <2> SUFFICES ASSUME RuntimeTypeOK, RuntimeInv, [RuntimeNext]_runtime_vars PROVE RuntimeTypeOK'
    OBVIOUS
  <2>1. session' \in [Clients -> SessionType]
    BY NextRuntime DEF RuntimeInv, SessionsOK
  <2> QED
    BY <2>1, CountersStep DEF RuntimeTypeOK, SessionType
<1> QED
  BY <1>1, <1>2, RuntimeInvHolds, PTL DEF RuntimeSpec

\* A session changes in steps of its own process only.
LEMMA OwnSteps ==
  ASSUME RuntimeInv, Inv', [RuntimeNext]_runtime_vars,
         NEW w \in Workers, pc(w) \in AttemptPC, session'[w] # session[w]
  PROVE  WorkerStep(w) \/ Crash(w)
<1> USE DEF RuntimeInv, Alone, AttemptPC
<1> w \in Clients
  BY DEF Clients
<1>1. ASSUME NEW v \in Workers, WorkerStep(v) \/ Heartbeat(v) \/ Restart(v) PROVE WorkerStep(w)
  <2>1. v = w
    BY <1>1, WorkerMoves
  <2> QED
    BY <1>1, <2>1 DEF Heartbeat, Restart
<1>2. ASSUME NEW c \in Clients, AdvanceStep(c) PROVE FALSE
  <2>1. c = w
    BY <1>2, AdvancingMoves
  <2> QED
    BY <1>2, <2>1 DEF AdvanceStep, ReconcileRead, ReconcileAppend, Replan, Patch, CommitPatch
<1>3. ASSUME NEW c \in Clients, Crash(c) PROVE c = w
  BY <1>3, RaiseMoves DEF Crash
<1>4. ~ ApiStep /\ ~ (\E r \in Runs : RequestStep(r))
  <2>1. ASSUME (\E r \in Runs : CreateRun(r)) \/ PlanRun PROVE FALSE
    <3>1. w = Creator
      BY <2>1, CreatorMoves
    <3> QED
      BY <2>1, <3>1 DEF CreateRun, PlanRun
  <2>2. ASSUME ResumeAppend \/ \E r \in Runs : RequestStep(r) PROVE FALSE
    <3>1. w = Operator
      BY <2>2, OperatorMoves
    <3> QED
      BY <2>2, <3>1 DEF ResumeAppend, RequestStep, PauseRun, ResumeRun, DecideApproval, CancelRun
  <2> QED
    BY <2>1, <2>2 DEF ApiStep
<1>5. ~ (\E i \in Items : LeaseExpires(i)) /\ ~ UNCHANGED runtime_vars
  BY DEF LeaseExpires, runtime_vars
<1> QED
  BY <1>1, <1>2, <1>3, <1>4, <1>5 DEF RuntimeNext

\* An attempt that may start or be completed is open.
LEMMA OnlyOpenAttempts ==
  ASSUME Inv, NEW i \in Items, NEW n \in AttemptIds,
         CanStart(i, n) \/ \E s, t : CanComplete(i, n, s, t)
  PROVE  n = fencing_token[i] /\ item_status[i] \in ActiveStatus
<1>1. CASE CanStart(i, n)
  BY <1>1, OpenAttempt DEF CanStart, ActiveStatus
<1>2. CASE \E s, t : CanComplete(i, n, s, t)
  BY <1>2 DEF CanComplete, Fenced, Inv, Fencing, CurrentAttemptIsOpen, AttemptIds
<1> QED
  BY <1>1, <1>2

\* complete_attempt of an attempt that is not open closes it at most.
LEMMA StaleClose ==
  ASSUME RuntimeInv, NEW w \in Workers, pc(w) \in AttemptPC, ~ HoldsOpenAttempt(w),
         NEW succeeded \in BOOLEAN, NEW retryable \in BOOLEAN, NEW refused,
         Close(w, succeeded, retryable, refused)
  PROVE  UNCHANGED <<item_status, work_item_statuses, verified_revision, checkpoint_sequence,
                     latest_checkpoints>>
<1> USE DEF RuntimeInv
<1>1. item(w) \in Items /\ attempt(w) \in AttemptIds
  BY AttemptIsKnown
<1>2. ~ complete_attempt(item(w), attempt(w), succeeded, retryable)
  BY <1>1, OnlyOpenAttempts DEF complete_attempt, HoldsOpenAttempt
<1>3. \/ complete_cancelled_attempt(item(w), attempt(w))
      \/ UNCHANGED repository_vars
  BY <1>2 DEF Close
<1> QED
  BY <1>3 DEF complete_cancelled_attempt, repository_vars, aggregate_vars, table_vars

\* The next attempt of an item is safe from the one before: what a worker does
\* with an attempt that was released or cancelled, its start and its result,
\* changes neither the item nor the verification of its run.  A checkpoint that
\* is accepted leaves the session as it is: CheckpointsNeverGoBack is about it.
THEOREM StaleWorkersAreHarmless == RuntimeSpec => StaleResultsAreDiscarded
<1> DEFINE kept == <<item_status, work_item_statuses, verified_revision, checkpoint_sequence,
                     latest_checkpoints>>
<1>1. ASSUME RuntimeInv, Inv', [RuntimeNext]_runtime_vars, NEW w \in Workers,
             pc(w) \in {"starting", "working", "completing", "failing"},
             ~ HoldsOpenAttempt(w), session'[w] # session[w]
      PROVE  UNCHANGED kept
  <2> USE DEF AttemptPC, RuntimeInv
  <2>1. item(w) \in Items /\ attempt(w) \in AttemptIds
    BY <1>1, AttemptIsKnown
  <2>2. ASSUME UNCHANGED repository_vars PROVE UNCHANGED kept
    BY <2>2 DEF repository_vars, aggregate_vars, table_vars
  <2>3. CASE Crash(w)
    BY <2>2, <2>3 DEF Crash
  <2>4. CASE Start(w)
    <3>1. ~ start_attempt(item(w), attempt(w))
      BY <1>1, <2>1, OnlyOpenAttempts DEF start_attempt, HoldsOpenAttempt
    <3> QED
      BY <2>2, <2>4, <3>1 DEF Start
  <2>5. CASE Checkpoint(w)
    BY <1>1, <2>2, <2>5 DEF Checkpoint
  <2>6. CASE Complete(w)
    BY <1>1, <2>6, StaleClose DEF Complete
  <2>7. CASE Fail(w)
    BY <1>1, <2>7, StaleClose DEF Fail
  <2>8. CASE Work(w) \/ Report(w)
    BY <2>2, <2>8 DEF Work, Report
  <2>9. ~ ReleaseLeases(w) /\ ~ Claim(w)
    BY <1>1 DEF ReleaseLeases, Claim
  <2>10. WorkerStep(w) \/ Crash(w)
    BY <1>1, OwnSteps
  <2> QED
    BY <2>3, <2>4, <2>5, <2>6, <2>7, <2>8, <2>9, <2>10 DEF WorkerStep
<1>2. RuntimeInv /\ RuntimeInv' /\ [RuntimeNext]_runtime_vars =>
         [\A w \in Workers :
             /\ pc(w) \in {"starting", "working", "completing", "failing"}
             /\ ~HoldsOpenAttempt(w)
             /\ session'[w] # session[w]
             => UNCHANGED kept]_runtime_vars
  BY <1>1 DEF RuntimeInv
<1> QED
  BY <1>2, RuntimeInvHolds, PTL DEF RuntimeSpec, StaleResultsAreDiscarded
-----------------------------------------------------------------------------
(* Approvals.                                                              *)

\* The runs that still have their first plan.
FirstPlan(r) == current_plan_revision[r] < 2

\* Under a first plan a run that waits has a pending approval, and a risky item
\* that was made ready has an approved one.  A patch invalidates approvals but
\* leaves the statuses of runs and items alone, so it breaks both.
GatesOfRun(r) ==
    run_status[r] = "waiting_approval" =>
       /\ current_plan_revision[r] # 0
       /\ FirstPlan(r) => \E i \in Items : RunOf[i] = r /\ approvals[i] = "pending"

GateOfItem(i) ==
    FirstPlan(RunOf[i]) /\ item_status[i] \in ActiveStatus \cup {"ready"} => approvals[i] = "approved"

ApprovalGates ==
    /\ \A r \in Runs : GatesOfRun(r)
    /\ \A i \in requires_approval : GateOfItem(i)

LEMMA ReconcileGates ==
  ASSUME Inv, ApprovalGates, NEW r \in Runs, reconcile(r)
  PROVE  ApprovalGates'
<1> DEFINE first == Min(Unapproved(r))
<1>t. AggregateTypeOK /\ TablesTypeOK /\ ProjectionAgrees
  BY DEF Inv, TypeOK
<1>1. Unapproved(r) \in SUBSET Items /\ Unapproved(r) \in SUBSET Nat
  BY ItemAssumption DEF Unapproved, Ready, ready_work_item_ids, PlanItems
<1>2. run_status[r] \in {"queued", "running"} /\ current_plan_revision[r] # 0
  BY DEF reconcile, AppendsEvents, Deciding
<1>3. /\ run_status' = [run_status EXCEPT ![r] = DecidedStatus(r)]
      /\ current_plan_revision' = current_plan_revision
      /\ item_status' = [i \in Items |-> DecidedItem(r, i, item_status[i])]
      /\ approvals' = IF DecidedStatus(r) = "waiting_approval"
                        THEN [approvals EXCEPT ![first] = "pending"] ELSE approvals
  BY DEF reconcile
<1>4. DecidedStatus(r) = "waiting_approval" => first \in Unapproved(r)
  <2>1. Decision(r) = "wait_approval" => Unapproved(r) # {}
    BY <1>2 DEF Decision
  <2>2. DecidedStatus(r) = "waiting_approval" => Decision(r) = "wait_approval"
    BY DEF DecidedStatus
  <2> QED
    BY <1>1, <2>1, <2>2, LeastNatural
<1>5. \A i \in Unapproved(r) : RunOf[i] = r /\ i \in Items /\ approvals[i] # "approved"
  BY DEF Unapproved, Ready, ready_work_item_ids, PlanItems, NeedsApproval
<1>6. ASSUME NEW i \in Items, approvals[i] = "approved" PROVE approvals'[i] = "approved"
  BY <1>t, <1>3, <1>4, <1>5, <1>6 DEF AggregateTypeOK
<1>7. ASSUME NEW q \in Runs PROVE GatesOfRun(q)'
  <2>1. CASE q = r
    <3>1. ASSUME DecidedStatus(r) = "waiting_approval"
          PROVE  first \in Items /\ RunOf[first] = r /\ approvals'[first] = "pending"
      BY <1>t, <1>3, <1>4, <1>5, <3>1 DEF AggregateTypeOK
    <3>2. run_status'[r] = DecidedStatus(r)
      BY <1>t, <1>3 DEF AggregateTypeOK
    <3> HIDE DEF first
    <3> QED
      BY <1>2, <1>3, <2>1, <3>1, <3>2 DEF GatesOfRun
  <2>2. CASE q # r
    <3>1. run_status'[q] = run_status[q] /\ current_plan_revision'[q] = current_plan_revision[q]
      BY <1>t, <1>3, <2>2 DEF AggregateTypeOK
    <3>2. ASSUME NEW i \in Items, RunOf[i] = q PROVE approvals'[i] = approvals[i]
      BY <1>t, <1>3, <1>4, <1>5, <2>2, <3>2 DEF AggregateTypeOK
    <3> QED
      BY ZenonT(60), <3>1, <3>2 DEF ApprovalGates, GatesOfRun, FirstPlan
  <2> QED
    BY <2>1, <2>2
<1>8. ASSUME NEW i \in requires_approval PROVE GateOfItem(i)'
  <2> i \in Items
    BY ItemAssumption
  <2>1. ASSUME i \in NewlyReady(r) PROVE approvals[i] = "approved"
    <3>1. i \in Schedulable(r)
      BY <2>1 DEF NewlyReady
    <3>2. i \in Ready(r) /\ (Unapproved(r) # {} => i < first)
      BY <3>1 DEF Schedulable
    <3>3. ASSUME i \in Unapproved(r) PROVE FALSE
      <4>1. first \in Nat /\ i \in Nat /\ first =< i
        BY <1>1, <3>3, LeastNatural
      <4> QED
        BY <3>2, <3>3, <4>1
    <3> QED
      BY <3>2, <3>3 DEF Unapproved, NeedsApproval
  <2>2. \/ i \in NewlyReady(r)
        \/ item_status'[i] \in {"blocked", item_status[i]}
    BY <1>3 DEF DecidedItem
  <2>3. ASSUME approvals[i] = "approved" PROVE GateOfItem(i)'
    BY <1>6, <2>3 DEF GateOfItem
  <2>4. CASE item_status'[i] \in {"blocked", item_status[i]}
    <3>1. GateOfItem(i)
      BY DEF ApprovalGates
    <3> QED
      BY <1>3, <1>6, <2>4, <3>1 DEF GateOfItem, FirstPlan, ActiveStatus
  <2> QED
    BY <2>1, <2>2, <2>3, <2>4
<1> QED
  BY <1>7, <1>8 DEF ApprovalGates

\* Workers and the reaper neither decide nor request an approval, and make ready
\* only what was ready before.
LEMMA WorkersKeepGates ==
  ASSUME Inv, ApprovalGates,
         (\E i \in Items, n \in AttemptIds : AttemptStep(i, n)) \/ LeaseStep
  PROVE  ApprovalGates'
<1> DEFINE Opened == ActiveStatus \cup {"ready"}
           Kept == \A i \in Items : item_status'[i] \in Opened => item_status[i] \in Opened
<1>t. TablesTypeOK
  BY DEF Inv, TypeOK
<1>1. UNCHANGED <<run_status, current_plan_revision>>
  BY WorkersLeaveRuns
<1>2. ASSUME NEW j \in Items, NEW n \in AttemptIds, AttemptStep(j, n)
      PROVE  approvals' = approvals /\ Kept
  <2>1. CASE start_attempt(j, n)
    <3>1. item_status[j] \in ActiveStatus
      BY <2>1, OpenAttempt DEF start_attempt, CanStart, ActiveStatus
    <3> QED
      BY <1>t, <2>1, <3>1 DEF start_attempt, TablesTypeOK
  <2>2. CASE \E succeeded, retryable \in BOOLEAN : complete_attempt(j, n, succeeded, retryable)
    <3>1. item_status[j] \in ActiveStatus
      BY <2>2 DEF complete_attempt, CanComplete, Inv, Fencing, CurrentAttemptIsOpen, AttemptIds
    <3> QED
      BY <1>t, <2>2, <3>1 DEF complete_attempt, TablesTypeOK
  <2>3. CASE \/ renew_lease(j, n)
             \/ \E seq \in 1..MaxSequence : commit_checkpoint(j, n, seq)
             \/ complete_cancelled_attempt(j, n)
    BY <2>3 DEF renew_lease, commit_checkpoint, complete_cancelled_attempt, aggregate_vars
  <2> QED
    BY <1>2, <2>1, <2>2, <2>3 DEF AttemptStep
<1>3. ASSUME LeaseStep PROVE approvals' = approvals /\ Kept
  <2>1. CASE \E w \in Workers, j \in Items : claim_work(w, j)
    BY <1>t, <2>1 DEF claim_work, CanClaim, TablesTypeOK
  <2>2. CASE \E j \in Items : ExpireLease(j)
    BY <2>2 DEF ExpireLease, aggregate_vars
  <2>3. CASE \E S \in SUBSET Items : release_expired_leases(S)
    BY <2>3 DEF release_expired_leases, CanRelease, ExpiredItems, ActiveItems
  <2> QED
    BY <1>3, <2>1, <2>2, <2>3 DEF LeaseStep
<1>4. approvals' = approvals /\ Kept
  BY <1>2, <1>3
<1>5. ASSUME NEW r \in Runs PROVE GatesOfRun(r)'
  BY <1>1, <1>4 DEF ApprovalGates, GatesOfRun, FirstPlan
<1>6. ASSUME NEW i \in requires_approval PROVE GateOfItem(i)'
  BY <1>1, <1>4, ItemAssumption DEF ApprovalGates, GateOfItem, FirstPlan
<1> QED
  BY <1>5, <1>6 DEF ApprovalGates

\* A request changes the status of one run, and decides what is pending.
LEMMA RequestsKeepGates ==
  ASSUME Inv, ApprovalGates, NEW r \in Runs,
         \/ create_run(r)
         \/ \E i \in Items, approved \in BOOLEAN : decide_approval(r, i, approved)
         \/ \E status \in {"paused", "running"} : change_status(r, status)
         \/ cancel(r)
  PROVE  ApprovalGates'
<1>t. AggregateTypeOK /\ TablesTypeOK
  BY DEF Inv, TypeOK
<1>1. /\ current_plan_revision' = current_plan_revision
      /\ \A q \in Runs : run_status'[q] = IF q = r THEN run_status'[r] ELSE run_status[q]
      /\ run_status'[r] # "waiting_approval"
  BY <1>t DEF create_run, decide_approval, change_status, cancel, AggregateTypeOK, ApprovalTarget
<1>2. \A i \in Items : item_status'[i] \in {item_status[i], "cancelled"}
  BY DEF create_run, decide_approval, change_status, cancel, table_vars
<1>3. ASSUME NEW i \in Items
      PROVE  /\ RunOf[i] # r => approvals'[i] = approvals[i]
             /\ approvals[i] = "approved" => approvals'[i] = "approved"
  BY <1>t DEF create_run, decide_approval, change_status, cancel, AggregateTypeOK
<1>4. ASSUME NEW q \in Runs PROVE GatesOfRun(q)'
  BY <1>1, <1>3 DEF ApprovalGates, GatesOfRun, FirstPlan
<1>5. ASSUME NEW i \in requires_approval PROVE GateOfItem(i)'
  <2>1. GateOfItem(i) /\ i \in Items
    BY ItemAssumption DEF ApprovalGates
  <2> QED
    BY <1>1, <1>2, <1>3, <2>1 DEF GateOfItem, FirstPlan, ActiveStatus
<1> QED
  BY <1>4, <1>5 DEF ApprovalGates

\* The rows of a first plan are new, and a patch makes a second plan.
LEMMA PlansKeepGates ==
  ASSUME Inv, ApprovalGates, NEW r \in Runs, commit_plan(r) \/ replan_from_evidence(r)
  PROVE  ApprovalGates'
<1>t. AggregateTypeOK /\ TablesTypeOK
  BY DEF Inv, TypeOK
<1>1. PICK plan : CommitPlan(r, plan)
  BY DEF commit_plan, replan_from_evidence, apply_patch
<1>2. /\ run_status' = run_status
      /\ current_plan_revision'[r] = current_plan_revision[r] + 1
      /\ \A q \in Runs : q # r => current_plan_revision'[q] = current_plan_revision[q]
      /\ \A i \in Items : RunOf[i] # r => /\ item_status'[i] = item_status[i]
                                          /\ approvals'[i] = approvals[i]
      /\ \A i \in Items : RunOf[i] = r => item_status'[i] = ProjectedStatus(plan, i)
  BY <1>1, <1>t DEF CommitPlan, AggregateTypeOK
<1>3. current_plan_revision[r] \in Nat
  BY <1>t, RecoveryRequiredAssumption DEF AggregateTypeOK
<1>4. commit_plan(r) => current_plan_revision[r] = 0
  BY DEF commit_plan
<1>5. replan_from_evidence(r) => current_plan_revision[r] > 0
  BY RecoveryRequiredAssumption, <1>3 DEF replan_from_evidence, apply_patch, CanPatch
<1>6. ASSUME NEW q \in Runs PROVE GatesOfRun(q)'
  <2>1. GatesOfRun(q)
    BY DEF ApprovalGates
  <2> QED
    BY <1>2, <1>3, <1>4, <1>5, <2>1 DEF GatesOfRun, FirstPlan
<1>7. ASSUME NEW i \in requires_approval PROVE GateOfItem(i)'
  <2>1. GateOfItem(i) /\ i \in Items /\ RunOf[i] \in Runs /\ RevisionOf[i] \in 1..MaxRevision
    BY ItemAssumption DEF ApprovalGates
  <2>2. CASE RunOf[i] = r /\ commit_plan(r)
    <3>1. item_status[i] = "absent"
      BY <1>4, <2>1, <2>2 DEF Inv, LaterItemsAreNew
    <3>2. item_status'[i] \in {"absent", "pending"}
      BY <1>2, <2>1, <2>2, <3>1 DEF ProjectedStatus
    <3> QED
      BY <3>2 DEF GateOfItem, ActiveStatus
  <2> QED
    BY <1>2, <1>3, <1>5, <2>1, <2>2 DEF GateOfItem, FirstPlan
<1> QED
  BY <1>6, <1>7 DEF ApprovalGates

LEMMA GatesStep ==
  ASSUME Inv, ApprovalGates, [Next]_repository_vars
  PROVE  ApprovalGates'
<1>1. ASSUME NEW r \in Runs, ControllerStep(r) PROVE ApprovalGates'
  BY <1>1, RequestsKeepGates, PlansKeepGates, ReconcileGates DEF ControllerStep
<1>2. CASE UNCHANGED repository_vars
  BY <1>2 DEF ApprovalGates, GatesOfRun, GateOfItem, FirstPlan,
     repository_vars, aggregate_vars, table_vars
<1> QED
  BY <1>1, <1>2, WorkersKeepGates DEF Next

\* While no run has more than its first plan, whatever the processes do.
NoPatches == \A r \in Runs : FirstPlan(r)

LEMMA GatesHold == RuntimeSpec => []ApprovalGates
<1>1. RuntimeInit => ApprovalGates
  BY ItemAssumption
     DEF RuntimeInit, RepositoryInit, ApprovalGates, GatesOfRun, GateOfItem, ActiveStatus
<1>2. RuntimeInv /\ ApprovalGates /\ [RuntimeNext]_runtime_vars => ApprovalGates'
  BY StepRefines, GatesStep DEF RuntimeInv
<1> QED
  BY <1>1, <1>2, RuntimeInvHolds, PTL DEF RuntimeSpec

\* Only a claim changes the number of an item's attempt.
LEMMA ClaimsAreOfReadyItems ==
  ASSUME Inv, [Next]_repository_vars, NEW i \in Items, fencing_token'[i] # fencing_token[i]
  PROVE  item_status[i] = "ready"
<1>t. TablesTypeOK
  BY DEF Inv, TypeOK
<1>1. ASSUME NEW r \in Runs, ControllerStep(r) PROVE fencing_token' = fencing_token
  BY <1>1 DEF ControllerStep, create_run, commit_plan, replan_from_evidence, apply_patch,
     CommitPlan, reconcile, decide_approval, change_status, cancel, table_vars
<1>2. ASSUME NEW j \in Items, NEW n \in AttemptIds, AttemptStep(j, n)
      PROVE  fencing_token' = fencing_token
  BY <1>2 DEF AttemptStep, start_attempt, renew_lease, commit_checkpoint, complete_attempt,
     complete_cancelled_attempt
<1>3. CASE \/ \E j \in Items : ExpireLease(j)
           \/ \E S \in SUBSET Items : release_expired_leases(S)
           \/ UNCHANGED repository_vars
  BY <1>3 DEF ExpireLease, release_expired_leases, repository_vars, table_vars
<1>4. CASE \E w \in Workers, j \in Items : claim_work(w, j)
  BY <1>4, <1>t DEF claim_work, CanClaim, TablesTypeOK
<1> QED
  BY <1>1, <1>2, <1>3, <1>4 DEF Next, LeaseStep

\* A run stops for an approval only with one that can be decided, as long as no
\* plan is patched.  ReplansAndApprovals.cfg shows what a patch does to it.
THEOREM ApprovalsCanBeDecided == RuntimeSpec /\ []NoPatches => []WaitingHasApproval
<1>1. ApprovalGates /\ NoPatches => WaitingHasApproval
  BY DEF ApprovalGates, GatesOfRun, NoPatches, WaitingHasApproval
<1> QED
  BY <1>1, GatesHold, PTL

\* An item that needs an approval is claimed only with one, as long as no plan
\* is patched.  ReplansAndApprovals.cfg shows what a patch does to it.
THEOREM RiskyWorkIsApproved == RuntimeSpec /\ []NoPatches => ClaimsAreApproved
<1>1. ASSUME RuntimeInv, ApprovalGates, NoPatches, [RuntimeNext]_runtime_vars,
             NEW i \in requires_approval, fencing_token'[i] # fencing_token[i]
      PROVE  approvals[i] = "approved"
  <2>1. i \in Items /\ RunOf[i] \in Runs
    BY ItemAssumption
  <2>2. item_status[i] = "ready"
    BY <1>1, <2>1, StepRefines, ClaimsAreOfReadyItems DEF RuntimeInv
  <2> QED
    BY <1>1, <2>1, <2>2 DEF ApprovalGates, GateOfItem, NoPatches
<1>2. RuntimeInv /\ ApprovalGates /\ NoPatches /\ [RuntimeNext]_runtime_vars =>
         [\A i \in requires_approval :
             fencing_token'[i] # fencing_token[i] => approvals[i] = "approved"]_runtime_vars
  BY <1>1
<1> QED
  BY <1>2, GatesHold, RuntimeInvHolds, PTL DEF RuntimeSpec, ClaimsAreApproved

\* Without replans no process comes to replan: whoever has a planner advances
\* a run that has its first plan already, and that run's budget is used up.
FirstPlansOnly ==
    /\ NoPatches
    /\ \A c \in Clients :
          /\ pc(c) \notin ReplanPC
          /\ HasPlanner(c) /\ pc(c) \in AttemptPC \cup {"advancing", "appending"} =>
                current_plan_revision[run(c)] # 0

\* A process that moves; revision is the plan revision its run then has.
LEMMA MovesToPlanned ==
  ASSUME RuntimeInv, Inv', FirstPlansOnly, max_replans = 0, [RuntimeNext]_runtime_vars,
         NEW c \in Clients, session'[c] # session[c]
  PROVE  /\ session'[c].pc \notin ReplanPC
         /\ HasPlanner(c) /\ session'[c].pc \in AttemptPC \cup {"advancing", "appending"} =>
               current_plan_revision'[session'[c].run] # 0
<1> USE DEF RuntimeInv, Alone, AttemptPC
<1>t. AggregateTypeOK /\ TablesTypeOK
  BY DEF Inv, TypeOK
<1>r. \A r \in Runs : current_plan_revision[r] # 0 => current_plan_revision'[r] # 0
  <2> SUFFICES ASSUME NEW r \in Runs, current_plan_revision[r] # 0
               PROVE  current_plan_revision'[r] # 0
    OBVIOUS
  <2>1. current_plan_revision[r] \in Nat
    BY <1>t, RecoveryRequiredAssumption DEF AggregateTypeOK
  <2> QED
    BY <2>1, StepRefines, RevisionStep
<1>s. pc(c) \notin {"idle", "dead"} => run(c) \in Runs
  BY DEF SessionsOK, WellPlaced, pc, run
<1>1. ASSUME NEW w \in Workers, WorkerStep(w) \/ Heartbeat(w) \/ Restart(w)
      PROVE  /\ session'[c].pc \notin ReplanPC
             /\ HasPlanner(c) /\ session'[c].pc \in AttemptPC \cup {"advancing", "appending"} =>
                   current_plan_revision'[session'[c].run] # 0
  <2>1. c = w
    BY <1>1, WorkerMoves DEF Clients
  <2>2. ASSUME NEW i \in Items, item_status[i] = "ready"
        PROVE  RunOf[i] \in Runs /\ current_plan_revision[RunOf[i]] # 0
    BY <1>t, <2>2, ItemAssumption, RecoveryRequiredAssumption
       DEF Inv, LaterItemsAreNew, AggregateTypeOK
  <2>3. /\ session'[c].pc \notin ReplanPC
        /\ session'[c].pc \in AttemptPC \cup {"advancing", "appending"} =>
              \/ pc(c) \in AttemptPC /\ session'[c].run = run(c)
              \/ \E i \in Items : item_status[i] = "ready" /\ session'[c].run = RunOf[i]
    BY <1>1, <2>1, WorkerMoves
  <2> QED
    BY <1>r, <1>s, <2>2, <2>3 DEF FirstPlansOnly
<1>2. ASSUME NEW d \in Clients, AdvanceStep(d)
      PROVE  /\ session'[c].pc \notin ReplanPC
             /\ HasPlanner(c) /\ session'[c].pc \in AttemptPC \cup {"advancing", "appending"} =>
                   current_plan_revision'[session'[c].run] # 0
  <2>1. c = d
    BY <1>2, AdvancingMoves
  <2>2. ~ Replan(c) /\ ~ Patch(c) /\ pc(c) # "committing"
    BY DEF FirstPlansOnly, ReplanPC, Replan, Patch
  <2>3. ASSUME pc(c) \in {"advancing", "appending"}, HasPlanner(c), Decision(run(c)) = "replan"
        PROVE  FALSE
    <3>1. run(c) \in Runs /\ current_plan_revision[run(c)] # 0
      BY <1>s, <2>3 DEF FirstPlansOnly
    <3>2. ReplansExhausted(run(c))
      BY <1>t, <1>2, <3>1, RecoveryRequiredAssumption, max_replans = 0
         DEF ReplansExhausted, AggregateTypeOK
    <3> QED
      BY <2>3, <3>1, <3>2 DEF Decision
  <2> QED
    BY <1>2, <1>r, <1>s, <2>1, <2>2, <2>3, AdvancingMoves DEF FirstPlansOnly, ReplanPC
<1>3. ASSUME NEW d \in Clients, Crash(d)
      PROVE  session'[c].pc \in {"idle", "dead"}
  BY <1>3, RaiseMoves DEF Crash
<1>4. CASE (\E r \in Runs : CreateRun(r)) \/ PlanRun
  <2>1. /\ c = Creator
        /\ session'[c].pc \in {"idle", "dead", "planning", "advancing"}
        /\ session'[c].pc = "advancing" =>
              commit_plan(run(c)) /\ session'[c].run = run(c)
    BY <1>4, CreatorMoves
  <2>2. PlanRun => run(c) \in Runs
    BY <1>s, <2>1 DEF PlanRun
  <2>3. ASSUME NEW r \in Runs, commit_plan(r) PROVE current_plan_revision'[r] # 0
    BY <1>t, <2>3 DEF commit_plan, CommitPlan, AggregateTypeOK
  <2>4. (\E r \in Runs : CreateRun(r)) => session'[c].pc # "advancing"
    BY <1>t, <1>s, <2>1 DEF CreateRun
  <2> QED
    BY <1>4, <2>1, <2>2, <2>3, <2>4 DEF ReplanPC
<1>5. CASE ResumeAppend \/ \E r \in Runs : RequestStep(r)
  <2>1. c = Operator /\ session'[c].pc \in {"idle", "dead", "resuming", "advancing"}
    BY <1>5, OperatorMoves
  <2> QED
    BY <2>1 DEF HasPlanner, ReplanPC
<1>6. CASE (\E i \in Items : LeaseExpires(i)) \/ UNCHANGED runtime_vars
  BY <1>6 DEF LeaseExpires, runtime_vars
<1> QED
  BY <1>1, <1>2, <1>3, <1>4, <1>5, <1>6 DEF RuntimeNext, ApiStep, ReplanPC

\* Only commit_plan and a patch make a revision.
LEMMA PlainRevision ==
  ASSUME Inv, PlainStep \/ UNCHANGED repository_vars, NEW r \in Runs
  PROVE  \/ current_plan_revision'[r] = current_plan_revision[r]
         \/ current_plan_revision[r] = 0 /\ current_plan_revision'[r] = 1
<1>t. AggregateTypeOK
  BY DEF Inv, TypeOK
<1>1. CASE UNCHANGED repository_vars
  BY <1>1 DEF repository_vars, aggregate_vars
<1>2. CASE (\E i \in Items, n \in AttemptIds : AttemptStep(i, n)) \/ LeaseStep
  BY <1>2, WorkersLeaveRuns
<1>3. ASSUME NEW q \in Runs, commit_plan(q)
      PROVE  \/ current_plan_revision'[r] = current_plan_revision[r]
             \/ current_plan_revision[r] = 0 /\ current_plan_revision'[r] = 1
  BY <1>t, <1>3 DEF commit_plan, CommitPlan, AggregateTypeOK
<1>4. ASSUME NEW q \in Runs,
             \/ create_run(q) \/ reconcile(q)
             \/ \E i \in Items, approved \in BOOLEAN : decide_approval(q, i, approved)
             \/ \E status \in {"paused", "running"} : change_status(q, status)
             \/ cancel(q)
      PROVE  current_plan_revision' = current_plan_revision
  BY <1>4 DEF create_run, reconcile, decide_approval, change_status, cancel
<1> QED
  BY <1>1, <1>2, <1>3, <1>4 DEF PlainStep

LEMMA FirstPlansStep ==
  ASSUME RuntimeInv, FirstPlansOnly, max_replans = 0, [RuntimeNext]_runtime_vars
  PROVE  FirstPlansOnly'
<1> USE DEF RuntimeInv
<1>t. AggregateTypeOK
  BY DEF Inv, TypeOK
<1>1. Inv'
  BY StepRefines, NextInv
<1>2. [Next]_repository_vars
  BY StepRefines
<1>3. ASSUME NEW r \in Runs
      PROVE  \/ current_plan_revision'[r] = current_plan_revision[r]
             \/ current_plan_revision'[r] = 1
  BY PlainRevision, StepTransacts DEF FirstPlansOnly, ReplanPC
<1>4. NoPatches'
  BY <1>3 DEF FirstPlansOnly, NoPatches, FirstPlan
<1>5. ASSUME NEW c \in Clients, session'[c] = session[c]
      PROVE  /\ session'[c].pc \notin ReplanPC
             /\ HasPlanner(c) /\ session'[c].pc \in AttemptPC \cup {"advancing", "appending"} =>
                   current_plan_revision'[session'[c].run] # 0
  <2>1. HasPlanner(c) /\ pc(c) \in AttemptPC \cup {"advancing", "appending"} =>
           run(c) \in Runs /\ current_plan_revision[run(c)] # 0
    BY DEF FirstPlansOnly, SessionsOK, WellPlaced, AttemptPC, pc, run
  <2> QED
    BY <1>3, <1>5, <2>1 DEF FirstPlansOnly, pc, run
<1> QED
  BY <1>1, <1>4, <1>5, MovesToPlanned DEF FirstPlansOnly, pc, run, HasPlanner

\* A policy without replans keeps every run to its first plan, although several
\* processes decide at once; so both gates hold.
THEOREM NoReplansNoPatches ==
  ASSUME max_replans = 0
  PROVE  RuntimeSpec => []NoPatches
<1>1. RuntimeInit => FirstPlansOnly
  BY NoSessionType DEF RuntimeInit, RepositoryInit, FirstPlansOnly, NoPatches, FirstPlan,
     ReplanPC, AttemptPC, pc
<1>2. RuntimeInv /\ FirstPlansOnly /\ [RuntimeNext]_runtime_vars => FirstPlansOnly'
  BY max_replans = 0, FirstPlansStep
<1>3. FirstPlansOnly => NoPatches
  BY DEF FirstPlansOnly
<1> QED
  BY <1>1, <1>2, <1>3, RuntimeInvHolds, PTL DEF RuntimeSpec

-----------------------------------------------------------------------------
(* The budget of replans.                                                  *)

\* The processes that have decided to replan r and not yet done it.
Planners(r) == {c \in Clients : pc(c) \in ReplanPC /\ run(c) = r}

\* Whoever decides finds the budget not used up, but what it then patches is a
\* plan read afresh: all processes but the operator's may be planning at once.
BudgetInv ==
    \A r \in Runs :
       current_plan_revision[r] + Cardinality(Planners(r)) =< max_replans + Cardinality(Workers) + 1

LEMMA PatchEnds ==
  ASSUME SessionsOK, NEW c \in Clients, CommitPatch(c)
  PROVE  Alone(c) /\ session'[c].pc \notin ReplanPC
<1>1. CASE Raise(c)
  BY <1>1, RaiseMoves DEF ReplanPC
<1>2. CASE Advance(c, run(c))
  <2>1. run(c) \in Runs
    BY DEF SessionsOK, WellPlaced, CommitPatch, pc, run
  <2> QED
    BY <1>2, <2>1, AdvanceMoves DEF ReplanPC
<1> QED
  BY <1>1, <1>2 DEF CommitPatch

LEMMA PlannerMoves ==
  ASSUME SessionsOK, NEW c \in Clients, AdvanceStep(c), session'[c].pc \in ReplanPC
  PROVE  /\ session'[c].run = run(c)
         /\ pc(c) \in ReplanPC \/ (HasPlanner(c) /\ Decision(run(c)) = "replan")
<1>s. session \in [Clients -> SessionType]
  BY DEF SessionsOK
<1>1. ASSUME Decided(c, Decision(run(c)))
      PROVE  session'[c].run = run(c) /\ HasPlanner(c) /\ Decision(run(c)) = "replan"
  BY <1>1, <1>s, NoSessionType DEF Decided, Finish, ReplanPC, SessionType, run
<1>2. CASE ReconcileRead(c)
  <2>1. ~ Goto(c, "appending")
    BY <1>s DEF Goto, ReplanPC, SessionType
  <2>2. Decided(c, Decision(run(c)))
    BY <1>2, <2>1 DEF ReconcileRead
  <2> QED
    BY <1>1, <2>2
<1>3. CASE ReconcileAppend(c)
  <2>1. CASE c \in fresh
    <3>1. Decided(c, Decision(run(c)))
      BY <1>3, <2>1 DEF ReconcileAppend
    <3> QED
      BY <1>1, <3>1
  <2>2. CASE c \notin fresh /\ OutOfTries(c)
    BY <1>3, <2>2, RaiseMoves DEF ReconcileAppend, ReplanPC
  <2>3. CASE c \notin fresh /\ ~ OutOfTries(c)
    BY <1>3, <1>s, <2>3 DEF ReconcileAppend, ReplanPC, SessionType
  <2> QED
    BY <2>1, <2>2, <2>3
<1>4. CASE Replan(c)
  <2>1. FailedOrBlocked(run(c)) # {}
    BY <1>4, RaiseMoves DEF Replan, ReplanPC
  <2> QED
    BY <1>4, <1>s, <2>1 DEF Replan, ReplanPC, SessionType, pc, run
<1>5. CASE Patch(c)
  BY <1>5, <1>s DEF Patch, Goto, ReplanPC, SessionType, pc, run
<1>6. ~ CommitPatch(c)
  BY PatchEnds
<1> QED
  BY <1>2, <1>3, <1>4, <1>5, <1>6 DEF AdvanceStep, ReconcileRead, ReconcileAppend

\* A process starts to plan only while the budget is not used up.
LEMMA NewPlanner ==
  ASSUME RuntimeInv, Inv', [RuntimeNext]_runtime_vars, NEW r \in Runs,
         NEW c \in Planners(r)', c \notin Planners(r)
  PROVE  c # Operator /\ current_plan_revision[r] =< max_replans
<1> USE DEF RuntimeInv
<1>c. c \in Clients /\ session'[c].pc \in ReplanPC /\ session'[c].run = r
  BY DEF Planners, pc, run
<1>n. session'[c] # session[c]
  BY <1>c DEF Planners, pc, run
<1>1. ASSUME NEW w \in Workers, WorkerStep(w) \/ Heartbeat(w) \/ Restart(w) PROVE FALSE
  BY <1>1, <1>c, <1>n, WorkerMoves DEF Alone, Clients
<1>2. ASSUME NEW d \in Clients, AdvanceStep(d)
      PROVE  c # Operator /\ current_plan_revision[r] =< max_replans
  <2>1. c = d
    BY <1>2, <1>c, <1>n, AdvancingMoves DEF Alone
  <2>2. run(c) = r /\ HasPlanner(c) /\ Decision(r) = "replan"
    BY <1>2, <1>c, <2>1, PlannerMoves DEF Planners
  <2>3. current_plan_revision[r] = 0 \/ ~ ReplansExhausted(r)
    BY <2>2 DEF Decision
  <2>4. current_plan_revision[r] \in Nat
    BY RecoveryRequiredAssumption DEF Inv, TypeOK, AggregateTypeOK
  <2> QED
    BY <2>2, <2>3, <2>4, ReplanAssumption DEF HasPlanner, ReplansExhausted
<1>3. ASSUME NEW d \in Clients, Crash(d) PROVE FALSE
  BY <1>3, <1>c, <1>n, RaiseMoves DEF Crash, Alone, ReplanPC
<1>4. CASE (\E q \in Runs : CreateRun(q)) \/ PlanRun
  BY <1>4, <1>c, <1>n, CreatorMoves DEF Alone, ReplanPC
<1>5. CASE ResumeAppend \/ \E q \in Runs : RequestStep(q)
  BY <1>5, <1>c, <1>n, OperatorMoves DEF Alone, ReplanPC
<1>6. CASE (\E i \in Items : LeaseExpires(i)) \/ UNCHANGED runtime_vars
  BY <1>6, <1>n DEF LeaseExpires, runtime_vars
<1> QED
  BY <1>1, <1>2, <1>3, <1>4, <1>5, <1>6 DEF RuntimeNext, ApiStep

\* A patch takes its planner with it.
LEMMA PatchRevision ==
  ASSUME RuntimeInv, NEW c \in Clients, CommitPatch(c), pc(c) = "committing",
         run(c) \in Runs, replan_from_evidence(run(c)), NEW r \in Runs
  PROVE  \/ r # run(c) /\ current_plan_revision'[r] = current_plan_revision[r]
         \/ /\ current_plan_revision'[r] = current_plan_revision[r] + 1
            /\ c \in Planners(r) /\ Planners(r)' \subseteq Planners(r) \ {c}
<1> USE DEF RuntimeInv
<1>t. AggregateTypeOK
  BY DEF Inv, TypeOK
<1>1. CASE r # run(c)
  BY <1>1, OtherRunsStay DEF ControllerStep
<1>2. CASE r = run(c)
  <2>1. current_plan_revision'[r] = current_plan_revision[r] + 1
    BY <1>2, <1>t DEF replan_from_evidence, apply_patch, CommitPlan, AggregateTypeOK
  <2>2. c \in Planners(r)
    BY <1>2 DEF Planners, ReplanPC
  <2>3. Planners(r)' \subseteq Planners(r) \ {c}
    BY PatchEnds DEF Planners, Alone, pc, run
  <2> QED
    BY <2>1, <2>2, <2>3
<1> QED
  BY <1>1, <1>2


\* The request handlers of the operator have no planner.
PlansBounded ==
    /\ BudgetInv
    /\ pc(Operator) \notin ReplanPC

LEMMA PlannersAreCounted ==
  ASSUME IsFiniteSet(Workers), NEW S \in SUBSET Clients, Operator \notin S
  PROVE  IsFiniteSet(S) /\ Cardinality(S) \in Nat /\ Cardinality(S) =< Cardinality(Workers) + 1
<1>1. S \in SUBSET (Workers \cup {Creator})
  BY DEF Clients
<1>2. /\ IsFiniteSet(Workers \cup {Creator})
      /\ Cardinality(Workers \cup {Creator}) =< Cardinality(Workers) + 1
      /\ Cardinality(Workers) \in Nat
  <2>1. Cardinality(Workers) \in Nat
    BY FS_CardinalityType
  <2> QED
    BY <2>1, FS_AddElement
<1>3. IsFiniteSet(S) /\ Cardinality(S) =< Cardinality(Workers \cup {Creator})
  BY <1>1, <1>2, FS_Subset
<1>4. Cardinality(S) \in Nat /\ Cardinality(Workers \cup {Creator}) \in Nat
  BY <1>2, <1>3, FS_CardinalityType
<1> QED
  BY <1>2, <1>3, <1>4

LEMMA BudgetStep ==
  ASSUME RuntimeInv, PlansBounded, IsFiniteSet(Workers), max_replans # 0,
         [RuntimeNext]_runtime_vars
  PROVE  PlansBounded'
<1> USE DEF RuntimeInv
<1>i. RuntimeInv'
  BY NextRuntime
<1>t. AggregateTypeOK /\ AggregateTypeOK'
  BY <1>i DEF Inv, TypeOK
<1>o. session'[Operator].pc \notin ReplanPC
  <2> SUFFICES ASSUME session'[Operator].pc \in ReplanPC PROVE FALSE
    OBVIOUS
  <2>1. PICK r \in Runs : r = session'[Operator].run /\ Operator \in Clients
    BY <1>i DEF SessionsOK, WellPlaced, ReplanPC, Clients
  <2>2. Operator \in Planners(r)' /\ Operator \notin Planners(r)
    BY <2>1 DEF Planners, PlansBounded, pc, run
  <2> QED
    BY <1>i, <2>1, <2>2, NewPlanner
<1>2. ASSUME NEW r \in Runs
      PROVE  current_plan_revision'[r] + Cardinality(Planners(r)')
                =< max_replans + Cardinality(Workers) + 1
  <2>1. /\ IsFiniteSet(Planners(r)) /\ Cardinality(Planners(r)) \in Nat
        /\ IsFiniteSet(Planners(r)') /\ Cardinality(Planners(r)') \in Nat
        /\ Cardinality(Planners(r)') =< Cardinality(Workers) + 1
    <3>1. Planners(r) \in SUBSET Clients /\ Operator \notin Planners(r)
      BY DEF Planners, PlansBounded
    <3>2. Planners(r)' \in SUBSET Clients /\ Operator \notin Planners(r)'
      BY <1>o DEF Planners, pc
    <3> QED
      BY <3>1, <3>2, PlannersAreCounted
  <2>2. /\ current_plan_revision[r] \in Nat /\ current_plan_revision'[r] \in Nat
        /\ Cardinality(Workers) \in Nat /\ max_replans \in Nat \ {0}
    BY <1>t, RecoveryRequiredAssumption, ReplanAssumption, FS_CardinalityType
       DEF AggregateTypeOK
  <2>3. current_plan_revision[r] + Cardinality(Planners(r)) =< max_replans + Cardinality(Workers) + 1
    BY DEF PlansBounded, BudgetInv
  <2>4. ASSUME \/ current_plan_revision'[r] = current_plan_revision[r]
               \/ current_plan_revision[r] = 0 /\ current_plan_revision'[r] = 1
        PROVE  current_plan_revision'[r] + Cardinality(Planners(r)')
                  =< max_replans + Cardinality(Workers) + 1
    <3>1. CASE current_plan_revision[r] = 0 /\ current_plan_revision'[r] = 1
      BY <2>1, <2>2, <3>1
    <3>2. CASE current_plan_revision'[r] = current_plan_revision[r] /\ Planners(r)' \subseteq Planners(r)
      <4>1. Cardinality(Planners(r)') =< Cardinality(Planners(r))
        BY <2>1, <3>2, FS_Subset
      <4> QED
        BY <2>1, <2>2, <2>3, <3>2, <4>1
    <3>3. CASE /\ current_plan_revision'[r] = current_plan_revision[r]
               /\ ~ (Planners(r)' \subseteq Planners(r))
      <4>1. current_plan_revision[r] =< max_replans
        BY <1>i, <3>3, NewPlanner
      <4> QED
        BY <2>1, <2>2, <3>3, <4>1
    <3> QED
      BY <2>4, <3>1, <3>2, <3>3
  <2>5. ASSUME NEW c \in Clients, CommitPatch(c), pc(c) = "committing", run(c) \in Runs,
               replan_from_evidence(run(c)), r = run(c)
        PROVE  current_plan_revision'[r] + Cardinality(Planners(r)')
                  =< max_replans + Cardinality(Workers) + 1
    <3>1. /\ current_plan_revision'[r] = current_plan_revision[r] + 1
          /\ c \in Planners(r) /\ Planners(r)' \subseteq Planners(r) \ {c}
      BY <2>5, PatchRevision
    <3>2. /\ IsFiniteSet(Planners(r) \ {c})
          /\ Cardinality(Planners(r) \ {c}) = Cardinality(Planners(r)) - 1
      BY <2>1, <3>1, FS_RemoveElement
    <3>3. Cardinality(Planners(r)') =< Cardinality(Planners(r) \ {c})
      BY <3>1, <3>2, FS_Subset
    <3> QED
      BY <2>1, <2>2, <2>3, <3>1, <3>2, <3>3
  <2>6. CASE PlainStep \/ UNCHANGED repository_vars
    BY <2>4, <2>6, PlainRevision
  <2>7. CASE \E c \in Clients : /\ CommitPatch(c) /\ pc(c) = "committing"
                                /\ run(c) \in Runs /\ replan_from_evidence(run(c))
    <3>1. PICK c \in Clients : /\ CommitPatch(c) /\ pc(c) = "committing"
                               /\ run(c) \in Runs /\ replan_from_evidence(run(c))
      BY <2>7
    <3>2. CASE r = run(c)
      BY <2>5, <3>1, <3>2
    <3>3. CASE r # run(c)
      BY <2>4, <3>1, <3>3, PatchRevision DEF Planners
    <3> QED
      BY <3>2, <3>3
  <2> QED
    BY <2>6, <2>7, StepTransacts
<1> QED
  BY <1>o, <1>2 DEF PlansBounded, BudgetInv, pc

\* The policy allows max_replans patches of a run.  A planner that was told to
\* replan does not look at the budget again, so a run can get more, but never
\* more than one for each further process that may be planning.
THEOREM ReplansAreBounded ==
  ASSUME IsFiniteSet(Workers), max_replans # 0
  PROVE  RuntimeSpec => [](\A r \in Runs :
            current_plan_revision[r] - 1 =< max_replans + Cardinality(Workers))
<1>1. RuntimeInit => PlansBounded
  <2> SUFFICES ASSUME RuntimeInit PROVE PlansBounded
    OBVIOUS
  <2>1. \A c \in Clients : pc(c) \notin ReplanPC
    BY NoSessionType DEF RuntimeInit, ReplanPC, pc
  <2>2. \A r \in Runs : Planners(r) = {} /\ current_plan_revision[r] = 0
    BY <2>1 DEF Planners, RuntimeInit, RepositoryInit
  <2>3. Cardinality({}) = 0 /\ Cardinality(Workers) \in Nat
    BY IsFiniteSet(Workers), FS_EmptySet, FS_CardinalityType
  <2> QED
    BY <2>1, <2>2, <2>3, ReplanAssumption DEF PlansBounded, BudgetInv, Clients
<1>2. RuntimeInv /\ PlansBounded /\ [RuntimeNext]_runtime_vars => PlansBounded'
  BY IsFiniteSet(Workers), max_replans # 0, BudgetStep
<1>3. RuntimeInv /\ PlansBounded =>
         \A r \in Runs : current_plan_revision[r] - 1 =< max_replans + Cardinality(Workers)
  <2> SUFFICES ASSUME RuntimeInv, PlansBounded, NEW r \in Runs
               PROVE  current_plan_revision[r] - 1 =< max_replans + Cardinality(Workers)
    OBVIOUS
  <2>1. current_plan_revision[r] \in Nat
    BY RecoveryRequiredAssumption DEF RuntimeInv, Inv, TypeOK, AggregateTypeOK
  <2>2. Cardinality(Planners(r)) \in Nat /\ Cardinality(Workers) \in Nat
    <3>1. Planners(r) \in SUBSET Clients /\ Operator \notin Planners(r)
      BY DEF Planners, PlansBounded
    <3> QED
      BY <3>1, IsFiniteSet(Workers), PlannersAreCounted, FS_CardinalityType
  <2> QED
    BY <2>1, <2>2, ReplanAssumption DEF PlansBounded, BudgetInv
<1> QED
  BY <1>1, <1>2, <1>3, RuntimeInvHolds, PTL DEF RuntimeSpec

=============================================================================
