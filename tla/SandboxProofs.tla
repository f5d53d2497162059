--------------------------- MODULE SandboxProofs ---------------------------
(***************************************************************************)
(* For any number of attempts, checkpoints and faults: an attempt commits  *)
(* the checkpoints of its own container, all of them when that ended by    *)
(* itself, and what is accepted from the shared outcome file is its own or *)
(* that of a container its lease or docker rm let go.                      *)
(***************************************************************************)
EXTENDS SandboxProperties, TLAPS

Before == {"none", "claimed"}
Watching == {"polling", "draining", "checking", "final", "kill", "done"}
After == {"raised", "completing", "finished", "dead"}

Call == [pc : Before \cup Watching \cup After, why : {"exit", "cancelled", "timed_out", "error"},
         lost : BOOLEAN, committed : Seq(Attempts),
         result : {"none", "ok", "retry", "failed"},
         author : Nat, beside : SUBSET Attempts, loose : BOOLEAN]

Outcome == [content : {"absent", "ok", "retry", "cut"}, author : Nat]

Container == [program : EntryPoints \cup {"none"}, state : {"none", "up", "exited", "gone"},
              written : Nat, half : BOOLEAN, wrote : BOOLEAN]

SandboxTypeOK ==
    /\ attempt_count \in Nat
    /\ call \in [Attempts -> Call]
    /\ container \in [Attempts -> Container]
    /\ journal \in [Attempts -> Seq(Attempts)]
    /\ outcome \in Outcome

\* The count says which attempts were claimed; one that has not begun has nothing.
Unused(a) ==
    /\ a > attempt_count <=> pc(a) = "none"
    /\ pc(a) \in Before =>
          /\ call[a].committed = <<>> /\ call[a].result = "none" /\ call[a].why = "exit"
          /\ container[a].state = "none" /\ container[a].written = 0
          /\ journal[a] = <<>>

\* An outcome is taken at the end.
Taken(a) == call[a].result # "none" => pc(a) \in {"completing", "finished", "dead"}

\* The journal is what the container wrote until it is cleared.
OwnLines(a) ==
    /\ \A i \in 1..Len(journal[a]) : journal[a][i] = a
    /\ \A i \in 1..Len(call[a].committed) : call[a].committed[i] = a
    /\ Len(call[a].committed) =< container[a].written
    /\ pc(a) \in Watching => Len(journal[a]) = container[a].written

\* A loop that ended with the container drained the journal of one that is down.
Drain(a) ==
    /\ pc(a) = "final" /\ call[a].why = "exit" => ~Up(a)
    /\ pc(a) = "kill" => call[a].why # "exit"
    /\ /\ pc(a) \in {"done", "completing", "finished"}
       /\ call[a].why = "exit" /\ call[a].result # "failed"
       => ~Up(a) /\ Len(call[a].committed) = container[a].written

AttemptInv(a) == Unused(a) /\ Taken(a) /\ OwnLines(a) /\ Drain(a)

SandboxInv == SandboxTypeOK /\ \A a \in Attempts : AttemptInv(a)

-----------------------------------------------------------------------------
LEMMA OutcomeTypes == Absent \in Outcome /\ Cut \in Outcome
BY DEF Absent, Cut, Outcome

\* No attempt has begun at first.
LEMMA InitSandbox == Init => SandboxInv
<1> SUFFICES ASSUME Init PROVE SandboxInv
  OBVIOUS
<1>1. SandboxTypeOK
  BY OutcomeTypes DEF Init, SandboxTypeOK, Call, Container, Before
<1>2. ASSUME NEW a \in Attempts PROVE AttemptInv(a)
  <2>1. a \in Nat /\ a > 0 /\ attempt_count = 0
    BY <1>2 DEF Init, Attempts
  <2> QED
    BY <1>2, <2>1 DEF Init, AttemptInv, Unused, Taken, OwnLines, Drain, pc, Up, Before, Watching
<1> QED
  BY <1>1, <1>2 DEF SandboxInv

\* The attempts a step does not touch keep what holds of them.
LEMMA Untouched ==
    ASSUME SandboxInv, NEW b \in Attempts, attempt_count' \in Nat,
           b > attempt_count' <=> b > attempt_count,
           call'[b] = call[b], container'[b] = container[b], journal'[b] = journal[b]
    PROVE  AttemptInv(b)'
<1> QED
  BY DEF SandboxInv, AttemptInv, Unused, Taken, OwnLines, Drain, pc, Up

\* A step of one attempt that leaves the rest alone.
LEMMA OneAttempt ==
    ASSUME SandboxInv, SandboxTypeOK', NEW a \in Attempts, AttemptInv(a)',
           UNCHANGED attempt_count,
           \A b \in Attempts \ {a} : /\ call'[b] = call[b] /\ container'[b] = container[b]
                                     /\ journal'[b] = journal[b]
    PROVE  SandboxInv'
<1>1. attempt_count' \in Nat
  BY DEF SandboxInv, SandboxTypeOK
<1>2. ASSUME NEW b \in Attempts \ {a} PROVE AttemptInv(b)'
  BY <1>1, <1>2, Untouched
<1> QED
  BY <1>2 DEF SandboxInv

-----------------------------------------------------------------------------
(* The item and the container.                                             *)

LEMMA ClaimStep == ASSUME SandboxInv, Claim PROVE SandboxInv'
<1> DEFINE a == attempt_count + 1
<1>1. /\ attempt_count \in Nat /\ attempt_count' = a /\ a \in Nat
      /\ call' = [call EXCEPT ![a].pc = "claimed"]
      /\ UNCHANGED <<container, journal, outcome>>
  BY DEF Claim, SandboxInv, SandboxTypeOK
<1>2. SandboxTypeOK'
  BY ZenonT(60), <1>1 DEF SandboxInv, SandboxTypeOK, Call, Before
<1>3. ASSUME NEW b \in Attempts, b # attempt_count + 1 PROVE AttemptInv(b)'
  <2>1. call'[b] = call[b] /\ (b > attempt_count' <=> b > attempt_count)
    BY <1>1, <1>3 DEF SandboxInv, SandboxTypeOK, Attempts
  <2> QED
    BY <1>1, <2>1, Untouched
<1>4. ASSUME NEW b \in Attempts, b = attempt_count + 1 PROVE AttemptInv(b)'
  <2>1. /\ call[b] \in Call /\ pc(b) = "none" /\ b \in Nat
        /\ call'[b] = [call[b] EXCEPT !.pc = "claimed"]
    BY <1>1, <1>4 DEF SandboxInv, SandboxTypeOK, AttemptInv, Unused
  <2>2. call'[b].pc = "claimed" /\ call'[b].result = call[b].result /\ call'[b].why = call[b].why
        /\ call'[b].committed = call[b].committed
    BY <2>1 DEF Call
  <2> QED
    BY <1>1, <1>4, <2>1, <2>2
    DEF SandboxInv, AttemptInv, Unused, Taken, OwnLines, Drain, pc, Up, Before, Watching
<1> QED
  BY <1>2, <1>3, <1>4 DEF SandboxInv

\* A container that is up belongs to an attempt that has begun.
LEMMA UpHasBegun ==
    ASSUME SandboxInv, NEW a \in Attempts, Up(a) PROVE pc(a) \notin Before
BY DEF SandboxInv, AttemptInv, Unused, Up

\* The container writes half a line or the outcome, exits or is killed.
LEMMA ContainerStep ==
    ASSUME SandboxInv, NEW a \in Attempts,
           MainRaises(a) \/ StartLine(a) \/ WriteOutcome(a) \/ Exit(a) \/ Killed(a)
    PROVE  SandboxInv'
<1>1. /\ Up(a) /\ UNCHANGED <<attempt_count, call, journal>>
      /\ outcome' \in Outcome
      /\ \/ container' = [container EXCEPT ![a].state = "exited"]
         \/ container' = [container EXCEPT ![a].half = TRUE]
         \/ container' = [container EXCEPT ![a].wrote = TRUE]
  <2>1. outcome \in Outcome /\ Cut \in Outcome
        /\ \A content \in {"ok", "retry"} : [content |-> content, author |-> a] \in Outcome
    BY DEF SandboxInv, SandboxTypeOK, Outcome, Cut, Attempts
  <2> QED
    BY <2>1 DEF MainRaises, StartLine, WriteOutcome, Exit, Killed, Torn, Works
<1>2. /\ container[a] \in Container /\ container'[a] \in Container
      /\ container'[a].written = container[a].written
      /\ \A b \in Attempts \ {a} : container'[b] = container[b]
      /\ container' \in [Attempts -> Container]
  <2>1. container \in [Attempts -> Container] /\ container[a] \in Container
    BY DEF SandboxInv, SandboxTypeOK
  <2>2. CASE container' = [container EXCEPT ![a].state = "exited"]
    BY <2>1, <2>2 DEF Container
  <2>3. CASE container' = [container EXCEPT ![a].half = TRUE]
    BY <2>1, <2>3 DEF Container
  <2>4. CASE container' = [container EXCEPT ![a].wrote = TRUE]
    BY <2>1, <2>4 DEF Container
  <2> QED
    BY <1>1, <2>2, <2>3, <2>4
<1>3. SandboxTypeOK'
  BY <1>1, <1>2 DEF SandboxInv, SandboxTypeOK
<1>4. AttemptInv(a)'
  <2>1. pc(a) \notin Before
    BY <1>1, UpHasBegun
  <2> QED
    BY <1>1, <1>2, <2>1
    DEF SandboxInv, AttemptInv, Unused, Taken, OwnLines, Drain, pc, Up
<1> QED
  BY <1>1, <1>2, <1>3, <1>4, OneAttempt

LEMMA EndLineStep ==
    ASSUME SandboxInv, NEW a \in Attempts, EndLine(a) PROVE SandboxInv'
<1>1. /\ Up(a) /\ UNCHANGED <<attempt_count, call, outcome>>
      /\ container' = [container EXCEPT ![a].half = FALSE, ![a].written = @ + 1]
      /\ journal' = [journal EXCEPT ![a] = Append(@, a)]
  BY DEF EndLine, Works, JournalOf
<1>2. /\ container[a] \in Container /\ journal[a] \in Seq(Attempts)
      /\ container'[a].written = container[a].written + 1
      /\ container[a].written \in Nat /\ container'[a].state = "up"
      /\ journal'[a] = Append(journal[a], a)
      /\ \A b \in Attempts \ {a} : container'[b] = container[b] /\ journal'[b] = journal[b]
      /\ container' \in [Attempts -> Container] /\ journal' \in [Attempts -> Seq(Attempts)]
  <2>1. /\ container \in [Attempts -> Container] /\ container[a] \in Container
        /\ journal \in [Attempts -> Seq(Attempts)]
    BY DEF SandboxInv, SandboxTypeOK
  <2>2. /\ journal[a] \in Seq(Attempts) /\ journal'[a] = Append(journal[a], a)
        /\ \A b \in Attempts \ {a} : journal'[b] = journal[b]
        /\ journal' \in [Attempts -> Seq(Attempts)]
    BY <1>1, <2>1
  <2> DEFINE new == [container[a] EXCEPT !.half = FALSE, !.written = container[a].written + 1]
  <2>3. container[a].written \in Nat /\ container[a].written + 1 \in Nat
    BY <2>1 DEF Container
  <2>4. new \in Container /\ new.written = container[a].written + 1 /\ new.state = container[a].state
    BY <2>1, <2>3 DEF Container
  <2>5. container' = [container EXCEPT ![a] = new]
    BY <1>1
  <2> HIDE DEF new
  <2>6. container'[a] = new /\ container' \in [Attempts -> Container]
        /\ \A b \in Attempts \ {a} : container'[b] = container[b]
    BY <2>1, <2>4, <2>5
  <2> QED
    BY <1>1, <2>1, <2>2, <2>3, <2>4, <2>6 DEF Up
<1>3. SandboxTypeOK'
  BY <1>1, <1>2 DEF SandboxInv, SandboxTypeOK
<1>4. /\ Len(journal'[a]) = Len(journal[a]) + 1
      /\ \A i \in 1..Len(journal'[a]) : journal'[a][i] = a
  BY <1>2 DEF SandboxInv, AttemptInv, OwnLines
<1>5. pc(a) \notin Before
  BY <1>1, UpHasBegun
<1>6. call[a].committed \in Seq(Attempts) /\ Len(call[a].committed) \in Nat
  BY DEF SandboxInv, SandboxTypeOK, Call
<1>7. AttemptInv(a)'
  <2>1. Unused(a)' /\ Taken(a)'
    BY <1>1, <1>5 DEF SandboxInv, AttemptInv, Unused, Taken, pc
  <2>2. OwnLines(a)'
    BY <1>1, <1>2, <1>4, <1>6 DEF SandboxInv, AttemptInv, OwnLines, pc
  <2>3. Drain(a)'
    BY <1>1 DEF SandboxInv, AttemptInv, Drain, pc, Up
  <2> QED
    BY <2>1, <2>2, <2>3 DEF AttemptInv
<1> QED
  BY <1>1, <1>2, <1>3, <1>7, OneAttempt

-----------------------------------------------------------------------------
(* The worker.                                                             *)

\* What an attempt's call may change in any of its fields.
LEMMA CallFields ==
    ASSUME SandboxInv, NEW a \in Attempts
    PROVE  /\ call \in [Attempts -> Call] /\ container \in [Attempts -> Container]
           /\ journal \in [Attempts -> Seq(Attempts)]
           /\ call[a] \in Call /\ container[a] \in Container /\ journal[a] \in Seq(Attempts)
           /\ call[a].committed \in Seq(Attempts) /\ container[a].written \in Nat
BY DEF SandboxInv, SandboxTypeOK, Call, Container

LEMMA BeginStep ==
    ASSUME SandboxInv, NEW a \in Attempts, Begin(a) PROVE SandboxInv'
<1> DEFINE others == {b \in 1..a - 1 : pc(b) = "claimed" \/ Up(b)}
<1>o. others \in SUBSET Attempts
  BY SandboxAssumption DEF Attempts
<1> HIDE DEF others
<1>1. PICK program \in EntryPoints :
          container' = [container EXCEPT ![a].state = "up", ![a].program = program]
  BY DEF Begin
<1>2. /\ pc(a) = "claimed" /\ UNCHANGED attempt_count
      /\ outcome' = Absent
      /\ journal' = [journal EXCEPT ![a] = <<>>]
      /\ call' = [call EXCEPT ![a].pc = "polling", ![a].beside = others]
  BY DEF Begin, Cleared, JournalOf, others
<1>3. /\ call[a].committed = <<>> /\ call[a].result = "none" /\ call[a].why = "exit"
      /\ container[a].written = 0 /\ ~(a > attempt_count)
  BY <1>2 DEF SandboxInv, AttemptInv, Unused, Before
<1> DEFINE newCall == [call[a] EXCEPT !.pc = "polling", !.beside = others]
           newContainer == [container[a] EXCEPT !.state = "up", !.program = program]
<1>4. /\ newCall \in Call /\ newCall.pc = "polling"
      /\ newCall.why = call[a].why /\ newCall.result = call[a].result
      /\ newCall.committed = call[a].committed
  <2>1. call[a] \in Call
    BY CallFields
  <2>2. "polling" \in Before \cup Watching \cup After
    BY DEF Watching
  <2> QED
    BY <1>o, <2>1, <2>2, ZenonT(60) DEF Call
<1>5. newContainer \in Container /\ newContainer.written = container[a].written
  BY CallFields DEF Container
<1>6. call' = [call EXCEPT ![a] = newCall] /\ container' = [container EXCEPT ![a] = newContainer]
  BY <1>1, <1>2
<1> HIDE DEF newCall, newContainer
<1>7. /\ call'[a] = newCall /\ container'[a] = newContainer /\ journal'[a] = <<>>
      /\ call' \in [Attempts -> Call] /\ container' \in [Attempts -> Container]
      /\ journal' \in [Attempts -> Seq(Attempts)]
      /\ \A b \in Attempts \ {a} : /\ call'[b] = call[b] /\ container'[b] = container[b]
                                   /\ journal'[b] = journal[b]
  <2>1. /\ call \in [Attempts -> Call] /\ container \in [Attempts -> Container]
        /\ journal \in [Attempts -> Seq(Attempts)] /\ <<>> \in Seq(Attempts)
    BY CallFields
  <2> QED
    BY <1>2, <1>4, <1>5, <1>6, <2>1
<1>8. SandboxTypeOK'
  BY <1>2, <1>7, OutcomeTypes DEF SandboxInv, SandboxTypeOK
<1>9. AttemptInv(a)'
  BY <1>2, <1>3, <1>4, <1>5, <1>7
  DEF AttemptInv, Unused, Taken, OwnLines, Drain, pc, Before
<1> QED
  BY <1>2, <1>7, <1>8, <1>9, OneAttempt

\* A worker's step on its own state: the program counter, the reason, the lease.
LEMMA CallStep ==
    ASSUME SandboxInv, NEW a \in Attempts, NEW new \in Call,
           call' = [call EXCEPT ![a] = new],
           container' = container, journal' = journal, attempt_count' = attempt_count,
           outcome' \in {outcome, Absent},
           pc(a) # "none", new.pc # "none",
           new.pc \notin Before \/ (new.pc = pc(a) /\ new.why = call[a].why),
           new.committed = call[a].committed, new.result = call[a].result,
           new.pc \in Watching => pc(a) \in Watching,
           pc(a) \in {"completing", "finished", "dead"} =>
              new.pc \in {"completing", "finished", "dead"},
           \/ new.pc \in {"final", "done", "completing", "finished"} => new.why # "exit"
           \/ new.pc = pc(a) /\ new.why = call[a].why
           \/ new.pc = "finished" /\ pc(a) = "completing" /\ new.why = call[a].why
           \/ new.pc = "final" /\ ~Up(a)
           \/ new.pc = "done" /\ ~Up(a) /\ Len(call[a].committed) = container[a].written,
           new.pc = "kill" => new.why # "exit"
    PROVE  SandboxInv'
<1>1. /\ call'[a] = new /\ call' \in [Attempts -> Call]
      /\ \A b \in Attempts \ {a} : call'[b] = call[b]
  BY CallFields
<1>2. SandboxTypeOK'
  BY <1>1, OutcomeTypes DEF SandboxInv, SandboxTypeOK
<1>3. pc(a) \in Before => pc(a) = "claimed"
  BY DEF Before
<1>4. AttemptInv(a)'
  <2>1. Unused(a)' /\ OwnLines(a)'
    BY <1>1, <1>3 DEF SandboxInv, AttemptInv, Unused, OwnLines, pc
  <2>2. Taken(a)'
    BY <1>1 DEF SandboxInv, AttemptInv, Taken, Unused, pc, Before, Watching
  <2>3. Drain(a)'
    BY <1>1 DEF SandboxInv, AttemptInv, Drain, pc, Up
  <2> QED
    BY <2>1, <2>2, <2>3 DEF AttemptInv
<1> QED
  BY <1>1, <1>2, <1>4, OneAttempt

\* The reaper ends an attempt, or the run is cancelled.
LEMMA ItemStep == ASSUME SandboxInv, Expire \/ CancelRun PROVE SandboxInv'
<1> DEFINE a == attempt_count
           new == [call[a] EXCEPT !.loose = TRUE]
<1>1. UNCHANGED <<attempt_count, container, journal, outcome>>
  BY DEF Expire, CancelRun
<1>2. CASE call' = call
  <2>1. SandboxTypeOK'
    BY <1>1, <1>2 DEF SandboxInv, SandboxTypeOK
  <2>2. ASSUME NEW b \in Attempts PROVE AttemptInv(b)'
    BY <1>1, <1>2, Untouched DEF SandboxInv, SandboxTypeOK
  <2> QED
    BY <2>1, <2>2 DEF SandboxInv
<1>3. CASE a \in Attempts /\ call' = [call EXCEPT ![a] = new]
  <2>1. /\ new \in Call /\ new.pc = pc(a) /\ new.why = call[a].why
        /\ new.committed = call[a].committed /\ new.result = call[a].result
    BY <1>3, CallFields DEF Call, pc
  <2>2. pc(a) # "none" /\ (pc(a) = "kill" => call[a].why # "exit")
    BY <1>3 DEF SandboxInv, SandboxTypeOK, AttemptInv, Unused, Drain
  <2> HIDE DEF new
  <2> QED
    BY <1>1, <1>3, <2>1, <2>2, CallStep
<1>4. call \in [Attempts -> Call]
  BY DEF SandboxInv, SandboxTypeOK
<1> QED
  BY <1>2, <1>3, <1>4 DEF Expire, CancelRun

LEMMA HeartbeatStep ==
    ASSUME SandboxInv, NEW a \in Attempts, Heartbeat(a) \/ HeartbeatRaises(a) PROVE SandboxInv'
<1> DEFINE new == [call[a] EXCEPT !.lost = TRUE]
<1>1. /\ pc(a) \notin {"none", "finished", "dead"} /\ call' = [call EXCEPT ![a] = new]
      /\ UNCHANGED <<attempt_count, container, journal, outcome>>
  BY DEF Heartbeat, HeartbeatRaises
<1>2. /\ new \in Call /\ new.pc = pc(a) /\ new.why = call[a].why
      /\ new.committed = call[a].committed /\ new.result = call[a].result
  BY CallFields DEF Call, pc
<1>3. new.pc = "kill" => new.why # "exit"
  BY <1>2 DEF SandboxInv, AttemptInv, Drain
<1> HIDE DEF new
<1> QED
  BY <1>1, <1>2, <1>3, CallStep

\* The program counter alone.
LEMMA PcStep ==
    ASSUME SandboxInv, NEW a \in Attempts, NEW next \in Watching \cup After,
           call' = [call EXCEPT ![a].pc = next],
           UNCHANGED <<container, journal, attempt_count, outcome>>,
           pc(a) # "none",
           next \in Watching => pc(a) \in Watching,
           pc(a) \in {"completing", "finished", "dead"} => next \in {"finished", "dead"},
           next = "kill" => call[a].why # "exit",
           \/ next \in {"final", "done", "completing", "finished"} => call[a].why # "exit"
           \/ next = "finished" /\ pc(a) = "completing"
           \/ next = "final" /\ ~Up(a)
           \/ next = "done" /\ ~Up(a) /\ Len(call[a].committed) = container[a].written
    PROVE  SandboxInv'
<1> DEFINE new == [call[a] EXCEPT !.pc = next]
<1>1. /\ new \in Call /\ new.pc = next /\ new.why = call[a].why
      /\ new.committed = call[a].committed /\ new.result = call[a].result
  BY CallFields DEF Call
<1>2. call' = [call EXCEPT ![a] = new] /\ new.pc \notin Before /\ new.pc # "none"
  BY <1>1 DEF Watching, After, Before
<1> HIDE DEF new
<1> QED
  BY <1>1, <1>2, CallStep

\* The loop ends for a reason of its own.
LEMMA EndsStep ==
    ASSUME SandboxInv, NEW a \in Attempts, pc(a) \in {"draining", "final", "checking"},
           NEW next \in {"final", "kill"}, NEW reason \in {"cancelled", "timed_out", "error"},
           call' = [call EXCEPT ![a].pc = next, ![a].why = reason],
           UNCHANGED <<attempt_count, container, journal, outcome>>
    PROVE  SandboxInv'
<1> DEFINE new == [call[a] EXCEPT !.pc = next, !.why = reason]
<1>1. /\ new \in Call /\ new.pc = next /\ new.why = reason
      /\ new.committed = call[a].committed /\ new.result = call[a].result
  BY CallFields DEF Call, Watching
<1>2. call' = [call EXCEPT ![a] = new]
  OBVIOUS
<1>3. /\ call'[a] = new /\ call' \in [Attempts -> Call]
      /\ \A b \in Attempts \ {a} : call'[b] = call[b]
  BY <1>1, <1>2, CallFields
<1>4. SandboxTypeOK'
  BY <1>3 DEF SandboxInv, SandboxTypeOK
<1> HIDE DEF new
<1>5. pc(a)' \in {"final", "kill"} /\ call'[a].why # "exit"
  BY <1>1, <1>3 DEF pc
<1>6. AttemptInv(a)'
  <2>1. Unused(a)' /\ OwnLines(a)'
    <3>1. Unused(a)'
      BY <1>1, <1>3, <1>5 DEF SandboxInv, AttemptInv, Unused, pc, Before, Watching
    <3>2. OwnLines(a)'
      BY <1>1, <1>3, <1>5 DEF SandboxInv, AttemptInv, OwnLines, pc, Before, Watching
    <3> QED
      BY <3>1, <3>2
  <2>2. Taken(a)'
    BY <1>1, <1>3, <1>5 DEF SandboxInv, AttemptInv, Taken, pc, Watching
  <2>3. Drain(a)'
    BY <1>5 DEF Drain
  <2> QED
    BY <2>1, <2>2, <2>3 DEF AttemptInv
<1> QED
  BY <1>3, <1>4, <1>6, OneAttempt

LEMMA RefuseStep ==
    ASSUME SandboxInv, NEW a \in Attempts, Refuse(a) PROVE SandboxInv'
<1> DEFINE new == [call[a] EXCEPT !.pc = "raised"]
<1>1. /\ pc(a) = "claimed" /\ call' = [call EXCEPT ![a] = new] /\ outcome' = Absent
      /\ UNCHANGED <<attempt_count, container, journal>>
  BY DEF Refuse, Cleared
<1>2. /\ new \in Call /\ new.pc = "raised" /\ new.why = call[a].why
      /\ new.committed = call[a].committed /\ new.result = call[a].result
  BY CallFields DEF Call, After
<1> HIDE DEF new
<1> QED
  BY <1>1, <1>2, CallStep DEF Watching, Before

LEMMA LookStep ==
    ASSUME SandboxInv, NEW a \in Attempts, Look(a) PROVE SandboxInv'
<1>1. CASE Up(a)
  BY <1>1, PcStep DEF Look, Watching
<1>2. CASE ~Up(a)
  BY <1>2, PcStep DEF Look, Watching
<1> QED
  BY <1>1, <1>2

\* A line that is committed is one the container of the attempt wrote.
LEMMA CommitLineStep ==
    ASSUME SandboxInv, NEW a \in Attempts, CommitLine(a) PROVE SandboxInv'
<1> DEFINE line == journal[a][Len(call[a].committed) + 1]
           new == [call[a] EXCEPT !.committed = Append(call[a].committed, line)]
<1>1. /\ pc(a) \in {"draining", "final"} /\ Len(journal[a]) > Len(call[a].committed)
      /\ call' = [call EXCEPT ![a] = new]
      /\ UNCHANGED <<attempt_count, container, journal, outcome>>
  BY DEF CommitLine, Pending, JournalOf
<1>2. Len(call[a].committed) + 1 \in 1..Len(journal[a]) /\ Len(call[a].committed) \in Nat
  BY <1>1, CallFields
<1>3. line = a
  BY <1>2 DEF SandboxInv, AttemptInv, OwnLines
<1>4. Len(journal[a]) = container[a].written
  BY <1>1 DEF SandboxInv, AttemptInv, OwnLines, Watching
<1> HIDE DEF line
<1>5. /\ new \in Call /\ new.pc = pc(a) /\ new.why = call[a].why
      /\ new.committed = Append(call[a].committed, a) /\ new.result = call[a].result
  <2>1. Append(call[a].committed, line) \in Seq(Attempts)
    BY <1>3, CallFields
  <2> QED
    BY <1>3, <2>1, CallFields DEF Call, pc
<1> HIDE DEF new
<1>6. /\ call'[a] = new /\ call' \in [Attempts -> Call]
      /\ \A b \in Attempts \ {a} : call'[b] = call[b]
  BY <1>1, <1>5, CallFields
<1>7. SandboxTypeOK'
  BY <1>1, <1>6 DEF SandboxInv, SandboxTypeOK
<1>8. /\ Len(call'[a].committed) = Len(call[a].committed) + 1
      /\ \A i \in 1..Len(call'[a].committed) : call'[a].committed[i] = a
  <2>1. /\ call[a].committed \in Seq(Attempts)
        /\ \A i \in 1..Len(call[a].committed) : call[a].committed[i] = a
    BY CallFields DEF SandboxInv, AttemptInv, OwnLines
  <2>2. call'[a].committed = Append(call[a].committed, a)
    BY <1>5, <1>6
  <2> QED
    BY <2>1, <2>2
<1>9. AttemptInv(a)'
  <2>1. Unused(a)' /\ Taken(a)' /\ Drain(a)'
    BY <1>1, <1>5, <1>6
    DEF SandboxInv, AttemptInv, Unused, Taken, Drain, pc, Up, Before
  <2>2. OwnLines(a)'
    BY <1>1, <1>2, <1>4, <1>6, <1>8, <1>5 DEF SandboxInv, AttemptInv, OwnLines, pc
  <2> QED
    BY <2>1, <2>2 DEF AttemptInv
<1> QED
  BY <1>1, <1>6, <1>7, <1>9, OneAttempt

LEMMA DrainedStep ==
    ASSUME SandboxInv, NEW a \in Attempts, Drained(a) PROVE SandboxInv'
<1>1. UNCHANGED <<attempt_count, container, journal, outcome>>
  BY DEF Drained
<1>2. CASE pc(a) = "draining" /\ call' = [call EXCEPT ![a].pc = "checking"]
  BY <1>1, <1>2, PcStep DEF Watching
<1>3. CASE /\ pc(a) = "final"
           /\ call' = [call EXCEPT ![a].pc = IF call[a].why = "exit" THEN "done" ELSE "kill"]
  <2>1. CASE call[a].why # "exit"
    BY <1>1, <1>3, <2>1, PcStep DEF Watching
  <2>2. CASE call[a].why = "exit"
    <3>1. ~(Len(journal[a]) > Len(call[a].committed))
      BY DEF Drained, Pending, JournalOf
    <3>2. /\ Len(journal[a]) = container[a].written
          /\ Len(call[a].committed) =< container[a].written
          /\ ~Up(a)
      BY <1>3, <2>2 DEF SandboxInv, AttemptInv, OwnLines, Drain, Watching
    <3>3. Len(call[a].committed) = container[a].written
      BY <3>1, <3>2, CallFields
    <3> QED
      BY <1>1, <1>3, <2>2, <3>2, <3>3, PcStep DEF Watching
  <2> QED
    BY <2>1, <2>2
<1> QED
  BY <1>2, <1>3 DEF Drained

LEMMA CheckStep ==
    ASSUME SandboxInv, NEW a \in Attempts, Check(a) PROVE SandboxInv'
<1>1. CASE Cancels(a)
  BY <1>1, EndsStep DEF Check
<1>2. CASE ~Cancels(a)
  BY <1>2, PcStep DEF Check, Watching
<1> QED
  BY <1>1, <1>2

LEMMA StoppedIsNoExit ==
    ASSUME SandboxInv, NEW a \in Attempts, pc(a) = "kill"
    PROVE  call[a].why # "exit" /\ Stopped(a) \in {"done", "raised"}
BY DEF SandboxInv, AttemptInv, Drain, Stopped

LEMMA KillFailsStep ==
    ASSUME SandboxInv, NEW a \in Attempts, KillFails(a) PROVE SandboxInv'
<1>1. PICK next \in {Stopped(a), "raised"} :
          call' = [call EXCEPT ![a].pc = next, ![a].loose = TRUE]
  BY DEF KillFails
<1>2. next \in {"done", "raised"} /\ call[a].why # "exit" /\ pc(a) = "kill"
  BY <1>1, StoppedIsNoExit DEF KillFails
<1> DEFINE new == [call[a] EXCEPT !.pc = next, !.loose = TRUE]
<1>3. /\ new \in Call /\ new.pc = next /\ new.why = call[a].why
      /\ new.committed = call[a].committed /\ new.result = call[a].result
  BY <1>2, CallFields DEF Call, Watching, After
<1>4. call' = [call EXCEPT ![a] = new]
  BY <1>1
<1> HIDE DEF new
<1> QED
  BY <1>2, <1>3, <1>4, CallStep DEF KillFails, Watching, Before

LEMMA KillStep ==
    ASSUME SandboxInv, NEW a \in Attempts, Kill(a) PROVE SandboxInv'
<1> DEFINE new == [call[a] EXCEPT !.pc = Stopped(a)]
           gone == [container[a] EXCEPT !.state = "gone"]
<1>1. /\ pc(a) = "kill" /\ UNCHANGED <<attempt_count, journal>>
      /\ outcome' \in {outcome, Cut}
      /\ call' = [call EXCEPT ![a] = new] /\ container' = [container EXCEPT ![a] = gone]
  BY DEF Kill, Torn
<1>2. call[a].why # "exit" /\ Stopped(a) \in {"done", "raised"}
  BY <1>1, StoppedIsNoExit
<1>3. /\ new \in Call /\ new.pc = Stopped(a) /\ new.why = call[a].why
     
      /\ new.committed = call[a].committed /\ new.result = call[a].result
  BY <1>2, CallFields DEF Call, Watching, After
<1>4. gone \in Container /\ gone.written = container[a].written
  BY CallFields DEF Container
<1> HIDE DEF new, gone
<1>5. /\ call'[a] = new /\ container'[a] = gone
      /\ call' \in [Attempts -> Call] /\ container' \in [Attempts -> Container]
      /\ \A b \in Attempts \ {a} : call'[b] = call[b] /\ container'[b] = container[b]
  BY <1>1, <1>3, <1>4, CallFields
<1>6. SandboxTypeOK'
  BY <1>1, <1>5, OutcomeTypes DEF SandboxInv, SandboxTypeOK
<1>7. AttemptInv(a)'
  <2>1. Unused(a)' /\ OwnLines(a)'
    BY <1>1, <1>2, <1>3, <1>4, <1>5
    DEF SandboxInv, AttemptInv, Unused, OwnLines, pc, Before, Watching
  <2>2. Taken(a)'
    BY <1>1, <1>2, <1>3, <1>5 DEF SandboxInv, AttemptInv, Taken, pc, Watching
  <2>3. Drain(a)'
    BY <1>2, <1>3, <1>5 DEF Drain, pc
  <2> QED
    BY <2>1, <2>2, <2>3 DEF AttemptInv
<1> QED
  BY <1>1, <1>5, <1>6, <1>7, OneAttempt

LEMMA ReturnStep ==
    ASSUME SandboxInv, NEW a \in Attempts, Return(a) PROVE SandboxInv'
<1>1. /\ pc(a) \in {"raised", "done"} /\ UNCHANGED <<attempt_count, container, outcome>>
      /\ journal' = [journal EXCEPT ![a] = <<>>]
  BY DEF Return, JournalOf
<1>2. PICK result \in {"ok", "retry", "failed"} :
          /\ \E who \in Nat :
                call' = [call EXCEPT ![a].pc = "completing", ![a].result = result,
                                     ![a].author = who]
          /\ result # "failed" => pc(a) = "done"
  <2>1. CASE /\ pc(a) = "raised"
             /\ call' = [call EXCEPT ![a].pc = "completing", ![a].result = "failed"]
    <3> DEFINE who == call[a].author
    <3>1. who \in Nat /\ call \in [Attempts -> Call]
      BY CallFields DEF Call
    <3>2. call' = [call EXCEPT ![a].pc = "completing", ![a].result = "failed", ![a].author = who]
      BY <2>1, <3>1 DEF Call
    <3> QED
      BY <2>1, <3>1, <3>2
  <2>2. CASE pc(a) = "done" /\ ~(pc(a) = "raised")
    <3>1. PICK result \in Found(a) :
              call' = [call EXCEPT ![a].pc = "completing", ![a].result = result,
                            ![a].author = IF result = "failed" THEN 0 ELSE outcome.author]
      BY <2>2 DEF Return
    <3>2. result \in {"ok", "retry", "failed"}
      BY DEF Found
    <3>3. (IF result = "failed" THEN 0 ELSE outcome.author) \in Nat
      BY DEF SandboxInv, SandboxTypeOK, Outcome
    <3> QED
      BY <2>2, <3>1, <3>2, <3>3
  <2> QED
    BY <1>1, <2>1, <2>2 DEF Return
<1>w. PICK who \in Nat : call' = [call EXCEPT ![a].pc = "completing", ![a].result = result,
                                             ![a].author = who]
  BY <1>2
<1> DEFINE new == [call[a] EXCEPT !.pc = "completing", !.result = result, !.author = who]
<1>3. /\ new \in Call /\ new.pc = "completing" /\ new.why = call[a].why
     
      /\ new.committed = call[a].committed /\ new.result = result
  BY CallFields DEF Call, After
<1>4. call' = [call EXCEPT ![a] = new]
  BY <1>w
<1> HIDE DEF new
<1>5. /\ call'[a] = new /\ journal'[a] = <<>>
      /\ call' \in [Attempts -> Call] /\ journal' \in [Attempts -> Seq(Attempts)]
      /\ \A b \in Attempts \ {a} : call'[b] = call[b] /\ journal'[b] = journal[b]
  <2>1. <<>> \in Seq(Attempts)
    OBVIOUS
  <2> QED
    BY <1>1, <1>3, <1>4, <2>1, CallFields
<1>6. SandboxTypeOK'
  BY <1>1, <1>5, OutcomeTypes DEF SandboxInv, SandboxTypeOK
<1>7. AttemptInv(a)'
  <2>1. Unused(a)' /\ OwnLines(a)'
    <3>1. Unused(a)'
      BY <1>1, <1>3, <1>5 DEF SandboxInv, AttemptInv, Unused, pc, Before, Watching
    <3>2. OwnLines(a)'
      BY <1>1, <1>3, <1>5 DEF SandboxInv, AttemptInv, OwnLines, pc, Before, Watching
    <3> QED
      BY <3>1, <3>2
  <2>2. Taken(a)'
    BY <1>1, <1>2, <1>3, <1>5 DEF Taken, pc, Watching
  <2>3. Drain(a)'
    <3>1. call[a].result = "none"
      BY <1>1 DEF SandboxInv, AttemptInv, Taken
    <3> QED
      BY <1>1, <1>2, <1>3, <1>5, <3>1 DEF SandboxInv, AttemptInv, Drain, pc, Up
  <2> QED
    BY <2>1, <2>2, <2>3 DEF AttemptInv
<1> QED
  BY <1>1, <1>5, <1>6, <1>7, OneAttempt

LEMMA CompleteStep ==
    ASSUME SandboxInv, NEW a \in Attempts, Complete(a) PROVE SandboxInv'
BY PcStep DEF Complete, Watching, After

LEMMA CrashStep ==
    ASSUME SandboxInv, NEW a \in Attempts, Crash(a) PROVE SandboxInv'
BY PcStep DEF Crash, Watching, After

-----------------------------------------------------------------------------
LEMMA SandboxStep == SandboxInv /\ [Next]_vars => SandboxInv'
<1> SUFFICES ASSUME SandboxInv, [Next]_vars PROVE SandboxInv'
  OBVIOUS
<1>1. ASSUME NEW a \in Attempts, Runs(a) \/ Killed(a) PROVE SandboxInv'
  BY <1>1, ContainerStep, EndLineStep DEF Runs
<1>2. ASSUME NEW a \in Attempts, Watches(a) \/ TimeOut(a) \/ KillFails(a) PROVE SandboxInv'
  <2>1. CASE FailLine(a)
    BY <2>1, EndsStep DEF FailLine
  <2>4. CASE TimeOut(a)
    BY <2>4, EndsStep DEF TimeOut
  <2>2. CASE Look(a) \/ CommitLine(a) \/ Drained(a)
    BY <2>2, LookStep, CommitLineStep, DrainedStep
  <2>3. CASE Check(a) \/ Kill(a) \/ KillFails(a)
    BY <2>3, CheckStep, KillStep, KillFailsStep
  <2> QED
    BY <1>2, <2>1, <2>2, <2>3, <2>4 DEF Watches
<1>3. ASSUME NEW a \in Attempts,
             \/ Begin(a) \/ Refuse(a) \/ Heartbeat(a) \/ HeartbeatRaises(a)
             \/ Return(a) \/ Complete(a) \/ Crash(a)
      PROVE  SandboxInv'
  BY <1>3, BeginStep, RefuseStep, HeartbeatStep, ReturnStep, CompleteStep, CrashStep
<1>4. CASE UNCHANGED vars
  <2>1. SandboxTypeOK'
    BY <1>4 DEF vars, SandboxInv, SandboxTypeOK
  <2>2. ASSUME NEW b \in Attempts PROVE AttemptInv(b)'
    BY <1>4, Untouched DEF vars, SandboxInv, SandboxTypeOK
  <2> QED
    BY <2>1, <2>2 DEF SandboxInv
<1> QED
  BY <1>1, <1>2, <1>3, <1>4, ClaimStep, ItemStep DEF Next, Steps, Failures

\* The inductive invariant holds in every behaviour.
THEOREM SandboxInvHolds == Spec => []SandboxInv
<1> QED
  BY InitSandbox, SandboxStep, PTL DEF Spec

\* What is committed is what the attempt's container wrote, and the drain after
\* the loop takes what it wrote last (sandbox.py, _run_cancellable).
THEOREM OwnCheckpointsAreCommitted == Spec => []CheckpointsAreOwn
<1>1. SandboxInv => CheckpointsAreOwn
  BY DEF SandboxInv, AttemptInv, OwnLines, Drain, CheckpointsAreOwn
<1> QED
  BY <1>1, SandboxInvHolds, PTL

-----------------------------------------------------------------------------
(* The outcome file, which the attempts share.                             *)

\* The attempt's loop is over.
Ended == {"done", "raised", "completing", "finished"}

\* Neither will its container be started nor is it running.
Over(a) == pc(a) \notin Before /\ ~Up(a)

\* Whose outcome an attempt can find: its own, that of one that was not over
\* when it began, or of a later one, which takes its lease away.
MayHear(a) == {a} \cup call[a].beside \cup {b \in Attempts : b > a}

\* The authors have begun and are among those an attempt can hear.
Heard(a) ==
    /\ outcome.content \in {"ok", "retry"} =>
          /\ outcome.author \in Attempts /\ outcome.author =< attempt_count
          /\ pc(a) \in Watching => outcome.author \in MayHear(a)
    /\ call[a].result \in {"ok", "retry"} =>
          call[a].author \in MayHear(a) /\ call[a].author =< attempt_count

\* While an attempt runs, those before it that are not over are known since it began.
Alongside(a) ==
    /\ pc(a) \in Watching => \A b \in Attempts : b < a /\ ~Over(b) => b \in call[a].beside
    /\ \A b \in call[a].beside : b < a /\ call[b].loose

\* The item is claimed again only after an attempt that is over or loose.
Left(a) ==
    /\ pc(a) \in Ended => ~Up(a) \/ call[a].loose
    /\ a < attempt_count \/ (a = attempt_count /\ status = "ready") =>
          Over(a) \/ call[a].loose

SharedInv == \A a \in Attempts : Heard(a) /\ Alongside(a) /\ Left(a)

\* What a step does to an attempt that neither is claimed nor begins.
Kept(b) ==
    /\ call'[b].beside = call[b].beside
    /\ call[b].loose => call'[b].loose
    /\ Up(b)' => Up(b)
    /\ pc(b) \notin Before => pc(b)' \notin Before
    /\ pc(b)' \in Watching => pc(b) \in Watching
    /\ pc(b)' \in Ended => pc(b) \in Ended \/ ~Up(b)' \/ call'[b].loose
    /\ \/ call'[b].result = call[b].result /\ call'[b].author = call[b].author
       \/ call'[b].result \notin {"ok", "retry"}
       \/ /\ pc(b) \in Watching /\ outcome.content \in {"ok", "retry"}
          /\ call'[b].author = outcome.author

\* A step that changes only calls, and of them one.
LEMMA KeptCall ==
    ASSUME SandboxInv, NEW a \in Attempts, UNCHANGED container,
           \A b \in Attempts \ {a} : call'[b] = call[b],
           call'[a].beside = call[a].beside, call[a].loose => call'[a].loose,
           pc(a) \notin Before => call'[a].pc \notin Before,
           call'[a].pc \in Watching => pc(a) \in Watching,
           call'[a].pc \in Ended => pc(a) \in Ended \/ ~Up(a) \/ call'[a].loose,
           \/ call'[a].result = call[a].result /\ call'[a].author = call[a].author
           \/ call'[a].result \notin {"ok", "retry"}
           \/ /\ pc(a) \in Watching /\ outcome.content \in {"ok", "retry"}
              /\ call'[a].author = outcome.author
    PROVE  \A b \in Attempts : Kept(b)
<1>1. ASSUME NEW b \in Attempts, b # a PROVE Kept(b)
  BY <1>1 DEF Kept, Up, pc
<1>2. Kept(a)
  BY DEF Kept, Up, pc
<1> QED
  BY <1>1, <1>2

\* The program counter and the reason.
LEMMA KeptPc ==
    ASSUME SandboxInv, NEW a \in Attempts, NEW next, UNCHANGED container,
           \/ call' = [call EXCEPT ![a].pc = next]
           \/ \E reason : call' = [call EXCEPT ![a].pc = next, ![a].why = reason],
           pc(a) \notin Before => next \notin Before,
           next \in Watching => pc(a) \in Watching,
           next \in Ended => pc(a) \in Ended \/ ~Up(a)
    PROVE  \A b \in Attempts : Kept(b)
<1>1. call \in [Attempts -> Call] /\ call[a] \in Call
  BY CallFields
<1>2. /\ \A b \in Attempts \ {a} : call'[b] = call[b]
      /\ call'[a].pc = next /\ call'[a].beside = call[a].beside
      /\ call'[a].loose = call[a].loose /\ call'[a].result = call[a].result
      /\ call'[a].author = call[a].author
  <2>1. CASE call' = [call EXCEPT ![a].pc = next]
    BY <1>1, <2>1 DEF Call
  <2>2. CASE \E reason : call' = [call EXCEPT ![a].pc = next, ![a].why = reason]
    <3>1. PICK reason : call' = [call EXCEPT ![a].pc = next, ![a].why = reason]
      BY <2>2
    <3> QED
      BY <1>1, <3>1 DEF Call
  <2> QED
    BY <2>1, <2>2
<1> QED
  BY <1>2, KeptCall

\* The container works or ends.
LEMMA KeptContainer ==
    ASSUME SandboxInv, NEW a \in Attempts, Runs(a) \/ Killed(a)
    PROVE  /\ \A b \in Attempts : Kept(b)
           /\ UNCHANGED <<status, attempt_count>>
           /\ outcome' \in {outcome, Cut} \/ (Up(a) /\ outcome'.author = a)
<1>1. /\ UNCHANGED <<status, attempt_count, call>>
      /\ outcome' \in {outcome, Cut} \/ (Up(a) /\ outcome'.author = a)
      /\ \/ container' = [container EXCEPT ![a].state = "exited"]
         \/ container' = [container EXCEPT ![a].half = TRUE]
         \/ container' = [container EXCEPT ![a].half = FALSE, ![a].written = @ + 1]
         \/ container' = [container EXCEPT ![a].wrote = TRUE]
  <2>1. CASE WriteOutcome(a)
    BY <2>1 DEF WriteOutcome, Works
  <2>2. CASE MainRaises(a) \/ StartLine(a) \/ EndLine(a) \/ Exit(a) \/ Killed(a)
    BY <2>2 DEF MainRaises, StartLine, EndLine, Exit, Killed, Torn
  <2> QED
    BY <2>1, <2>2 DEF Runs
<1>2. container \in [Attempts -> Container]
  BY CallFields
<1>3. ASSUME NEW b \in Attempts PROVE Up(b)' => Up(b)
  BY <1>1, <1>2 DEF Up, Container
<1>4. ASSUME NEW b \in Attempts PROVE Kept(b)
  BY <1>1, <1>3 DEF Kept, pc
<1> QED
  BY <1>1, <1>4

\* The loop that watches it.
LEMMA KeptLoop ==
    ASSUME SandboxInv, NEW a \in Attempts,
           Look(a) \/ FailLine(a) \/ Drained(a) \/ Check(a) \/ TimeOut(a)
    PROVE  (\A b \in Attempts : Kept(b)) /\ UNCHANGED <<status, attempt_count, outcome>>
<1>u. UNCHANGED <<status, attempt_count, container, outcome>>
  BY DEF Look, FailLine, Drained, Check, TimeOut
<1>1. CASE Look(a) \/ FailLine(a) \/ Check(a) \/ TimeOut(a)
  <2>1. PICK next \in {"draining", "final", "kill", "polling"} :
           \/ call' = [call EXCEPT ![a].pc = next]
           \/ \E reason : call' = [call EXCEPT ![a].pc = next, ![a].why = reason]
    BY <1>1 DEF Look, FailLine, Check, TimeOut
  <2>2. pc(a) \in Watching
    BY <1>1 DEF Look, FailLine, Check, TimeOut, Watching
  <2> QED
    BY <1>u, <2>1, <2>2, KeptPc DEF Before, Watching, Ended
<1>2. CASE Drained(a)
  <2>1. PICK next \in {"checking", "done", "kill"} :
           /\ call' = [call EXCEPT ![a].pc = next]
           /\ next = "done" => pc(a) = "final" /\ call[a].why = "exit"
    BY <1>2 DEF Drained
  <2>2. pc(a) \in Watching
    BY <1>2 DEF Drained, Watching
  <2>3. next = "done" => ~Up(a)
    BY <2>1 DEF SandboxInv, AttemptInv, Drain
  <2> QED
    BY <1>u, <2>1, <2>2, <2>3, KeptPc DEF Before, Watching, Ended
<1> QED
  BY <1>1, <1>2, <1>u

\* Steps that write other fields of a call.
LEMMA KeptFields ==
    ASSUME SandboxInv, NEW a \in Attempts,
           Heartbeat(a) \/ HeartbeatRaises(a) \/ CommitLine(a) \/ KillFails(a)
    PROVE  (\A b \in Attempts : Kept(b)) /\ UNCHANGED <<status, attempt_count, outcome>>
<1>u. UNCHANGED <<status, attempt_count, container, outcome>>
  BY DEF Heartbeat, HeartbeatRaises, CommitLine, KillFails
<1>c. call \in [Attempts -> Call] /\ call[a] \in Call
  BY CallFields
<1>1. /\ \A b \in Attempts \ {a} : call'[b] = call[b]
      /\ call'[a].beside = call[a].beside /\ (call[a].loose => call'[a].loose)
      /\ call'[a].pc = pc(a) \/ (KillFails(a) /\ call'[a].loose /\ call'[a].pc \in {"done", "raised"})
      /\ call'[a].result = call[a].result /\ call'[a].author = call[a].author
  <2>1. CASE Heartbeat(a) \/ HeartbeatRaises(a)
    <3>1. call' = [call EXCEPT ![a].lost = TRUE]
      BY <2>1 DEF Heartbeat, HeartbeatRaises
    <3> QED
      BY <1>c, <3>1 DEF Call, pc
  <2>2. CASE CommitLine(a)
    <3>1. PICK lines : call' = [call EXCEPT ![a].committed = lines]
      BY <2>2 DEF CommitLine
    <3> QED
      BY <1>c, <3>1 DEF Call, pc
  <2>3. CASE KillFails(a)
    <3>1. PICK next \in {"done", "raised"} :
              call' = [call EXCEPT ![a].pc = next, ![a].loose = TRUE]
      BY <2>3 DEF KillFails, Stopped
    <3> QED
      BY <1>c, <2>3, <3>1 DEF Call
  <2> QED
    BY <2>1, <2>2, <2>3
<1>2. KillFails(a) => pc(a) \in Watching
  BY DEF KillFails, Watching
<1>3. /\ pc(a) \notin Before => call'[a].pc \notin Before
      /\ call'[a].pc \in Watching => pc(a) \in Watching
      /\ call'[a].pc \in Ended => pc(a) \in Ended \/ ~Up(a) \/ call'[a].loose
  BY <1>1, <1>2 DEF Before
<1> QED
  BY <1>u, <1>1, <1>3, KeptCall

\* docker rm -f.
LEMMA KeptKill ==
    ASSUME SandboxInv, NEW a \in Attempts, Kill(a)
    PROVE  /\ \A b \in Attempts : Kept(b)
           /\ UNCHANGED <<status, attempt_count>> /\ outcome' \in {outcome, Cut}
<1>1. /\ pc(a) = "kill" /\ UNCHANGED <<status, attempt_count>> /\ outcome' \in {outcome, Cut}
      /\ call' = [call EXCEPT ![a].pc = Stopped(a)]
      /\ container' = [container EXCEPT ![a].state = "gone"]
  BY DEF Kill, Torn
<1>2. /\ call \in [Attempts -> Call] /\ container \in [Attempts -> Container]
      /\ call[a] \in Call /\ container[a] \in Container
  BY CallFields
<1>3. ASSUME NEW b \in Attempts, b # a PROVE Kept(b)
  BY <1>1, <1>2, <1>3 DEF Kept, Up, pc
<1>4. Kept(a)
  <2>1. /\ call'[a].pc = Stopped(a) /\ call'[a].beside = call[a].beside
        /\ call'[a].loose = call[a].loose /\ call'[a].result = call[a].result
        /\ call'[a].author = call[a].author
    BY <1>1, <1>2 DEF Call
  <2>2. container'[a].state = "gone" /\ Stopped(a) \in {"done", "raised"}
    BY <1>1, <1>2 DEF Container, Stopped
  <2> QED
    BY <1>1, <2>1, <2>2 DEF Kept, Up, pc, Before, Watching
<1> QED
  BY <1>1, <1>3, <1>4

\* What follows the container.
LEMMA KeptReturn ==
    ASSUME SandboxInv, NEW a \in Attempts, Return(a)
    PROVE  (\A b \in Attempts : Kept(b)) /\ UNCHANGED <<status, attempt_count, outcome>>
<1>u. UNCHANGED <<status, attempt_count, container, outcome>> /\ pc(a) \in {"raised", "done"}
  BY DEF Return
<1>c. call \in [Attempts -> Call] /\ call[a] \in Call
  BY CallFields
<1>1. /\ \A b \in Attempts \ {a} : call'[b] = call[b]
      /\ call'[a].beside = call[a].beside /\ call'[a].loose = call[a].loose
      /\ call'[a].pc = "completing"
      /\ \/ call'[a].result = "failed"
         \/ /\ pc(a) = "done" /\ call'[a].result = outcome.content
            /\ call'[a].result \in {"ok", "retry"} /\ call'[a].author = outcome.author
  <2>1. CASE call' = [call EXCEPT ![a].pc = "completing", ![a].result = "failed"]
    BY <1>c, <2>1 DEF Call
  <2>2. CASE /\ pc(a) = "done"
             /\ \E result \in Found(a) :
                   call' = [call EXCEPT ![a].pc = "completing", ![a].result = result,
                               ![a].author = IF result = "failed" THEN 0 ELSE outcome.author]
    <3>1. PICK result \in Found(a) :
              call' = [call EXCEPT ![a].pc = "completing", ![a].result = result,
                            ![a].author = IF result = "failed" THEN 0 ELSE outcome.author]
      BY <2>2
    <3>2. result = "failed" \/ (result \in {"ok", "retry"} /\ result = outcome.content)
      BY DEF Found
    <3>3. /\ \A b \in Attempts \ {a} : call'[b] = call[b]
          /\ call'[a].beside = call[a].beside /\ call'[a].loose = call[a].loose
          /\ call'[a].pc = "completing" /\ call'[a].result = result
          /\ call'[a].author = IF result = "failed" THEN 0 ELSE outcome.author
      BY <1>c, <3>1 DEF Call
    <3> QED
      BY <2>2, <3>2, <3>3
  <2> QED
    BY <2>1, <2>2 DEF Return
<1> QED
  BY <1>u, <1>1, KeptCall DEF Before, Watching, Ended

LEMMA KeptComplete ==
    ASSUME SandboxInv, SharedInv, NEW a \in Attempts, Complete(a)
    PROVE  /\ \A b \in Attempts : Kept(b)
           /\ UNCHANGED <<attempt_count, outcome>>
           /\ status' = "ready" => \/ status = "ready"
                                   \/ Over(attempt_count)' \/ call[attempt_count].loose
<1>1. /\ UNCHANGED <<attempt_count, container, outcome>> /\ pc(a) = "completing"
      /\ call' = [call EXCEPT ![a].pc = "finished"]
  BY DEF Complete
<1>2. \A b \in Attempts : Kept(b)
  <2>1. PICK next \in {"finished"} : call' = [call EXCEPT ![a].pc = next]
    BY <1>1
  <2>2. \/ call' = [call EXCEPT ![a].pc = next]
        \/ \E reason : call' = [call EXCEPT ![a].pc = next, ![a].why = reason]
    BY <2>1
  <2> QED
    BY <1>1, <2>1, <2>2, KeptPc DEF Before, Watching, Ended
<1>3. ASSUME HoldsLease(a) PROVE Over(a)' \/ call[a].loose
  <2>1. ~Up(a) \/ call[a].loose
    BY <1>1 DEF SharedInv, Left, Ended
  <2>2. pc(a)' = "finished" /\ (Up(a)' => Up(a))
    BY <1>1, CallFields DEF Call, pc, Up
  <2> QED
    BY <2>1, <2>2 DEF Over, Before
<1>4. HoldsLease(a) => a = attempt_count
  BY DEF HoldsLease
<1> QED
  BY <1>1, <1>2, <1>3, <1>4 DEF Complete

\* The reaper, a cancellation, a worker that is refused or dies.
LEMMA KeptOthers ==
    ASSUME SandboxInv, Expire \/ CancelRun \/ \E a \in Attempts : Refuse(a) \/ Crash(a)
    PROVE  /\ \A b \in Attempts : Kept(b)
           /\ UNCHANGED attempt_count /\ outcome' \in {outcome, Absent}
           /\ status' = "ready" => \/ status = "ready"
                                   \/ attempt_count \in Attempts => call'[attempt_count].loose
<1>c. call \in [Attempts -> Call]
  BY DEF SandboxInv, SandboxTypeOK
<1>1. CASE CancelRun
  <2>1. UNCHANGED <<attempt_count, call, container, outcome>> /\ status' = "cancelled"
    BY <1>1 DEF CancelRun
  <2> QED
    BY <2>1 DEF Kept, pc, Up
<1>2. CASE Expire
  <2>1. /\ UNCHANGED <<attempt_count, container, outcome>>
        /\ call' = [call EXCEPT ![attempt_count].loose = TRUE]
    BY <1>2 DEF Expire
  <2>2. ASSUME NEW b \in Attempts
        PROVE  /\ call'[b].beside = call[b].beside /\ (call[b].loose => call'[b].loose)
               /\ call'[b].pc = call[b].pc /\ call'[b].result = call[b].result
               /\ call'[b].author = call[b].author
               /\ b = attempt_count => call'[b].loose
    BY <1>c, <2>1 DEF Call
  <2>3. \A b \in Attempts : Kept(b)
    BY <2>1, <2>2 DEF Kept, pc, Up
  <2> QED
    BY <2>1, <2>2, <2>3
<1>3. ASSUME NEW a \in Attempts, Refuse(a)
      PROVE  /\ \A b \in Attempts : Kept(b)
             /\ UNCHANGED <<status, attempt_count>> /\ outcome' = Absent
  <2>1. /\ UNCHANGED <<status, attempt_count, container>> /\ outcome' = Absent
        /\ pc(a) = "claimed" /\ call' = [call EXCEPT ![a].pc = "raised"]
    BY <1>3 DEF Refuse, Cleared
  <2>2. ~Up(a)
    BY <2>1 DEF SandboxInv, AttemptInv, Unused, Before, Up
  <2> QED
    <3>1. PICK next \in {"raised"} : call' = [call EXCEPT ![a].pc = next]
      BY <2>1
    <3>2. \/ call' = [call EXCEPT ![a].pc = next]
          \/ \E reason : call' = [call EXCEPT ![a].pc = next, ![a].why = reason]
      BY <3>1
    <3> QED
      BY <2>1, <2>2, <3>1, <3>2, KeptPc DEF Before, Watching
<1>4. ASSUME NEW a \in Attempts, Crash(a)
      PROVE  (\A b \in Attempts : Kept(b)) /\ UNCHANGED <<status, attempt_count, outcome>>
  <2>1. /\ UNCHANGED <<status, attempt_count, container, outcome>>
        /\ call' = [call EXCEPT ![a].pc = "dead"]
    BY <1>4 DEF Crash
  <2> QED
    <3>1. PICK next \in {"dead"} : call' = [call EXCEPT ![a].pc = next]
      BY <2>1
    <3>2. \/ call' = [call EXCEPT ![a].pc = next]
          \/ \E reason : call' = [call EXCEPT ![a].pc = next, ![a].why = reason]
      BY <3>1
    <3> QED
      BY <2>1, <3>1, <3>2, KeptPc DEF Before, Watching, Ended
<1> QED
  BY <1>1, <1>2, <1>3, <1>4

\* A step in which every attempt is kept: an author is one that is up, and what
\* becomes ready was left by an attempt that is over or loose.
LEMMA KeptStep ==
    ASSUME SandboxInv, SharedInv, \A b \in Attempts : Kept(b), UNCHANGED attempt_count,
           \/ outcome' \in {outcome, Absent, Cut}
           \/ \E b \in Attempts : Up(b) /\ outcome'.author = b,
           status' = "ready" => \/ status = "ready"
                                \/ attempt_count \in Attempts =>
                                      Over(attempt_count)' \/ call'[attempt_count].loose
    PROVE  SharedInv'
<1> SUFFICES ASSUME NEW a \in Attempts PROVE Heard(a)' /\ Alongside(a)' /\ Left(a)'
  BY DEF SharedInv
<1>i. \A b \in Attempts : b \in Nat /\ (b > attempt_count <=> pc(b) = "none")
  BY DEF Attempts, SandboxInv, AttemptInv, Unused
<1>n. attempt_count \in Nat
  BY DEF SandboxInv, SandboxTypeOK
<1>k. /\ Kept(a) /\ Heard(a) /\ Alongside(a) /\ Left(a)
      /\ MayHear(a)' = MayHear(a)
  BY DEF SharedInv, Kept, MayHear
<1>o. ASSUME NEW b \in Attempts, Over(b) PROVE Over(b)'
  BY <1>o DEF Kept, Over
<1>1. Heard(a)'
  <2>1. CASE outcome' \in {outcome, Absent, Cut}
    BY <1>k, <2>1 DEF Kept, Heard, Absent, Cut
  <2>2. ASSUME NEW b \in Attempts, Up(b), outcome'.author = b PROVE Heard(a)'
    <3>1. b =< attempt_count
      BY <1>i, <1>n, <2>2, UpHasBegun DEF Before
    <3>2. pc(a) \in Watching => b \in MayHear(a)
      BY <1>i, <1>k, <2>2 DEF Alongside, MayHear, Over
    <3> QED
      BY <1>k, <2>2, <3>1, <3>2 DEF Kept, Heard
  <2> QED
    BY <2>1, <2>2
<1>2. Alongside(a)'
  <2>1. \A b \in Attempts : ~Over(b)' => ~Over(b)
    BY <1>o
  <2>2. call[a].beside \subseteq Attempts
    BY CallFields DEF Call
  <2> QED
    BY <1>k, <2>1, <2>2 DEF Kept, Alongside
<1>3. Left(a)'
  <2>1. pc(a)' \in Ended => ~Up(a)' \/ call'[a].loose
    BY <1>k DEF Kept, Left
  <2>2. a < attempt_count \/ (a = attempt_count /\ status' = "ready") => Over(a)' \/ call'[a].loose
    BY <1>k, <1>o DEF Kept, Left
  <2> QED
    BY <2>1, <2>2 DEF Left
<1> QED
  BY <1>1, <1>2, <1>3

\* The next attempt.
LEMMA SharedClaim == ASSUME SandboxInv, SharedInv, Claim PROVE SharedInv'
<1> DEFINE n == attempt_count + 1
<1>1. /\ attempt_count \in Nat /\ attempt_count' = n /\ status = "ready" /\ status' = "leased"
      /\ call' = [call EXCEPT ![n].pc = "claimed"] /\ call \in [Attempts -> Call]
      /\ UNCHANGED <<container, outcome>>
  BY DEF Claim, SandboxInv, SandboxTypeOK
<1>2. ASSUME NEW b \in Attempts
      PROVE  /\ b \in Nat /\ (b > attempt_count <=> pc(b) = "none")
             /\ call'[b].pc = IF b = n THEN "claimed" ELSE pc(b)
             /\ call'[b].beside = call[b].beside /\ call'[b].loose = call[b].loose
             /\ call'[b].result = call[b].result /\ call'[b].author = call[b].author
             /\ Up(b)' = Up(b)
  BY <1>1 DEF Call, Attempts, SandboxInv, AttemptInv, Unused, pc, Up
<1> SUFFICES ASSUME NEW a \in Attempts PROVE Heard(a)' /\ Alongside(a)' /\ Left(a)'
  BY DEF SharedInv
<1>o. \A b \in Attempts : Over(b)' <=> Over(b)
  BY <1>1, <1>2 DEF Over, Before, pc
<1>3. /\ Heard(a) /\ Alongside(a) /\ Left(a) /\ MayHear(a)' = MayHear(a)
      /\ pc(a)' \in Watching <=> pc(a) \in Watching
      /\ pc(a)' \in Ended <=> pc(a) \in Ended
  BY <1>1, <1>2 DEF SharedInv, MayHear, Watching, Ended, pc
<1>4. Heard(a)'
  <2>1. outcome.author \in Nat /\ call[a].author \in Nat
    BY CallFields DEF SandboxInv, SandboxTypeOK, Outcome, Call
  <2>2. \A k \in Nat : k =< attempt_count => k =< attempt_count'
    BY <1>1
  <2> QED
    BY <1>1, <1>2, <1>3, <2>1, <2>2 DEF Heard
<1>5. Alongside(a)'
  <2>1. call[a].beside \subseteq Attempts
    BY CallFields DEF Call
  <2> QED
    BY <1>2, <1>3, <1>o, <2>1 DEF Alongside
<1>6. Left(a)'
  BY <1>1, <1>2, <1>3, <1>o DEF Left
<1> QED
  BY <1>4, <1>5, <1>6

\* The next container, which begins without an outcome file.
LEMMA SharedBegin ==
    ASSUME SandboxInv, SharedInv, NEW c \in Attempts, Begin(c) PROVE SharedInv'
<1> DEFINE others == {b \in 1..c - 1 : pc(b) = "claimed" \/ Up(b)}
<1>1. /\ pc(c) = "claimed" /\ UNCHANGED <<status, attempt_count>> /\ outcome' = Absent
      /\ call' = [call EXCEPT ![c].pc = "polling", ![c].beside = others]
      /\ \E program : container' = [container EXCEPT ![c].state = "up", ![c].program = program]
  BY DEF Begin, Cleared
<1>i. \A b \in Attempts : b \in Nat /\ (b > attempt_count <=> pc(b) = "none")
  BY DEF Attempts, SandboxInv, AttemptInv, Unused
<1>n. attempt_count \in Nat
  BY DEF SandboxInv, SandboxTypeOK
<1> HIDE DEF others
<1>2. /\ \A b \in Attempts \ {c} : call'[b] = call[b] /\ container'[b] = container[b]
      /\ call'[c].pc = "polling" /\ call'[c].beside = others
      /\ call'[c].loose = call[c].loose /\ call'[c].result = call[c].result
      /\ call'[c].author = call[c].author
  BY <1>1, CallFields DEF Call
<1>u. container'[c].state = "up"
  BY <1>1, CallFields DEF Container
<1>3. call[c].result = "none" /\ ~Over(c) /\ ~Over(c)'
  BY <1>1, <1>2, <1>u DEF SandboxInv, AttemptInv, Unused, Before, Over, Up, pc
<1>o. \A b \in Attempts : Over(b)' <=> Over(b)
  BY <1>2, <1>3 DEF Over, Up, pc
<1>l. \A b \in Attempts : call'[b].loose = call[b].loose
  BY <1>2
<1>4. \A b \in Attempts : b < c /\ ~Over(b) <=> b \in others
  BY <1>1, <1>i, <1>n DEF others, Over, Before, Attempts
<1>5. \A b \in others : b \in Attempts /\ b < c /\ call[b].loose
  <2>1. others \subseteq Attempts
    BY SandboxAssumption DEF others, Attempts
  <2>2. c =< attempt_count
    BY <1>1, <1>i, <1>n
  <2> QED
    BY <1>4, <1>i, <1>n, <2>1, <2>2 DEF SharedInv, Left
<1>6. ASSUME NEW a \in Attempts, a # c PROVE Heard(a)' /\ Alongside(a)' /\ Left(a)'
  <2>1. /\ Heard(a) /\ Alongside(a) /\ Left(a) /\ call'[a] = call[a] /\ container'[a] = container[a]
        /\ call[a].beside \subseteq Attempts
    BY <1>2, <1>6, CallFields DEF SharedInv, Call
  <2>2. Heard(a)'
    BY <1>1, <2>1 DEF Heard, Absent, MayHear
  <2>3. Alongside(a)'
    BY <1>l, <1>o, <2>1 DEF Alongside, pc
  <2>4. Left(a)'
    BY <1>1, <1>o, <2>1 DEF Left, Up, pc
  <2> QED
    BY <2>2, <2>3, <2>4
<1>7. Heard(c)'
  BY <1>1, <1>2, <1>3 DEF Heard, Absent
<1>8. Alongside(c)'
  BY <1>2, <1>4, <1>5, <1>l, <1>o DEF Alongside
<1>9. Left(c)'
  BY <1>1, <1>2, <1>3, <1>l DEF SharedInv, Left, Ended, pc
<1> QED
  BY <1>6, <1>7, <1>8, <1>9 DEF SharedInv

LEMMA SharedStep == SandboxInv /\ SharedInv /\ [Next]_vars => SharedInv'
<1> SUFFICES ASSUME SandboxInv, SharedInv, [Next]_vars PROVE SharedInv'
  OBVIOUS
<1>1. ASSUME NEW a \in Attempts, Runs(a) \/ Killed(a) \/ Kill(a) PROVE SharedInv'
  BY <1>1, KeptContainer, KeptKill, KeptStep
<1>2. ASSUME NEW a \in Attempts,
             \/ Look(a) \/ FailLine(a) \/ Drained(a) \/ Check(a) \/ TimeOut(a)
             \/ Heartbeat(a) \/ HeartbeatRaises(a) \/ CommitLine(a) \/ KillFails(a)
             \/ Return(a)
      PROVE  SharedInv'
  <2>1. (\A b \in Attempts : Kept(b)) /\ UNCHANGED <<status, attempt_count, outcome>>
    BY <1>2, KeptLoop, KeptFields, KeptReturn
  <2> QED
    BY <2>1, KeptStep
<1>3. ASSUME NEW a \in Attempts, Complete(a) PROVE SharedInv'
  <2>1. /\ \A b \in Attempts : Kept(b)
        /\ UNCHANGED <<attempt_count, outcome>>
        /\ status' = "ready" => \/ status = "ready"
                                \/ Over(attempt_count)' \/ call[attempt_count].loose
    BY <1>3, KeptComplete
  <2> QED
    BY <2>1, KeptStep DEF Kept
<1>4. CASE Expire \/ CancelRun \/ \E a \in Attempts : Refuse(a) \/ Crash(a)
  BY <1>4, KeptOthers, KeptStep
<1>5. CASE UNCHANGED vars
  <2>1. UNCHANGED <<status, attempt_count, call, container, outcome>>
    BY <1>5 DEF vars
  <2>2. \A b \in Attempts : Kept(b)
    BY <2>1 DEF Kept, pc, Up
  <2> QED
    BY <2>1, <2>2, KeptStep
<1> QED
  BY <1>1, <1>2, <1>3, <1>4, <1>5, SharedClaim, SharedBegin
  DEF Next, Steps, Failures, Runs, Watches

LEMMA InitShared == Init => SharedInv
<1> SUFFICES ASSUME Init, NEW a \in Attempts PROVE Heard(a) /\ Alongside(a) /\ Left(a)
  BY DEF SharedInv
<1> QED
  BY DEF Init, Heard, Alongside, Left, Absent, Watching, Ended, pc, Attempts

\* What one reads in the shared file has an author, and the authors are known.
THEOREM SharedInvHolds == Spec => []SharedInv
<1> QED
  BY InitShared, SharedStep, SandboxInvHolds, PTL DEF Spec

\* The file is cleared before the container starts (runtime.py, run), and what is
\* accepted from the holder of the lease was written by its own container or by
\* one that its lease or docker rm let go (sandbox.py, _run_cancellable).
THEOREM ForeignOutcomesHaveCauses == Spec => []ForeignOutcomeHasCause
<1>1. SandboxInv /\ SharedInv => ForeignOutcomeHasCause
  <2> SUFFICES ASSUME SandboxInv, SharedInv, NEW a \in Attempts, Accepts(a)
               PROVE  call[a].author = a
                      \/ (call[a].author \in call[a].beside /\ call[call[a].author].loose)
    BY DEF ForeignOutcomeHasCause
  <2>1. call[a].author \in MayHear(a) /\ call[a].author =< attempt_count /\ a = attempt_count
    BY DEF SharedInv, Heard, Accepts, HoldsLease
  <2>2. ~(call[a].author > a)
    BY <2>1, CallFields DEF Call, Attempts, SandboxInv, SandboxTypeOK
  <2> QED
    BY <2>1, <2>2 DEF MayHear, SharedInv, Alongside
<1> QED
  BY <1>1, SandboxInvHolds, SharedInvHolds, PTL

\* As long as no lease runs out and docker rm does what it is told, every accepted
\* outcome is the attempt's own, whatever else goes wrong.
THEOREM OutcomesAreOwn ==
    ASSUME Faults \cap {"expire", "rm"} = {}
    PROVE  Spec => []AcceptedOutcomeIsOwn
<1> DEFINE NoneLoose == \A a \in Attempts : ~call[a].loose
<1>1. Init => NoneLoose
  BY DEF Init
<1>2. SandboxInv /\ NoneLoose /\ [Next]_vars => NoneLoose'
  <2> SUFFICES ASSUME SandboxInv, NoneLoose, [Next]_vars, NEW a \in Attempts
               PROVE  ~call'[a].loose
    OBVIOUS
  <2>1. \/ call' = call \/ Claim
        \/ \E b \in Attempts : \/ Begin(b) \/ Heartbeat(b) \/ Watches(b) \/ Return(b) \/ Complete(b)
                              \/ Refuse(b) \/ HeartbeatRaises(b) \/ TimeOut(b) \/ Crash(b)
    BY DEF Next, Steps, Failures, Runs, MainRaises, StartLine, EndLine, WriteOutcome, Exit,
       Killed, KillFails, Expire, CancelRun, Fault, vars
  <2>2. call \in [Attempts -> Call] /\ call[a] \in Call
    BY CallFields
  <2>3. CASE Claim
    BY <2>2, <2>3 DEF Claim, Call
  <2>4. ASSUME NEW b \in Attempts, NEW next, call' = [call EXCEPT ![b].pc = next]
        PROVE  ~call'[a].loose
    BY <2>2, <2>4 DEF Call
  <2>5. ASSUME NEW b \in Attempts, NEW next, NEW x,
               \/ call' = [call EXCEPT ![b].pc = next, ![b].beside = x]
               \/ call' = [call EXCEPT ![b].pc = next, ![b].why = x]
               \/ call' = [call EXCEPT ![b].pc = next, ![b].result = x]
        PROVE  ~call'[a].loose
    BY <2>2, <2>5 DEF Call
  <2>6. ASSUME NEW b \in Attempts, NEW x,
               \/ call' = [call EXCEPT ![b].lost = x]
               \/ call' = [call EXCEPT ![b].committed = x]
        PROVE  ~call'[a].loose
    <3>1. CASE call' = [call EXCEPT ![b].lost = x]
      BY <2>2, <3>1 DEF Call
    <3>2. CASE call' = [call EXCEPT ![b].committed = x]
      BY <2>2, <3>2 DEF Call
    <3> QED
      BY <2>6, <3>1, <3>2
  <2>7. ASSUME NEW b \in Attempts, NEW x, NEW who,
               call' = [call EXCEPT ![b].pc = "completing", ![b].result = x, ![b].author = who]
        PROVE  ~call'[a].loose
    BY <2>2, <2>7 DEF Call
  <2>8. ASSUME NEW b \in Attempts, Heartbeat(b) \/ HeartbeatRaises(b) \/ CommitLine(b)
        PROVE  ~call'[a].loose
    BY <2>6, <2>8 DEF Heartbeat, HeartbeatRaises, CommitLine
  <2>9. ASSUME NEW b \in Attempts,
               Complete(b) \/ Refuse(b) \/ Crash(b) \/ Look(b) \/ Drained(b) \/ Kill(b)
        PROVE  ~call'[a].loose
    BY <2>4, <2>9 DEF Complete, Refuse, Crash, Look, Drained, Kill
  <2>10. ASSUME NEW b \in Attempts, Begin(b) \/ TimeOut(b) \/ Check(b) \/ FailLine(b)
         PROVE  ~call'[a].loose
    BY <2>4, <2>5, <2>10 DEF Begin, TimeOut, Check, FailLine
  <2>11. ASSUME NEW b \in Attempts, Return(b) PROVE ~call'[a].loose
    BY <2>5, <2>7, <2>11 DEF Return
  <2> QED
    BY <2>1, <2>3, <2>8, <2>9, <2>10, <2>11 DEF Watches
<1>3. NoneLoose /\ ForeignOutcomeHasCause /\ SandboxInv /\ SharedInv => AcceptedOutcomeIsOwn
  <2> SUFFICES ASSUME NoneLoose, ForeignOutcomeHasCause, SandboxInv, SharedInv,
                      NEW a \in Attempts, Accepts(a)
               PROVE  call[a].author = a
    BY DEF AcceptedOutcomeIsOwn
  <2>1. call[a].beside \subseteq Attempts
    BY CallFields DEF Call
  <2> QED
    BY <2>1 DEF ForeignOutcomeHasCause
<1> QED
  BY <1>1, <1>2, <1>3, SandboxInvHolds, SharedInvHolds, ForeignOutcomesHaveCauses, PTL DEF Spec

=============================================================================
