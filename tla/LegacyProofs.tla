---------------------------- MODULE LegacyProofs ----------------------------
(***************************************************************************)
(* For every set of profiles and requests and every bound: the types of    *)
(* the legacy scheduler's state, whatever copies of it are written over    *)
(* each other, and, when requests are handled one at a time, that a run    *)
(* can be resumed and that a completed one was verified.                   *)
(*                                                                         *)
(* The state file, the worker's copies and the requests' copies are each   *)
(* written back whole, so most of the argument is about any copy.          *)
(***************************************************************************)
EXTENDS LegacyProperties, TLAPS

USE SchedulerAssumption, ProgressAssumption

Stages == {"new", "loaded", "saved", "done"}

Loaded(q) == requests[q].stage = "loaded"

\* Every copy is a state, and a worker has a phase while its agent works.
Typed ==
    /\ LegacyTypeOK
    /\ requests \in [Requests -> [stage : Stages, kind : RequestKinds \cup {"none"}, copy : States]]
    /\ \A q \in Requests : Loaded(q) => requests[q].kind \in RequestKinds
    /\ pc \in {"begun", "agent"} => mem.next_action \in Phases

-----------------------------------------------------------------------------
(* What the operators on a state do.                                       *)

Progress ==
    [verified_current : BOOLEAN, last_current : Verdicts \cup {"none"},
     seen : 0..MaxTests, no_progress_count : 0..no_progress_limit,
     action : AcceptanceActions \cup {"none"}]

LEMMA StateFields ==
  ASSUME NEW s \in States
  PROVE  /\ s.profile \in Profiles \cup {"auto"}
         /\ s.active \in BOOLEAN
         /\ s.status \in {"running", "completed"} \cup Stopping
         /\ s.next_action \in Phases \cup {"route", "analyze", "none"}
         /\ s.requires_confirmation \in BOOLEAN
         /\ s.round_num \in 1..max_rounds
         /\ s.attempts \in 0..max_recovery_attempts
         /\ s.score \in {"none", "low", "ok"}
         /\ s.budget_left \in BOOLEAN
         /\ s.fingerprint \in {NoFingerprint} \cup 0..MaxEdits
         /\ s.progress \in Progress
BY DEF States, Progress

LEMMA ProgressOfDecision ==
  ASSUME NEW p \in Progress,
         NEW obs \in [artifacts_changed : BOOLEAN, token : (-1)..MaxTests,
                      verdict : Verdicts \cup {"none"}, recent_failure : BOOLEAN,
                      budget_left : BOOLEAN]
  PROVE  /\ decide(p, obs) \in Progress
         /\ decide(p, obs).verified_current =
               IF Fresh(p, obs) THEN obs.verdict = "passed"
                                ELSE ~ obs.artifacts_changed /\ p.verified_current
         /\ decide(p, obs).seen =
               IF Fresh(p, obs) /\ obs.token # ScoreToken THEN obs.token ELSE p.seen
         /\ decide(p, obs).action = "complete" => decide(p, obs).verified_current
<1> DEFINE revised == Revised(p, obs)
           credited == Credited(revised, obs)
           counted == Counted(credited, p, obs)
<1>1. /\ revised \in Progress
      /\ revised.verified_current = (~ obs.artifacts_changed /\ p.verified_current)
      /\ revised.seen = p.seen
      /\ revised.no_progress_count = p.no_progress_count
  BY DEF Revised, Progress
<1>2. Fresh(revised, obs) = Fresh(p, obs)
  BY <1>1 DEF Fresh
<1> HIDE DEF revised
<1>3. Fresh(p, obs) /\ obs.token # ScoreToken => obs.token \in 0..MaxTests
  BY DEF Fresh, ScoreToken, Progress
<1>4. /\ credited \in Progress
      /\ credited.verified_current =
            IF Fresh(p, obs) THEN obs.verdict = "passed" ELSE revised.verified_current
      /\ credited.seen = IF Fresh(p, obs) /\ obs.token # ScoreToken THEN obs.token ELSE p.seen
  BY ZenonT(60), <1>1, <1>2, <1>3 DEF Credited, Progress, Verdicts
<1> HIDE DEF credited
<1>5. /\ counted \in Progress
      /\ counted.verified_current = credited.verified_current
      /\ counted.seen = credited.seen
  BY <1>4 DEF Counted, Progress
<1> HIDE DEF counted
<1>6. Choice(counted, obs) \in AcceptanceActions
      /\ (Choice(counted, obs) = "complete" => counted.verified_current)
  BY <1>5 DEF Choice, AcceptanceActions, Progress
<1>7. decide(p, obs) = [counted EXCEPT !.action = Choice(counted, obs)]
  BY DEF decide, counted, credited, revised
<1> QED
  BY <1>1, <1>4, <1>5, <1>6, <1>7 DEF Progress

\* What has been verified: the ledger is behind the trace, the fingerprint is one
\* of the contents so far, and a current verification that no later one followed
\* is the last of the present contents, and passed.
Evident(s, a) ==
    /\ s.fingerprint <= a.content
    /\ s.progress.seen <= a.tests
    /\ s.progress.verified_current =>
          /\ s.fingerprint # NoFingerprint
          /\ s.fingerprint = a.content /\ a.latest <= s.progress.seen => a.tested = "passed"

\* The trace reports the last verification, unless a file tool invalidated it.
Traced ==
    /\ artifacts.latest <= artifacts.tests
    /\ artifacts.latest > 0 => artifacts.verdict = artifacts.tested

\* A completed state is one of a run whose present contents passed.
Accepted(s, a) ==
    s.status = "completed" =>
       /\ a.tested = "passed"
       /\ evaluator_enabled(s) => s.score = "ok"

\* t has the evidence of s.
SameEvidence(s, t) == t.fingerprint = s.fingerprint /\ t.progress = s.progress

\* t differs from s in its evidence only.
SameControl(s, t) ==
    /\ t.profile = s.profile
    /\ t.active = s.active
    /\ t.status = s.status
    /\ t.next_action = s.next_action
    /\ t.requires_confirmation = s.requires_confirmation
    /\ t.round_num = s.round_num
    /\ t.attempts = s.attempts
    /\ t.score = s.score

\* A phase that ends in t sends the run on, or pauses it.
SentOn(s, t) ==
    /\ t.status \in {s.status, "paused"}
    /\ t.requires_confirmation = s.requires_confirmation
    /\ t.next_action \in Phases \cup {"analyze", s.next_action}

LEMMA GotoState ==
  ASSUME NEW s \in States, NEW action \in Phases \cup {"plan", "analyze", "none"}
  PROVE  /\ Goto(s, action) \in States /\ SameEvidence(s, Goto(s, action))
         /\ Goto(s, action).next_action = action
         /\ Goto(s, action).status = s.status
         /\ Goto(s, action).requires_confirmation = s.requires_confirmation
         /\ Goto(s, action).profile = s.profile /\ Goto(s, action).score = s.score
BY DEF Goto, States, Phases, SameEvidence

LEMMA PausedState ==
  ASSUME NEW s \in States
  PROVE  /\ Paused(s) \in States /\ SameEvidence(s, Paused(s))
         /\ Paused(s).status = "paused"
         /\ Paused(s).next_action = s.next_action
         /\ Paused(s).requires_confirmation = s.requires_confirmation
         /\ Paused(s).round_num = s.round_num
BY DEF Paused, States, Stopping, SameEvidence

LEMMA SyncState ==
  ASSUME Typed, NEW s \in States
  PROVE  /\ Sync(s) \in States /\ SameControl(s, Sync(s))
         /\ Sync(s).progress = s.progress /\ Sync(s).budget_left = s.budget_left
         /\ Sync(s).fingerprint =
               IF s.fingerprint = NoFingerprint THEN artifacts.content ELSE s.fingerprint
<1>1. artifacts.content \in 0..MaxEdits
  BY DEF Typed, LegacyTypeOK
<1>2. CASE s.fingerprint = NoFingerprint
  <2>1. Sync(s) = [s EXCEPT !.fingerprint = artifacts.content]
    BY <1>2 DEF Sync
  <2> QED
    BY <1>1, <1>2, <2>1 DEF States, SameControl
<1>3. CASE s.fingerprint # NoFingerprint
  BY <1>3 DEF Sync, SameControl
<1> QED
  BY <1>2, <1>3

LEMMA ReconciledState ==
  ASSUME Typed, NEW s \in States
  PROVE  /\ Reconciled(s) \in States /\ SameEvidence(s, Reconciled(s))
         /\ Reconciled(s).status = s.status
         /\ Reconciled(s).requires_confirmation = s.requires_confirmation
         /\ \/ Reconciled(s).next_action = s.next_action
            \/ s.next_action = "build" /\ Reconciled(s).next_action = "analyze"
BY GotoState DEF Reconciled, SameEvidence

\* _refresh_acceptance observes what is in the workspace now.
LEMMA RefreshState ==
  ASSUME Typed, NEW s \in States, NEW recent_failure \in BOOLEAN
  PROVE  LET t == Refresh(s, recent_failure) IN
         /\ t \in States /\ SameControl(s, t)
         /\ Traced /\ Evident(s, artifacts) =>
               /\ Evident(t, artifacts)
               /\ t.progress.action = "complete" => artifacts.tested = "passed"
<1> DEFINE synced == Sync(s)
           obs == [artifacts_changed |-> synced.fingerprint # artifacts.content,
                   token |-> artifacts.latest, verdict |-> artifacts.verdict,
                   recent_failure |-> recent_failure, budget_left |-> synced.budget_left]
           decided == decide(synced.progress, obs)
           t == [synced EXCEPT !.progress = decided, !.fingerprint = artifacts.content]
<1>a. artifacts \in [content : 0..MaxEdits, tests : 0..MaxTests, latest : 0..MaxTests,
                     verdict : Verdicts \cup {"none"}, tested : Verdicts \cup {"none"}]
  BY DEF Typed, LegacyTypeOK
<1>1. /\ synced \in States /\ SameControl(s, synced)
      /\ synced.progress = s.progress
      /\ synced.fingerprint =
            IF s.fingerprint = NoFingerprint THEN artifacts.content ELSE s.fingerprint
  BY SyncState
<1>2. Refresh(s, recent_failure) = t
  BY DEF Refresh
<1> HIDE DEF synced
<1>3. /\ obs \in [artifacts_changed : BOOLEAN, token : (-1)..MaxTests,
                  verdict : Verdicts \cup {"none"}, recent_failure : BOOLEAN,
                  budget_left : BOOLEAN]
      /\ s.progress \in Progress
  BY <1>1, <1>a, StateFields
<1>4. obs.token = artifacts.latest /\ obs.verdict = artifacts.verdict
      /\ obs.artifacts_changed = (synced.fingerprint # artifacts.content)
  OBVIOUS
<1> HIDE DEF obs
<1>5. /\ decided \in Progress
      /\ decided.verified_current =
            IF Fresh(s.progress, obs) THEN obs.verdict = "passed"
                                ELSE ~ obs.artifacts_changed /\ s.progress.verified_current
      /\ decided.seen =
            IF Fresh(s.progress, obs) /\ obs.token # ScoreToken THEN obs.token ELSE s.progress.seen
      /\ decided.action = "complete" => decided.verified_current
  BY <1>1, <1>3, ProgressOfDecision
<1> HIDE DEF decided
<1>6. t \in States /\ SameControl(s, t) /\ t.progress = decided /\ t.fingerprint = artifacts.content
  BY ZenonT(60), <1>1, <1>5, <1>a DEF States, SameControl, Progress
<1> HIDE DEF t
<1>7. ASSUME Traced, Evident(s, artifacts)
      PROVE  /\ Evident(t, artifacts)
             /\ t.progress.action = "complete" => artifacts.tested = "passed"
  <2>1. /\ artifacts.latest \in Nat /\ artifacts.tests \in Nat /\ artifacts.content \in Nat
        /\ s.progress.seen \in Nat
    BY <1>3, <1>a DEF Progress
  <2>2. CASE Fresh(s.progress, obs)
    <3>1. artifacts.latest > 0 /\ decided.seen = artifacts.latest
      BY <1>4, <1>5, <2>1, <2>2 DEF Fresh, ScoreToken
    <3>2. decided.verified_current => artifacts.tested = "passed"
      BY <1>4, <1>5, <1>7, <2>2, <3>1 DEF Traced
    <3> QED
      BY <1>5, <1>6, <1>7, <2>1, <3>1, <3>2 DEF Evident, Traced, NoFingerprint
  <2>3. CASE ~ Fresh(s.progress, obs)
    <3>1. artifacts.latest =< s.progress.seen /\ decided.seen = s.progress.seen
      BY <1>4, <1>5, <2>1, <2>3 DEF Fresh
    <3>2. decided.verified_current => /\ s.progress.verified_current
                                      /\ s.fingerprint = artifacts.content
      BY <1>1, <1>4, <1>5, <1>7, <2>3 DEF Evident
    <3>3. decided.verified_current => artifacts.tested = "passed"
      BY <1>7, <3>1, <3>2 DEF Evident
    <3> QED
      BY <1>5, <1>6, <1>7, <2>1, <3>1, <3>3 DEF Evident, NoFingerprint
  <2> QED
    BY <2>2, <2>3
<1> QED
  BY <1>2, <1>6, <1>7

\* A poor score is a failure of the present revision.
LEMMA ScoreFailedState ==
  ASSUME NEW s \in States
  PROVE  /\ ScoreFailed(s) \in States /\ SameControl(s, ScoreFailed(s))
         /\ Evident(s, artifacts) => Evident(ScoreFailed(s), artifacts)
<1> DEFINE obs == [artifacts_changed |-> FALSE, token |-> ScoreToken, verdict |-> "failed",
                   recent_failure |-> TRUE, budget_left |-> s.budget_left]
           decided == decide(s.progress, obs)
           t == [s EXCEPT !.progress = decided]
<1>1. /\ obs \in [artifacts_changed : BOOLEAN, token : (-1)..MaxTests,
                  verdict : Verdicts \cup {"none"}, recent_failure : BOOLEAN,
                  budget_left : BOOLEAN]
      /\ s.progress \in Progress
  BY StateFields DEF ScoreToken, Verdicts
<1>2. obs.token = ScoreToken /\ obs.verdict = "failed"
  OBVIOUS
<1>3. ScoreFailed(s) = t
  BY DEF ScoreFailed
<1> HIDE DEF obs
<1>4. decided \in Progress /\ decided.verified_current = FALSE /\ decided.seen = s.progress.seen
  BY <1>1, <1>2, ProgressOfDecision DEF Fresh
<1> HIDE DEF decided
<1>5. t \in States /\ SameControl(s, t) /\ t.progress = decided /\ t.fingerprint = s.fingerprint
  BY <1>4 DEF States, SameControl, Progress
<1> QED
  BY <1>3, <1>4, <1>5 DEF Evident

\* A further round stays within max_rounds.
LEMMA RetryRoundState ==
  ASSUME NEW s \in States
  PROVE  /\ RetryRound(s) \in States /\ SameEvidence(s, RetryRound(s))
         /\ SentOn(s, RetryRound(s))
<1> DEFINE checked == IF "run" \in exhausted THEN Paused(s) ELSE s
           first == IF contract_enabled(s) THEN "contract" ELSE "build"
           t == [Goto(checked, first) EXCEPT !.round_num = @ + 1]
<1>1. CASE s.round_num >= max_rounds
  BY <1>1, GotoState DEF RetryRound, SentOn
<1>2. CASE ~ (s.round_num >= max_rounds)
  <2>1. /\ checked \in States /\ SameEvidence(s, checked)
        /\ checked.status \in {s.status, "paused"}
        /\ checked.next_action = s.next_action
        /\ checked.requires_confirmation = s.requires_confirmation
        /\ checked.round_num = s.round_num
    BY PausedState DEF SameEvidence
  <2>2. RetryRound(s) = IF checked.status \in Stopping THEN checked ELSE t
    BY <1>2 DEF RetryRound, NewRound
  <2>3. first \in Phases
    BY DEF Phases
  <2> HIDE DEF checked, first
  <2>4. s.round_num + 1 \in 1..max_rounds
    BY <1>2, StateFields
  <2>5. /\ t \in States /\ SameEvidence(checked, t) /\ t.status = checked.status
        /\ t.next_action = first
        /\ t.requires_confirmation = checked.requires_confirmation
    BY ZenonT(60), <2>1, <2>3, <2>4 DEF Goto, States, Phases, SameEvidence
  <2> QED
    BY <2>1, <2>2, <2>3, <2>5 DEF SameEvidence, SentOn
<1> QED
  BY <1>1, <1>2

LEMMA AfterBuildState ==
  ASSUME NEW s \in States
  PROVE  AfterBuild(s) \in States /\ SameEvidence(s, AfterBuild(s)) /\ SentOn(s, AfterBuild(s))
<1>1. AfterBuild(s) \in {RetryRound(s), Goto(s, "analyze"), Goto(s, "evaluate")}
  BY DEF AfterBuild
<1> QED
  BY <1>1, RetryRoundState, GotoState DEF SentOn, Phases

LEMMA AfterEvaluateState ==
  ASSUME NEW s \in States
  PROVE  /\ AfterEvaluate(s) \in States /\ SentOn(s, AfterEvaluate(s))
         /\ Evident(s, artifacts) => Evident(AfterEvaluate(s), artifacts)
<1> DEFINE scored == IF s.score = "ok" THEN s ELSE ScoreFailed(s)
<1>1. /\ scored \in States /\ scored.status = s.status
      /\ scored.requires_confirmation = s.requires_confirmation
      /\ scored.next_action = s.next_action
      /\ Evident(s, artifacts) => Evident(scored, artifacts)
  BY ScoreFailedState DEF SameControl
<1>2. AfterEvaluate(s) \in {RetryRound(scored), Goto(scored, "analyze")}
  BY DEF AfterEvaluate
<1> HIDE DEF scored
<1>3. AfterEvaluate(s) \in States /\ SentOn(scored, AfterEvaluate(s))
      /\ SameEvidence(scored, AfterEvaluate(s))
  BY <1>1, <1>2, RetryRoundState, GotoState DEF SentOn
<1> QED
  BY <1>1, <1>3 DEF SentOn, SameEvidence, Evident

LEMMA AfterPhaseState ==
  ASSUME Typed, NEW s \in States, NEW phase \in Phases
  PROVE  /\ AfterPhase(s, phase) \in States /\ SentOn(s, AfterPhase(s, phase))
         /\ Traced /\ Evident(s, artifacts) => Evident(AfterPhase(s, phase), artifacts)
<1> DEFINE r == Refresh(s, FALSE)
<1>1. /\ r \in States /\ SameControl(s, r)
      /\ Traced /\ Evident(s, artifacts) => Evident(r, artifacts)
  BY RefreshState
<1> HIDE DEF r
<1>2. CASE phase = "plan" \/ phase = "contract"
  <2>1. \E action \in Phases : AfterPhase(s, phase) = Goto(s, action)
    BY <1>2 DEF AfterPhase, Phases
  <2> QED
    BY <2>1, GotoState DEF SentOn, SameEvidence, Evident
<1>3. CASE phase = "build"
  <2>1. AfterPhase(s, phase) = AfterBuild(r)
    BY <1>3 DEF AfterPhase, r
  <2> QED
    BY <1>1, <2>1, AfterBuildState DEF SentOn, SameControl, SameEvidence, Evident
<1>4. CASE phase = "evaluate"
  <2>1. AfterPhase(s, phase) = AfterEvaluate(r)
    BY <1>4 DEF AfterPhase, r
  <2> QED
    BY <1>1, <2>1, AfterEvaluateState DEF SentOn, SameControl
<1> QED
  BY <1>2, <1>3, <1>4 DEF Phases

Ended(s, status) == [Goto(s, "none") EXCEPT !.active = FALSE, !.status = status]

LEMMA EndedState ==
  ASSUME NEW s \in States, NEW status \in {"completed", "error"}
  PROVE  LET t == Ended(s, status) IN
         /\ t \in States /\ t.status = status /\ t.next_action = "none"
         /\ t.requires_confirmation = s.requires_confirmation
         /\ t.profile = s.profile /\ t.score = s.score
         /\ SameEvidence(s, t)
<1> DEFINE g == Goto(s, "none")
<1>1. /\ g \in States /\ SameEvidence(s, g) /\ g.next_action = "none"
      /\ g.requires_confirmation = s.requires_confirmation
      /\ g.profile = s.profile /\ g.score = s.score
  BY GotoState
<1>2. status \in {"running", "completed"} \cup Stopping
  BY DEF Stopping
<1>3. Ended(s, status) = [g EXCEPT !.active = FALSE, !.status = status]
  BY DEF Ended
<1> DEFINE t == [g EXCEPT !.active = FALSE, !.status = status]
<1> HIDE DEF g
<1>4. /\ t.status = status /\ t.next_action = g.next_action
      /\ t.requires_confirmation = g.requires_confirmation
      /\ t.profile = g.profile /\ t.score = g.score
      /\ t.fingerprint = g.fingerprint /\ t.progress = g.progress
  BY <1>1 DEF States
<1>5. t \in States
  BY ZenonT(60), <1>1, <1>2 DEF States
<1> HIDE DEF t
<1>6. Ended(s, status) = t
  BY <1>3 DEF t
<1> QED
  BY <1>1, <1>4, <1>5, <1>6 DEF SameEvidence

\* A run ends, and as completed only with what it needs for that.
LEMMA AnalyzedState ==
  ASSUME Typed, NEW s \in States
  PROVE  /\ Analyzed(s) \in States
         /\ Analyzed(s).status \in {"completed", "error"}
         /\ Analyzed(s).next_action = "none"
         /\ Analyzed(s).requires_confirmation = s.requires_confirmation
         /\ Traced /\ Evident(s, artifacts) =>
               Evident(Analyzed(s), artifacts) /\ Accepted(Analyzed(s), artifacts)
<1> DEFINE r == Refresh(s, FALSE)
           status == IF task_success(r) THEN "completed" ELSE "error"
           t == [r EXCEPT !.next_action = "none", !.active = FALSE, !.status = status]
<1>1. /\ r \in States /\ SameControl(s, r)
      /\ Traced /\ Evident(s, artifacts) =>
            /\ Evident(r, artifacts)
            /\ r.progress.action = "complete" => artifacts.tested = "passed"
  BY RefreshState
<1>2. Analyzed(s) = t
  BY DEF Analyzed
<1>3. status = "completed" =>
         r.progress.action = "complete" /\ (evaluator_enabled(r) => r.score = "ok")
  BY DEF task_success
<1>4. status \in {"completed", "error"}
  OBVIOUS
<1> HIDE DEF r, status
<1>5. /\ t \in States /\ t.status = status /\ t.next_action = "none"
      /\ t.requires_confirmation = r.requires_confirmation
      /\ t.profile = r.profile /\ t.score = r.score
      /\ SameEvidence(r, t)
  <2>1. t = Ended(r, status)
    BY DEF Ended, Goto
  <2> QED
    BY <1>1, <1>4, <2>1, EndedState
<1> HIDE DEF t
<1> QED
  BY <1>1, <1>2, <1>3, <1>4, <1>5
     DEF SameControl, SameEvidence, Evident, Accepted, evaluator_enabled

\* A run that failed is tried again, taken to analyze or given up.
LEMMA AfterErrorState ==
  ASSUME Typed, NEW s \in States, NEW action \in Phases \cup {"analyze"}
  PROVE  LET t == AfterError(s, action) IN
         /\ t \in States
         /\ \/ t.status = "running" /\ t.next_action \in Phases \cup {"analyze"}
            \/ t.status = "error" /\ t.next_action = "none"
         /\ t.requires_confirmation = s.requires_confirmation
         /\ Traced /\ Evident(s, artifacts) => Evident(t, artifacts)
<1> DEFINE r == Refresh(s, TRUE)
           salvaged == [Goto(r, "analyze") EXCEPT !.active = TRUE, !.status = "running"]
           again == [Goto(r, action) EXCEPT !.active = TRUE, !.status = "running",
                                            !.attempts = @ + 1]
           lost == [r EXCEPT !.active = FALSE, !.status = "error", !.next_action = "none"]
<1>1. /\ r \in States /\ SameControl(s, r)
      /\ Traced /\ Evident(s, artifacts) => Evident(r, artifacts)
  BY RefreshState
<1>2. \/ AfterError(s, action) = salvaged
      \/ AfterError(s, action) = again /\ r.attempts < max_recovery_attempts
      \/ AfterError(s, action) = lost
  BY DEF AfterError, Recovered
<1> HIDE DEF r
<1>3. /\ salvaged \in States /\ SameEvidence(r, salvaged)
      /\ salvaged.status = "running" /\ salvaged.next_action = "analyze"
      /\ salvaged.requires_confirmation = r.requires_confirmation
  BY <1>1 DEF Goto, States, SameEvidence
<1>4. r.attempts < max_recovery_attempts =>
      /\ again \in States /\ SameEvidence(r, again)
      /\ again.status = "running" /\ again.next_action = action
      /\ again.requires_confirmation = r.requires_confirmation
  <2>1. r.attempts < max_recovery_attempts => r.attempts + 1 \in 0..max_recovery_attempts
    BY <1>1, StateFields
  <2> QED
    BY <1>1, <2>1 DEF Goto, States, SameEvidence
<1>5. /\ lost \in States /\ SameEvidence(r, lost)
      /\ lost.status = "error" /\ lost.next_action = "none"
      /\ lost.requires_confirmation = r.requires_confirmation
  <2>1. lost = Ended(r, "error")
    BY <1>1 DEF Ended, Goto, States
  <2> QED
    BY <1>1, <2>1, EndedState
<1> HIDE DEF salvaged, again, lost
<1> QED
  BY <1>1, <1>2, <1>3, <1>4, <1>5 DEF SameControl, SameEvidence, Evident

\* What a request makes of the copy it loaded.
LEMMA EditedState ==
  ASSUME NEW s \in States, NEW request \in RequestKinds, NEW t \in Edited(s, request)
  PROVE  /\ t \in States /\ SameEvidence(s, t)
         /\ \/ /\ t.next_action = s.next_action
               /\ t.requires_confirmation = s.requires_confirmation
               /\ t.profile = s.profile /\ t.score = s.score
               /\ \/ t.status = s.status
                  \/ s.status = "paused" /\ t.status = "running"
                  \/ s.status = "waiting_confirmation" /\ ~ s.requires_confirmation
                  \/ s.status = "running" /\ t.status = "paused"
            \/ /\ t.next_action = "plan" /\ t.status = "running"
               /\ ~ t.requires_confirmation
<1>1. ASSUME NEW active \in BOOLEAN, t = set_active(s, active)
      PROVE  /\ t \in States /\ SameEvidence(s, t)
             /\ t.next_action = s.next_action
             /\ t.requires_confirmation = s.requires_confirmation
             /\ t.profile = s.profile /\ t.score = s.score
             /\ \/ t.status = s.status
                \/ s.status = "paused" /\ t.status = "running"
                \/ s.status = "waiting_confirmation" /\ ~ s.requires_confirmation
                \/ s.status = "running" /\ t.status = "paused"
  <2> DEFINE status == CASE active /\ s.status \in {"paused", "waiting_confirmation"}
                                   /\ ~s.requires_confirmation -> "running"
                         [] ~active /\ s.status = "running" -> "paused"
                         [] OTHER -> s.status
  <2>1. t = [s EXCEPT !.active = active, !.status = status]
    BY <1>1 DEF set_active
  <2>2. /\ status \in {"running", "completed"} \cup Stopping
        /\ \/ status = s.status
           \/ s.status = "paused" /\ status = "running"
           \/ s.status = "waiting_confirmation" /\ ~ s.requires_confirmation
           \/ s.status = "running" /\ status = "paused"
    BY StateFields DEF Stopping
  <2> HIDE DEF status
  <2> QED
    BY <2>1, <2>2 DEF States, SameEvidence
<1>2. ASSUME NEW profile \in Profiles, t = confirm_profile(s, profile)
      PROVE  /\ t \in States /\ SameEvidence(s, t)
             /\ t.next_action = "plan" /\ t.status = "running"
             /\ ~ t.requires_confirmation
  <2> DEFINE g == Goto(s, "plan")
  <2>1. g \in States /\ SameEvidence(s, g) /\ g.next_action = "plan"
    BY GotoState
  <2>2. t = [g EXCEPT !.profile = profile, !.requires_confirmation = FALSE,
                      !.active = TRUE, !.status = "running"]
    BY <1>2 DEF confirm_profile
  <2> HIDE DEF g
  <2> QED
    BY <2>1, <2>2 DEF States, SameEvidence
<1>3. request \in {"pause", "resume", "confirm"}
  OBVIOUS
<1>4. \/ \E active \in BOOLEAN : t = set_active(s, active)
      \/ \E profile \in Profiles : t = confirm_profile(s, profile)
  BY <1>3 DEF Edited
<1> QED
  BY <1>1, <1>2, <1>4

\* A routed run has a profile, or waits for one.
LEMMA RoutedState ==
  ASSUME NEW s \in States, NEW t \in Routes(s)
  PROVE  /\ t \in States /\ SameEvidence(s, t)
         /\ \/ /\ t.next_action = "plan" /\ t.status = s.status
               /\ t.requires_confirmation = s.requires_confirmation
            \/ /\ t.next_action = "none" /\ t.status = "waiting_confirmation"
               /\ t.requires_confirmation
<1>1. ASSUME NEW p \in Profiles, t = [Goto(s, "plan") EXCEPT !.profile = p]
      PROVE  /\ t \in States /\ SameEvidence(s, t)
             /\ t.next_action = "plan" /\ t.status = s.status
             /\ t.requires_confirmation = s.requires_confirmation
  <2> DEFINE g == Goto(s, "plan")
  <2>1. /\ g \in States /\ SameEvidence(s, g) /\ g.next_action = "plan" /\ g.status = s.status
        /\ g.requires_confirmation = s.requires_confirmation
    BY GotoState
  <2>2. t = [g EXCEPT !.profile = p]
    BY <1>1
  <2> HIDE DEF g
  <2> QED
    BY <2>1, <2>2 DEF States, SameEvidence
<1>2. ASSUME t = [Goto(s, "none") EXCEPT !.requires_confirmation = TRUE, !.active = FALSE,
                                        !.status = "waiting_confirmation"]
      PROVE  /\ t \in States /\ SameEvidence(s, t)
             /\ t.next_action = "none" /\ t.status = "waiting_confirmation"
             /\ t.requires_confirmation
  <2> DEFINE g == Goto(s, "none")
  <2>1. g \in States /\ SameEvidence(s, g) /\ g.next_action = "none"
    BY GotoState
  <2>2. t = [g EXCEPT !.requires_confirmation = TRUE, !.active = FALSE,
                      !.status = "waiting_confirmation"]
    BY <1>2
  <2>3. "waiting_confirmation" \in {"running", "completed"} \cup Stopping
    BY DEF Stopping
  <2> HIDE DEF g
  <2> QED
    BY <2>1, <2>2, <2>3 DEF States, SameEvidence
<1> QED
  BY <1>1, <1>2 DEF Routes

LEMMA BlankState ==
  /\ \A p \in Profiles \cup {"auto"} :
        /\ create_run_state(p) \in States
        /\ create_run_state(p).status = "running"
        /\ create_run_state(p).next_action # "none"
        /\ create_run_state(p).requires_confirmation = FALSE
        /\ create_run_state(p).fingerprint = NoFingerprint
        /\ create_run_state(p).progress = create_acceptance_progress_state
  /\ create_acceptance_progress_state \in Progress
<1>1. create_acceptance_progress_state \in Progress
  BY DEF create_acceptance_progress_state, Progress
<1> QED
  BY <1>1 DEF create_run_state, States, Progress, NoFingerprint, Phases

-----------------------------------------------------------------------------
(* Types and evidence of the copies.                                       *)

EvidenceInv ==
    /\ Traced
    /\ Evident(file, artifacts)
    /\ Evident(mem, artifacts)
    /\ Evident(agent, artifacts)
    /\ \A q \in Requests : Evident(requests[q].copy, artifacts)

\* A copy that has the evidence of another is as evident.
LEMMA EvidenceOfCopy ==
  ASSUME NEW s, NEW t, NEW a, SameEvidence(s, t), Evident(s, a)
  PROVE  Evident(t, a)
BY DEF SameEvidence, Evident

LEMMA BlankCopy == Blank \in States /\ (Typed => Evident(Blank, artifacts))
<1>1. Blank \in States /\ Blank.fingerprint = NoFingerprint
      /\ Blank.progress.seen = 0 /\ Blank.progress.verified_current = FALSE
  BY BlankState DEF Blank, create_acceptance_progress_state
<1> QED
  BY <1>1 DEF Typed, LegacyTypeOK, Evident, NoFingerprint

\* A step that saves leaves the file as the only copy of the worker.
LEMMA SavedCopies ==
  ASSUME Typed, NEW t \in States, SaveStep(t), UNCHANGED <<artifacts, requests>>
  PROVE  Typed' /\ (EvidenceInv /\ Evident(t, artifacts) => EvidenceInv')
<1>1. /\ file' = t /\ mem' = Blank /\ agent' = Blank /\ pc' = "check"
      /\ artifacts' = artifacts /\ requests' = requests
  BY DEF SaveStep
<1>2. Typed'
  BY <1>1, BlankCopy DEF Typed, LegacyTypeOK, Loaded
<1>3. ASSUME EvidenceInv, Evident(t, artifacts) PROVE EvidenceInv'
  BY <1>1, <1>3, BlankCopy DEF EvidenceInv, Traced
<1> QED
  BY <1>2, <1>3

\* The steps that decide the next action, each on the worker's copy.
LEMMA WorkerSaves ==
  ASSUME Typed,
         \/ PauseStep \/ Route \/ Analyze \/ AnalyzeFails \/ EndPhase \/ PhaseFails
  PROVE  Typed' /\ (EvidenceInv => EvidenceInv')
<1>t. mem \in States /\ agent \in States
  BY DEF Typed, LegacyTypeOK
<1> SUFFICES \E t \in States : /\ SaveStep(t) /\ UNCHANGED <<artifacts, requests>>
                               /\ EvidenceInv => Evident(t, artifacts)
  BY SavedCopies
<1>1. CASE PauseStep
  <2>1. SaveStep(Paused(mem)) /\ UNCHANGED <<artifacts, requests>>
    BY <1>1 DEF PauseStep, request_vars
  <2> QED
    BY <1>t, <2>1, PausedState, EvidenceOfCopy DEF EvidenceInv
<1>2. CASE Route
  <2>1. PICK t \in Routes(mem) : SaveStep(t) /\ UNCHANGED <<artifacts, requests>>
    BY <1>2 DEF Route, request_vars
  <2>2. t \in States /\ SameEvidence(mem, t)
    BY <1>t, <2>1, RoutedState
  <2> QED
    BY <2>1, <2>2, EvidenceOfCopy DEF EvidenceInv
<1>3. CASE Analyze
  <2>1. SaveStep(Analyzed(mem)) /\ UNCHANGED <<artifacts, requests>>
    BY <1>3 DEF Analyze, request_vars
  <2> QED
    BY <1>t, <2>1, AnalyzedState DEF EvidenceInv
<1>4. CASE AnalyzeFails
  <2>1. SaveStep(AfterError(Analyzed(mem), "analyze")) /\ UNCHANGED <<artifacts, requests>>
    BY <1>4 DEF AnalyzeFails
  <2>2. Analyzed(mem) \in States /\ (EvidenceInv => Evident(Analyzed(mem), artifacts))
    BY <1>t, AnalyzedState DEF EvidenceInv
  <2> QED
    BY <2>1, <2>2, AfterErrorState DEF EvidenceInv
<1>5. CASE EndPhase
  <2>1. PICK score \in Scores :
           SaveStep(AfterPhase([agent EXCEPT !.score = score], mem.next_action))
    BY <1>5 DEF EndPhase
  <2>2. UNCHANGED <<artifacts, requests>> /\ mem.next_action \in Phases
    BY <1>5 DEF EndPhase, request_vars, Typed
  <2> DEFINE s == [agent EXCEPT !.score = score]
  <2>3. s \in States /\ SameEvidence(agent, s)
    BY <1>t DEF Scores, States, SameEvidence
  <2>4. EvidenceInv => Traced /\ Evident(s, artifacts)
    BY <2>3, EvidenceOfCopy DEF EvidenceInv
  <2>5. SaveStep(AfterPhase(s, mem.next_action))
    BY <2>1
  <2> HIDE DEF s
  <2> QED
    BY <2>2, <2>3, <2>4, <2>5, AfterPhaseState
<1>6. CASE PhaseFails
  <2>1. /\ SaveStep(AfterError(mem, mem.next_action)) /\ UNCHANGED <<artifacts, requests>>
        /\ mem.next_action \in Phases
    BY <1>6 DEF PhaseFails, Typed
  <2> QED
    BY <1>t, <2>1, AfterErrorState DEF EvidenceInv
<1> QED
  BY <1>1, <1>2, <1>3, <1>4, <1>5, <1>6

\* The steps that load a copy or save the one they have.
LEMMA WorkerLoads ==
  ASSUME Typed,
         \/ Load \/ Stall \/ StallRecorded \/ BeginPhase \/ StartAgent \/ Check \/ Exit
  PROVE  Typed' /\ (EvidenceInv => EvidenceInv')
<1> USE DEF request_vars
<1>t. file \in States /\ mem \in States /\ agent \in States
  BY DEF Typed, LegacyTypeOK
<1>1. CASE Load
  <2>1. mem' = Reconciled(Sync(file)) /\ pc' = "ready"
        /\ UNCHANGED <<file, agent, artifacts, requests>>
    BY <1>1 DEF Load
  <2>2. Sync(file) \in States /\ (EvidenceInv => Evident(Sync(file), artifacts))
    <3>1. /\ Sync(file) \in States /\ Sync(file).progress = file.progress
          /\ Sync(file).fingerprint =
                IF file.fingerprint = NoFingerprint THEN artifacts.content ELSE file.fingerprint
      BY <1>t, SyncState
    <3>2. artifacts.content \in Nat
      BY DEF Typed, LegacyTypeOK
    <3> QED
      BY <3>1, <3>2 DEF EvidenceInv, Evident
  <2>3. mem' \in States /\ (EvidenceInv => Evident(mem', artifacts))
    BY <2>1, <2>2, ReconciledState, EvidenceOfCopy
  <2> QED
    BY <2>1, <2>3 DEF Typed, LegacyTypeOK, Loaded, EvidenceInv, Traced
<1>2. CASE Stall
  BY <1>t, <1>2 DEF Stall, Typed, LegacyTypeOK, Loaded, EvidenceInv, Traced
<1>3. CASE StallRecorded
  BY <1>t, <1>3, BlankCopy DEF StallRecorded, Typed, LegacyTypeOK, Loaded, EvidenceInv, Traced
<1>4. CASE BeginPhase
  <2>1. /\ mem' = [mem EXCEPT !.status = "running"] /\ file' = mem' /\ pc' = "begun"
        /\ mem.next_action \in Phases
        /\ UNCHANGED <<agent, artifacts, requests>>
    BY <1>4 DEF BeginPhase
  <2>2. mem' \in States /\ SameEvidence(mem, mem') /\ mem'.next_action = mem.next_action
    BY <1>t, <2>1 DEF States, SameEvidence
  <2>3. EvidenceInv => Evident(mem', artifacts)
    BY <2>2, EvidenceOfCopy DEF EvidenceInv
  <2> QED
    BY <2>1, <2>2, <2>3 DEF Typed, LegacyTypeOK, Loaded, EvidenceInv, Traced
<1>5. CASE StartAgent
  <2>1. /\ agent' = [file EXCEPT !.budget_left = ("task" \notin exhausted)] /\ pc' = "agent"
        /\ mem.next_action \in Phases
        /\ UNCHANGED <<file, mem, artifacts, requests>>
    BY <1>5 DEF StartAgent, Typed
  <2>2. agent' \in States /\ SameEvidence(file, agent')
    BY ZenonT(60), <1>t, <2>1 DEF States, SameEvidence
  <2>3. EvidenceInv => Evident(agent', artifacts)
    BY <2>2, EvidenceOfCopy DEF EvidenceInv
  <2> QED
    BY <2>1, <2>2, <2>3 DEF Typed, LegacyTypeOK, Loaded, EvidenceInv, Traced
<1>6. CASE Check
  BY <1>6 DEF Check, Typed, LegacyTypeOK, Loaded, EvidenceInv, Traced
<1>7. CASE Exit
  BY <1>7 DEF Exit, Typed, LegacyTypeOK, Loaded, EvidenceInv, Traced
<1> QED
  BY <1>1, <1>2, <1>3, <1>4, <1>5, <1>6, <1>7

\* The agent works on the artifacts only; a shell command may leave the trace
\* behind them.
LEMMA AgentWorks ==
  ASSUME Typed,
         \/ \E tool \in EditTools : AgentEdits(tool)
         \/ \E verdict \in Verdicts : AgentTests(verdict)
  PROVE  /\ Typed' /\ UNCHANGED <<file, pc, mem, agent, requests>> /\ pc = "agent"
         /\ EditTools \subseteq {"edit_file"} /\ EvidenceInv => EvidenceInv'
<1>a. artifacts \in [content : 0..MaxEdits, tests : 0..MaxTests, latest : 0..MaxTests,
                     verdict : Verdicts \cup {"none"}, tested : Verdicts \cup {"none"}]
  BY DEF Typed, LegacyTypeOK
<1>s. /\ file \in States /\ mem \in States /\ agent \in States
      /\ \A q \in Requests : requests[q].copy \in States
  BY DEF Typed, LegacyTypeOK
<1>1. CASE \E tool \in EditTools : AgentEdits(tool)
  <2>1. PICK tool \in EditTools : AgentEdits(tool)
    BY <1>1
  <2>2. /\ UNCHANGED <<file, pc, mem, agent, requests>> /\ pc = "agent"
        /\ artifacts.content < MaxEdits
        /\ artifacts' = [artifacts EXCEPT
                            !.content = @ + 1,
                            !.latest = IF Invalidates(tool) THEN 0 ELSE @,
                            !.verdict = IF Invalidates(tool) THEN "none" ELSE @,
                            !.tested = "none"]
    BY <2>1 DEF AgentEdits, request_vars
  <2>3. /\ artifacts' \in [content : 0..MaxEdits, tests : 0..MaxTests, latest : 0..MaxTests,
                           verdict : Verdicts \cup {"none"}, tested : Verdicts \cup {"none"}]
        /\ artifacts'.content = artifacts.content + 1
        /\ artifacts'.tests = artifacts.tests
        /\ EditTools \subseteq {"edit_file"} => artifacts'.latest = 0
    <3> DEFINE latest == IF Invalidates(tool) THEN 0 ELSE artifacts.latest
               verdict == IF Invalidates(tool) THEN "none" ELSE artifacts.verdict
    <3>1. /\ artifacts' = [artifacts EXCEPT !.content = artifacts.content + 1,
                                  !.latest = latest, !.verdict = verdict, !.tested = "none"]
          /\ artifacts.content + 1 \in 0..MaxEdits
          /\ latest \in 0..MaxTests /\ verdict \in Verdicts \cup {"none"}
          /\ EditTools \subseteq {"edit_file"} => latest = 0
      BY <1>a, <2>2 DEF Invalidates
    <3> HIDE DEF latest, verdict
    <3> QED
      BY <1>a, <3>1
  <2>4. Typed'
    BY <2>2, <2>3 DEF Typed, LegacyTypeOK, Loaded
  <2>5. ASSUME NEW s \in States, Evident(s, artifacts) PROVE Evident(s, artifacts')
    <3>1. /\ s.fingerprint \in {NoFingerprint} \cup Nat
          /\ artifacts.content \in Nat
      BY <1>a, StateFields
    <3> QED
      BY <2>3, <2>5, <3>1 DEF Evident, NoFingerprint
  <2>6. EditTools \subseteq {"edit_file"} => Traced'
    BY <1>a, <2>3 DEF Traced
  <2>7. EditTools \subseteq {"edit_file"} /\ EvidenceInv => EvidenceInv'
    BY <1>s, <2>2, <2>5, <2>6 DEF EvidenceInv
  <2> QED
    BY <2>2, <2>4, <2>7
<1>2. CASE \E verdict \in Verdicts : AgentTests(verdict)
  <2>1. PICK verdict \in Verdicts : AgentTests(verdict)
    BY <1>2
  <2>2. /\ UNCHANGED <<file, pc, mem, agent, requests>> /\ pc = "agent"
        /\ artifacts.tests < MaxTests
        /\ artifacts' = [artifacts EXCEPT !.tests = @ + 1, !.latest = artifacts.tests + 1,
                                          !.verdict = verdict, !.tested = verdict]
    BY <2>1 DEF AgentTests, request_vars
  <2>3. /\ artifacts' \in [content : 0..MaxEdits, tests : 0..MaxTests, latest : 0..MaxTests,
                           verdict : Verdicts \cup {"none"}, tested : Verdicts \cup {"none"}]
        /\ artifacts'.content = artifacts.content
        /\ artifacts'.tests = artifacts.tests + 1
        /\ artifacts'.latest = artifacts.tests + 1
        /\ artifacts'.verdict = artifacts'.tested
    <3>1. artifacts.tests + 1 \in 0..MaxTests
      BY <1>a, <2>2
    <3> QED
      BY <1>a, <2>2, <3>1
  <2>4. Typed'
    BY <2>2, <2>3 DEF Typed, LegacyTypeOK, Loaded
  <2>5. ASSUME NEW s \in States, Evident(s, artifacts) PROVE Evident(s, artifacts')
    <3>1. s.progress.seen \in Nat /\ artifacts.tests \in Nat
      BY <1>a, StateFields DEF Progress
    <3> QED
      BY <2>3, <2>5, <3>1 DEF Evident
  <2>6. Traced'
    BY <1>a, <2>3 DEF Traced
  <2>7. EvidenceInv => EvidenceInv'
    BY <1>s, <2>2, <2>5, <2>6 DEF EvidenceInv
  <2> QED
    BY <2>2, <2>4, <2>7
<1> QED
  BY <1>1, <1>2

\* What a request loads, edits and saves is a copy of the file.
LEMMA RequestsServed ==
  ASSUME Typed, NEW q \in Requests, RequestStep(q)
  PROVE  Typed' /\ (EvidenceInv => EvidenceInv')
<1> USE DEF worker_vars
<1>t. /\ file \in States
      /\ requests \in [Requests -> [stage : Stages, kind : RequestKinds \cup {"none"},
                                    copy : States]]
  BY DEF Typed, LegacyTypeOK
<1>1. CASE LoadRequest(q)
  <2>1. PICK kind \in RequestKinds :
           requests' = [requests EXCEPT ![q] =
                           [stage |-> "loaded", kind |-> kind, copy |-> file]]
    BY <1>1 DEF LoadRequest
  <2>2. UNCHANGED <<file, pc, mem, agent, artifacts>>
    BY <1>1 DEF LoadRequest
  <2>3. Typed'
    BY <1>t, <2>1, <2>2 DEF Typed, LegacyTypeOK, Loaded, Stages
  <2>4. EvidenceInv => EvidenceInv'
    BY <1>t, <2>1, <2>2 DEF EvidenceInv, Traced
  <2> QED
    BY <2>3, <2>4
<1>2. CASE SaveRequest(q)
  <2>1. /\ Loaded(q) /\ file' \in Edited(requests[q].copy, requests[q].kind)
        /\ requests' = [requests EXCEPT ![q].stage = "saved", ![q].copy = Blank]
        /\ UNCHANGED <<pc, mem, agent, artifacts>>
    BY <1>2 DEF SaveRequest, Loaded
  <2>2. requests[q].kind \in RequestKinds /\ requests[q].copy \in States
    BY <1>t, <2>1 DEF Typed
  <2>3. file' \in States /\ SameEvidence(requests[q].copy, file')
    BY <2>1, <2>2, EditedState
  <2>4. Typed'
    <3>1. requests' \in [Requests -> [stage : Stages, kind : RequestKinds \cup {"none"},
                                      copy : States]]
      BY ZenonT(60), <1>t, <2>1, BlankCopy DEF Stages
    <3>2. \A r \in Requests : Loaded(r)' => requests'[r].kind \in RequestKinds
      BY <1>t, <2>1 DEF Typed, Loaded
    <3> QED
      BY <2>1, <2>3, <3>1, <3>2 DEF Typed, LegacyTypeOK
  <2>5. ASSUME EvidenceInv PROVE EvidenceInv'
    <3>1. Evident(file', artifacts)
      BY <2>3, <2>5, EvidenceOfCopy DEF EvidenceInv
    <3> QED
      BY <1>t, <2>1, <2>5, <3>1, BlankCopy DEF EvidenceInv, Traced
  <2> QED
    BY <2>4, <2>5
<1>3. CASE FinishRequest(q)
  <2>1. /\ requests' = [requests EXCEPT ![q] = Request("done")]
        /\ pc' = IF requests[q].kind # "pause" /\ pc = "none" THEN "load" ELSE pc
        /\ UNCHANGED <<file, mem, agent, artifacts>>
    BY <1>3 DEF FinishRequest
  <2>2. Request("done") = [stage |-> "done", kind |-> "none", copy |-> Blank]
    BY DEF Request
  <2>3. Typed'
    BY <1>t, <2>1, <2>2, BlankCopy DEF Typed, LegacyTypeOK, Loaded, Stages
  <2>4. EvidenceInv => EvidenceInv'
    BY <1>t, <2>1, <2>2, BlankCopy DEF EvidenceInv, Traced
  <2> QED
    BY <2>3, <2>4
<1> QED
  BY <1>1, <1>2, <1>3 DEF RequestStep

LEMMA EnvironmentActs ==
  ASSUME Typed, (\E budget \in Budgets : Exhaust(budget)) \/ Crash \/ Restart
  PROVE  Typed' /\ (EvidenceInv => EvidenceInv')
<1>t. requests \in [Requests -> [stage : Stages, kind : RequestKinds \cup {"none"}, copy : States]]
  BY DEF Typed
<1>1. CASE \E budget \in Budgets : Exhaust(budget)
  BY <1>1 DEF Exhaust, request_vars, Typed, LegacyTypeOK, Loaded, EvidenceInv, Traced
<1>2. CASE Crash
  <2>1. /\ pc' = "none" /\ mem' = Blank /\ agent' = Blank /\ UNCHANGED <<file, artifacts>>
        /\ requests' = [q \in Requests |->
                          IF requests[q].stage \in {"loaded", "saved"}
                            THEN Request("done") ELSE requests[q]]
    BY <1>2 DEF Crash
  <2>2. Request("done") = [stage |-> "done", kind |-> "none", copy |-> Blank]
    BY DEF Request
  <2>3. Typed'
    BY <1>t, <2>1, <2>2, BlankCopy DEF Typed, LegacyTypeOK, Loaded, Stages
  <2>4. EvidenceInv => EvidenceInv'
    BY <1>t, <2>1, <2>2, BlankCopy DEF EvidenceInv, Traced
  <2> QED
    BY <2>3, <2>4
<1>3. CASE Restart
  BY <1>3 DEF Restart, Typed, LegacyTypeOK, Loaded, EvidenceInv, Traced
<1> QED
  BY <1>1, <1>2, <1>3

LEMMA InitCopies == Init => Typed /\ EvidenceInv
<1> SUFFICES ASSUME Init PROVE Typed /\ EvidenceInv
  OBVIOUS
<1>1. PICK p \in Profiles \cup {"auto"} : file = create_run_state(p)
  BY DEF Init
<1>2. /\ mem = Blank /\ agent = Blank /\ pc = "load"
      /\ artifacts = [content |-> 0, tests |-> 0, latest |-> 0, verdict |-> "none",
                      tested |-> "none"]
      /\ requests = [q \in Requests |-> [stage |-> "new", kind |-> "none", copy |-> Blank]]
  BY DEF Init, Request
<1>3. Blank = create_run_state("auto")
  BY DEF Blank
<1>4. ASSUME NEW s \in {file, Blank} PROVE s \in States /\ Evident(s, artifacts)
  <2>1. PICK first \in Profiles \cup {"auto"} : s = create_run_state(first)
    BY <1>1, <1>3
  <2>2. /\ s \in States /\ s.fingerprint = NoFingerprint
        /\ s.progress = create_acceptance_progress_state
    BY <2>1, BlankState
  <2>3. s.progress.seen = 0 /\ s.progress.verified_current = FALSE
    BY <2>2 DEF create_acceptance_progress_state
  <2> QED
    BY <1>2, <2>2, <2>3 DEF Evident, NoFingerprint
<1>5. Typed
  BY <1>2, <1>4 DEF Typed, LegacyTypeOK, Loaded, Stages
<1>6. EvidenceInv
  BY <1>2, <1>4 DEF EvidenceInv, Traced
<1> QED
  BY <1>5, <1>6

LEMMA TypedStep == Typed /\ [Next]_vars => Typed'
<1> SUFFICES ASSUME Typed, [Next]_vars PROVE Typed'
  OBVIOUS
<1>1. CASE WorkerStep
  BY <1>1, WorkerSaves, WorkerLoads, AgentWorks DEF WorkerStep
<1>2. CASE \E q \in Requests : RequestStep(q)
  BY <1>2, RequestsServed
<1>3. CASE (\E budget \in Budgets : Exhaust(budget)) \/ Crash \/ Restart
  BY <1>3, EnvironmentActs
<1>4. CASE UNCHANGED vars
  BY <1>4 DEF vars, Typed, LegacyTypeOK, Loaded
<1> QED
  BY <1>1, <1>2, <1>3, <1>4 DEF Next

\* Whatever copies the worker and the requests write over each other, the
\* rounds and the retries stay within their bounds.
THEOREM LegacyTypeCorrect == Spec => []LegacyTypeOK
<1>1. Init => Typed
  BY InitCopies
<1>2. Typed => LegacyTypeOK
  BY DEF Typed
<1> QED
  BY <1>1, <1>2, TypedStep, PTL DEF Spec

\* The evidence in every copy agrees with the workspace, as long as the agents
\* change artifacts by tools the trace knows to invalidate a verification.
LEMMA EvidenceStep ==
  ASSUME EditTools \subseteq {"edit_file"}
  PROVE  Typed /\ EvidenceInv /\ [Next]_vars => EvidenceInv'
<1> SUFFICES ASSUME Typed, EvidenceInv, [Next]_vars PROVE EvidenceInv'
  OBVIOUS
<1>1. CASE WorkerStep
  BY <1>1, WorkerSaves, WorkerLoads, AgentWorks DEF WorkerStep
<1>2. CASE \E q \in Requests : RequestStep(q)
  BY <1>2, RequestsServed
<1>3. CASE (\E budget \in Budgets : Exhaust(budget)) \/ Crash \/ Restart
  BY <1>3, EnvironmentActs
<1>4. CASE UNCHANGED vars
  BY <1>4 DEF vars, EvidenceInv, Traced
<1> QED
  BY <1>1, <1>2, <1>3, <1>4 DEF Next

-----------------------------------------------------------------------------
(* A run can be resumed until it has ended, and an ended one was accepted.   *)

Over(s) == s.next_action = "none"

\* What is asked of a run agrees with what it waits for.
Orderly(s) ==
    /\ Over(s) <=> s.status \notin {"running", "paused"}
    /\ s.requires_confirmation <=> s.status = "waiting_confirmation"

\* The worker is in no phase and has nothing to go on with.
AtRest ==
    /\ pc \notin {"begun", "agent"}
    /\ pc \in {"ready", "stalled"} => Over(mem)

\* No copy outlives the end of the run in the file, and while the file is at an
\* end the worker is at rest: nothing then changes what was accepted.
OrderInv ==
    /\ Orderly(file) /\ Orderly(mem) /\ Orderly(agent)
    /\ \A q \in Requests : Orderly(requests[q].copy)
    /\ Over(file) => AtRest
    /\ \A q \in Requests : Loaded(q) /\ Over(requests[q].copy) => Over(file)
    /\ pc \in {"begun", "agent"} => mem.status = "running"
    /\ pc = "agent" => ~ Over(agent)

AcceptInv ==
    /\ Accepted(file, artifacts)
    /\ pc = "stalled" => Accepted(mem, artifacts)
    /\ \A q \in Requests : Loaded(q) => Accepted(requests[q].copy, artifacts)

\* A request is answered from a copy no other request has loaded.
OneRequestAtATime == \A p, q \in Requests : Loaded(p) /\ Loaded(q) => p = q

LEMMA BlankOrder == Orderly(Blank) /\ ~ Over(Blank) /\ \A a : Accepted(Blank, a)
<1>1. /\ Blank.status = "running" /\ Blank.next_action # "none"
      /\ Blank.requires_confirmation = FALSE
  BY BlankState DEF Blank
<1> QED
  BY <1>1 DEF Orderly, Over, Accepted

\* A worker that can still go on saves: no copy is at an end.
LEMMA SavedOrder ==
  ASSUME Typed, OrderInv, ~ Over(file), NEW t \in States, Orderly(t), SaveStep(t),
         UNCHANGED <<artifacts, requests>>
  PROVE  OrderInv' /\ (AcceptInv /\ Accepted(t, artifacts) => AcceptInv')
<1>1. /\ file' = t /\ mem' = Blank /\ agent' = Blank /\ pc' = "check"
      /\ artifacts' = artifacts /\ requests' = requests
  BY DEF SaveStep
<1>2. \A q \in Requests : Loaded(q) => ~ Over(requests[q].copy)
  BY DEF OrderInv
<1>3. OrderInv'
  BY <1>1, <1>2, BlankOrder DEF OrderInv, Orderly, Over, AtRest, Loaded
<1>4. AcceptInv /\ Accepted(t, artifacts) => AcceptInv'
  BY <1>1 DEF AcceptInv, Loaded, Accepted, evaluator_enabled
<1> QED
  BY <1>3, <1>4

LEMMA OrderOfSaves ==
  ASSUME Typed, OrderInv,
         \/ PauseStep \/ Route \/ Analyze \/ AnalyzeFails \/ EndPhase \/ PhaseFails
  PROVE  OrderInv' /\ (AcceptInv /\ EvidenceInv => AcceptInv')
<1>t. mem \in States /\ agent \in States
  BY DEF Typed, LegacyTypeOK
<1>o. Orderly(mem) /\ Orderly(agent)
  BY DEF OrderInv
<1>f. ~ Over(file)
  BY DEF OrderInv, AtRest, PauseStep, Route, Analyze, AnalyzeFails, EndPhase, PhaseFails,
         Runnable, Over
<1> SUFFICES \E t \in States : /\ SaveStep(t) /\ UNCHANGED <<artifacts, requests>>
                               /\ Orderly(t)
                               /\ EvidenceInv => Accepted(t, artifacts)
  BY <1>f, SavedOrder
<1>1. CASE PauseStep
  <2>1. /\ SaveStep(Paused(mem)) /\ UNCHANGED <<artifacts, requests>>
        /\ ~ Over(mem) /\ ~ mem.requires_confirmation
    BY <1>1 DEF PauseStep, request_vars, Runnable, Over
  <2> QED
    BY <1>t, <2>1, PausedState DEF Orderly, Over, Accepted
<1>2. CASE Route
  <2>1. PICK t \in Routes(mem) : SaveStep(t)
    BY <1>2 DEF Route
  <2>2. UNCHANGED <<artifacts, requests>> /\ ~ Over(mem)
    BY <1>2 DEF Route, request_vars, Runnable, Over
  <2>3. /\ t \in States
        /\ \/ /\ t.next_action = "plan" /\ t.status = mem.status
              /\ t.requires_confirmation = mem.requires_confirmation
           \/ /\ t.next_action = "none" /\ t.status = "waiting_confirmation"
              /\ t.requires_confirmation
    BY <1>t, <2>1, RoutedState
  <2> QED
    BY <1>o, <2>1, <2>2, <2>3 DEF Orderly, Over, Accepted
<1>3. CASE Analyze
  <2>1. /\ SaveStep(Analyzed(mem)) /\ UNCHANGED <<artifacts, requests>>
        /\ ~ Over(mem) /\ ~ mem.requires_confirmation
    BY <1>3 DEF Analyze, request_vars, Runnable, Over
  <2> QED
    BY <1>t, <2>1, AnalyzedState DEF EvidenceInv, Orderly, Over
<1>4. CASE AnalyzeFails
  <2>1. /\ SaveStep(AfterError(Analyzed(mem), "analyze")) /\ UNCHANGED <<artifacts, requests>>
        /\ ~ mem.requires_confirmation
    BY <1>4 DEF AnalyzeFails, Runnable
  <2>2. Analyzed(mem) \in States /\ ~ Analyzed(mem).requires_confirmation
    BY <1>t, <2>1, AnalyzedState
  <2> QED
    BY <2>1, <2>2, AfterErrorState DEF Orderly, Over, Accepted, Phases
<1>5. CASE EndPhase
  <2>1. PICK score \in Scores :
           SaveStep(AfterPhase([agent EXCEPT !.score = score], mem.next_action))
    BY <1>5 DEF EndPhase
  <2>2. /\ UNCHANGED <<artifacts, requests>> /\ mem.next_action \in Phases
        /\ ~ Over(agent)
    BY <1>5 DEF EndPhase, request_vars, Typed, OrderInv
  <2> DEFINE s == [agent EXCEPT !.score = score]
  <2>3. /\ s \in States /\ s.status = agent.status /\ s.next_action = agent.next_action
        /\ s.requires_confirmation = agent.requires_confirmation
    BY <1>t DEF Scores, States
  <2>4. SaveStep(AfterPhase(s, mem.next_action))
    BY <2>1
  <2> HIDE DEF s
  <2> DEFINE t == AfterPhase(s, mem.next_action)
  <2>5. t \in States /\ SentOn(s, t)
    BY <2>2, <2>3, AfterPhaseState
  <2>6. agent.status \in {"running", "paused"} /\ ~ agent.requires_confirmation
    BY <1>o, <2>2 DEF Orderly
  <2> HIDE DEF t
  <2>7. t.status \in {"running", "paused"} /\ ~ t.requires_confirmation /\ ~ Over(t)
    BY <2>2, <2>3, <2>5, <2>6 DEF SentOn, Over, Phases
  <2> QED
    BY <2>2, <2>4, <2>5, <2>7 DEF Orderly, Over, Accepted, t
<1>6. CASE PhaseFails
  <2>1. /\ SaveStep(AfterError(mem, mem.next_action)) /\ UNCHANGED <<artifacts, requests>>
        /\ mem.next_action \in Phases /\ mem.status = "running"
    BY <1>6 DEF PhaseFails, Typed, OrderInv
  <2>2. ~ mem.requires_confirmation
    BY <1>o, <2>1 DEF Orderly
  <2> QED
    BY <1>t, <2>1, <2>2, AfterErrorState DEF Orderly, Over, Accepted, Phases
<1> QED
  BY <1>1, <1>2, <1>3, <1>4, <1>5, <1>6

LEMMA OrderOfLoads ==
  ASSUME Typed, OrderInv,
         \/ Load \/ Stall \/ StallRecorded \/ BeginPhase \/ StartAgent \/ Check \/ Exit
  PROVE  OrderInv' /\ (AcceptInv => AcceptInv')
<1> USE DEF request_vars
<1>t. file \in States /\ mem \in States /\ agent \in States
  BY DEF Typed, LegacyTypeOK
<1>1. CASE Load
  <2>1. mem' = Reconciled(Sync(file)) /\ pc' = "ready"
        /\ UNCHANGED <<file, agent, artifacts, requests>>
    BY <1>1 DEF Load
  <2>2. Sync(file) \in States /\ SameControl(file, Sync(file))
    BY <1>t, SyncState
  <2>3. /\ mem'.status = file.status
        /\ mem'.requires_confirmation = file.requires_confirmation
        /\ Over(mem') <=> Over(file)
    BY <2>1, <2>2, ReconciledState DEF SameControl, Over
  <2> QED
    BY <2>1, <2>3 DEF OrderInv, AcceptInv, Orderly, Over, AtRest, Loaded, Accepted, evaluator_enabled
<1>2. CASE Stall
  <2>1. mem' = file /\ pc' = "stalled" /\ UNCHANGED <<file, agent, artifacts, requests>>
    BY <1>2 DEF Stall
  <2> QED
    BY <2>1 DEF OrderInv, AcceptInv, Orderly, Over, AtRest, Loaded, Accepted, evaluator_enabled
<1>3. CASE StallRecorded
  <2>1. /\ pc = "stalled" /\ file' = mem /\ pc' = "exiting" /\ mem' = Blank
        /\ UNCHANGED <<agent, artifacts, requests>>
    BY <1>3 DEF StallRecorded
  <2> QED
    BY <2>1, BlankOrder
       DEF OrderInv, AcceptInv, Orderly, Over, AtRest, Loaded, Accepted, evaluator_enabled
<1>4. CASE BeginPhase
  <2>1. /\ mem' = [mem EXCEPT !.status = "running"] /\ file' = mem' /\ pc' = "begun"
        /\ pc = "ready" /\ mem.next_action \in Phases /\ ~ mem.requires_confirmation
        /\ UNCHANGED <<agent, artifacts, requests>>
    BY <1>4 DEF BeginPhase, Runnable
  <2>2. /\ mem'.next_action = mem.next_action /\ mem'.status = "running"
        /\ mem'.requires_confirmation = mem.requires_confirmation
    BY <1>t, <2>1 DEF States
  <2>3. ~ Over(mem) /\ ~ Over(file) /\ ~ Over(file') /\ Orderly(mem') /\ Orderly(file')
    BY <2>1, <2>2 DEF OrderInv, AtRest, Orderly, Over, Phases
  <2>4. OrderInv'
    BY <2>1, <2>2, <2>3 DEF OrderInv, Orderly, Over, AtRest, Loaded
  <2>5. AcceptInv => AcceptInv'
    BY <2>1, <2>2 DEF AcceptInv, Accepted, Loaded, evaluator_enabled
  <2> QED
    BY <2>4, <2>5
<1>5. CASE StartAgent
  <2>1. /\ agent' = [file EXCEPT !.budget_left = ("task" \notin exhausted)] /\ pc' = "agent"
        /\ pc = "begun" /\ UNCHANGED <<file, mem, artifacts, requests>>
    BY <1>5 DEF StartAgent
  <2>2. /\ agent'.next_action = file.next_action /\ agent'.status = file.status
        /\ agent'.requires_confirmation = file.requires_confirmation
    BY <1>t, <2>1 DEF States
  <2> QED
    BY <2>1, <2>2 DEF OrderInv, AcceptInv, Orderly, Over, AtRest, Loaded, Accepted, evaluator_enabled
<1>6. CASE Check
  <2>1. /\ pc = "check" /\ pc' \in {"load", "exiting"}
        /\ UNCHANGED <<file, mem, agent, artifacts, requests>>
    BY <1>6 DEF Check
  <2> QED
    BY <2>1 DEF OrderInv, AcceptInv, Orderly, Over, AtRest, Loaded, Accepted, evaluator_enabled
<1>7. CASE Exit
  <2>1. /\ pc = "exiting" /\ pc' = "none"
        /\ UNCHANGED <<file, mem, agent, artifacts, requests>>
    BY <1>7 DEF Exit
  <2> QED
    BY <2>1 DEF OrderInv, AcceptInv, Orderly, Over, AtRest, Loaded, Accepted, evaluator_enabled
<1> QED
  BY <1>1, <1>2, <1>3, <1>4, <1>5, <1>6, <1>7

\* A run is over only while no agent works on its artifacts.
LEMMA OrderOfAgent ==
  ASSUME Typed, OrderInv,
         \/ \E tool \in EditTools : AgentEdits(tool)
         \/ \E verdict \in Verdicts : AgentTests(verdict)
  PROVE  OrderInv' /\ (AcceptInv => AcceptInv')
<1>1. UNCHANGED <<file, pc, mem, agent, requests>> /\ pc = "agent"
  BY AgentWorks
<1>2. OrderInv'
  BY <1>1 DEF OrderInv, Orderly, Over, AtRest, Loaded
<1>3. /\ file.status # "completed"
      /\ \A q \in Requests : Loaded(q) => requests[q].copy.status # "completed"
  BY <1>1 DEF OrderInv, AtRest, Orderly
<1>4. AcceptInv'
  BY <1>1, <1>3 DEF AcceptInv, Accepted, Loaded
<1> QED
  BY <1>2, <1>4

\* The copy a request saves is one of the file as no other request left it.
LEMMA OrderOfRequests ==
  ASSUME Typed, OrderInv, OneRequestAtATime, NEW q \in Requests, RequestStep(q)
  PROVE  OrderInv' /\ (AcceptInv => AcceptInv')
<1> USE DEF worker_vars
<1>t. /\ file \in States
      /\ requests \in [Requests -> [stage : Stages, kind : RequestKinds \cup {"none"},
                                    copy : States]]
  BY DEF Typed, LegacyTypeOK
<1>1. CASE LoadRequest(q)
  <2>1. PICK kind \in RequestKinds :
           requests' = [requests EXCEPT ![q] =
                           [stage |-> "loaded", kind |-> kind, copy |-> file]]
    BY <1>1 DEF LoadRequest
  <2>2. UNCHANGED <<file, pc, mem, agent, artifacts>>
    BY <1>1 DEF LoadRequest
  <2>3. /\ requests'[q].copy = file
        /\ \A r \in Requests \ {q} : requests'[r] = requests[r]
    BY <1>t, <2>1
  <2>4. OrderInv'
    BY <2>2, <2>3 DEF OrderInv, Orderly, Over, AtRest, Loaded
  <2>5. AcceptInv => AcceptInv'
    BY <2>2, <2>3 DEF AcceptInv, Accepted, Loaded, evaluator_enabled
  <2> QED
    BY <2>4, <2>5
<1>2. CASE SaveRequest(q)
  <2> DEFINE s == requests[q].copy
  <2>1. /\ Loaded(q) /\ file' \in Edited(s, requests[q].kind)
        /\ requests' = [requests EXCEPT ![q].stage = "saved", ![q].copy = Blank]
        /\ UNCHANGED <<pc, mem, agent, artifacts>>
    BY <1>2 DEF SaveRequest, Loaded
  <2>2. requests[q].kind \in RequestKinds /\ s \in States /\ Orderly(s)
    BY <1>t, <2>1 DEF Typed, OrderInv
  <2>3. \/ /\ file'.next_action = s.next_action
           /\ file'.requires_confirmation = s.requires_confirmation
           /\ file'.profile = s.profile /\ file'.score = s.score
           /\ \/ file'.status = s.status
              \/ s.status = "paused" /\ file'.status = "running"
              \/ s.status = "waiting_confirmation" /\ ~ s.requires_confirmation
              \/ s.status = "running" /\ file'.status = "paused"
        \/ /\ file'.next_action = "plan" /\ file'.status = "running"
           /\ ~ file'.requires_confirmation
    BY <2>1, <2>2, EditedState
  <2>4. /\ requests'[q].stage = "saved" /\ requests'[q].copy = Blank
        /\ \A r \in Requests \ {q} : requests'[r] = requests[r]
    BY <1>t, <2>1
  <2>5. \A r \in Requests : ~ Loaded(r)'
    BY <2>1, <2>4 DEF OneRequestAtATime, Loaded
  <2>6. Orderly(file') /\ (Over(file') => Over(s))
    BY <2>2, <2>3 DEF Orderly, Over
  <2>7. Over(s) => AtRest
    BY <2>1 DEF OrderInv
  <2>8. OrderInv'
    <3>1. /\ Orderly(mem') /\ Orderly(agent')
          /\ pc' \in {"begun", "agent"} => mem'.status = "running"
          /\ pc' = "agent" => ~ Over(agent')
      BY <2>1 DEF OrderInv
    <3>2. \A r \in Requests : Orderly(requests'[r].copy)
      BY <2>4, BlankOrder DEF OrderInv
    <3>3. Over(file') => AtRest'
      BY <2>1, <2>6, <2>7 DEF AtRest, Over
    <3> QED
      BY <2>5, <2>6, <3>1, <3>2, <3>3 DEF OrderInv, Orderly, Over
  <2>9. ASSUME AcceptInv PROVE AcceptInv'
    <3>1. Accepted(s, artifacts)
      BY <2>1, <2>9 DEF AcceptInv
    <3>2. Accepted(file', artifacts)
      BY <2>2, <2>3, <3>1 DEF Accepted, Orderly, evaluator_enabled
    <3> QED
      BY <2>1, <2>5, <2>9, <3>2 DEF AcceptInv, Accepted, evaluator_enabled
  <2> QED
    BY <2>8, <2>9
<1>3. CASE FinishRequest(q)
  <2>1. /\ requests[q].stage = "saved"
        /\ requests' = [requests EXCEPT ![q] = Request("done")]
        /\ pc' \in {pc, "load"} /\ (pc' # pc => pc = "none")
        /\ UNCHANGED <<file, mem, agent, artifacts>>
    BY <1>3 DEF FinishRequest
  <2>2. Request("done") = [stage |-> "done", kind |-> "none", copy |-> Blank]
    BY DEF Request
  <2>3. /\ requests'[q].stage = "done" /\ requests'[q].copy = Blank
        /\ \A r \in Requests \ {q} : requests'[r] = requests[r]
    BY <1>t, <2>1, <2>2
  <2>4. OrderInv'
    BY <2>1, <2>3, BlankOrder DEF OrderInv, Orderly, Over, AtRest, Loaded
  <2>5. AcceptInv => AcceptInv'
    BY <2>1, <2>3 DEF AcceptInv, Accepted, Loaded, evaluator_enabled
  <2> QED
    BY <2>4, <2>5
<1> QED
  BY <1>1, <1>2, <1>3 DEF RequestStep

LEMMA OrderOfEnvironment ==
  ASSUME Typed, OrderInv, (\E budget \in Budgets : Exhaust(budget)) \/ Crash \/ Restart
  PROVE  OrderInv' /\ (AcceptInv => AcceptInv')
<1>1. CASE \E budget \in Budgets : Exhaust(budget)
  BY <1>1 DEF Exhaust, request_vars, OrderInv, AcceptInv, Orderly, Over, AtRest, Loaded, Accepted,
              evaluator_enabled
<1>2. CASE Crash
  <2>1. /\ pc' = "none" /\ mem' = Blank /\ agent' = Blank /\ UNCHANGED <<file, artifacts>>
        /\ requests' = [q \in Requests |->
                          IF requests[q].stage \in {"loaded", "saved"}
                            THEN Request("done") ELSE requests[q]]
    BY <1>2 DEF Crash
  <2>2. Request("done") = [stage |-> "done", kind |-> "none", copy |-> Blank]
    BY DEF Request
  <2>3. \A q \in Requests : /\ requests'[q].stage # "loaded"
                            /\ requests'[q].copy \in {Blank, requests[q].copy}
    BY <2>1, <2>2
  <2>4. OrderInv'
    BY <2>1, <2>3, BlankOrder DEF OrderInv, Orderly, Over, AtRest, Loaded
  <2>5. AcceptInv => AcceptInv'
    BY <2>1, <2>3 DEF AcceptInv, Accepted, Loaded, evaluator_enabled
  <2> QED
    BY <2>4, <2>5
<1>3. CASE Restart
  BY <1>3 DEF Restart, OrderInv, AcceptInv, Orderly, Over, AtRest, Loaded, Accepted,
              evaluator_enabled
<1> QED
  BY <1>1, <1>2, <1>3

LEMMA OrderStep ==
  Typed /\ OrderInv /\ OneRequestAtATime /\ [Next]_vars
    => OrderInv' /\ (AcceptInv /\ EvidenceInv => AcceptInv')
<1> SUFFICES ASSUME Typed, OrderInv, OneRequestAtATime, [Next]_vars
             PROVE  OrderInv' /\ (AcceptInv /\ EvidenceInv => AcceptInv')
  OBVIOUS
<1>1. CASE WorkerStep
  BY <1>1, OrderOfSaves, OrderOfLoads, OrderOfAgent DEF WorkerStep
<1>2. CASE \E q \in Requests : RequestStep(q)
  BY <1>2, OrderOfRequests
<1>3. CASE (\E budget \in Budgets : Exhaust(budget)) \/ Crash \/ Restart
  BY <1>3, OrderOfEnvironment
<1>4. CASE UNCHANGED vars
  BY <1>4 DEF vars, OrderInv, AcceptInv, Orderly, Over, AtRest, Loaded, Accepted, evaluator_enabled
<1> QED
  BY <1>1, <1>2, <1>3, <1>4 DEF Next

LEMMA InitOrder == Init => OrderInv /\ AcceptInv
<1> SUFFICES ASSUME Init PROVE OrderInv /\ AcceptInv
  OBVIOUS
<1>1. PICK p \in Profiles \cup {"auto"} : file = create_run_state(p)
  BY DEF Init
<1>2. /\ file.status = "running" /\ file.next_action # "none"
      /\ file.requires_confirmation = FALSE
  BY <1>1, BlankState
<1>3. /\ mem = Blank /\ agent = Blank /\ pc = "load"
      /\ requests = [q \in Requests |-> [stage |-> "new", kind |-> "none", copy |-> Blank]]
  BY DEF Init, Request
<1>4. OrderInv
  BY <1>2, <1>3, BlankOrder DEF OrderInv, Orderly, Over, AtRest, Loaded
<1>5. AcceptInv
  BY <1>2, <1>3 DEF AcceptInv, Accepted, Loaded
<1> QED
  BY <1>4, <1>5

\* A run that is neither ended nor waiting for a profile has a next action: a
\* resumed, paused, retried or salvaged run can always go on.
THEOREM UnfinishedCanGoOn == Spec /\ []OneRequestAtATime => []UnfinishedHasNext
<1>1. Init => Typed /\ OrderInv
  BY InitCopies, InitOrder
<1>2. Typed /\ OrderInv /\ OneRequestAtATime /\ [Next]_vars => OrderInv'
  BY OrderStep
<1>3. ASSUME Typed, OrderInv PROVE UnfinishedHasNext
  <2>1. file \in States /\ Orderly(file)
    BY <1>3 DEF Typed, LegacyTypeOK, OrderInv
  <2>2. file.status \in {"running", "completed", "paused", "error", "waiting_confirmation"}
    BY <2>1, StateFields DEF Stopping
  <2> QED
    BY <2>1, <2>2 DEF UnfinishedHasNext, Orderly, Over
<1> QED
  BY <1>1, <1>2, <1>3, TypedStep, PTL DEF Spec

\* A completed run was accepted on a verification of what is in the workspace
\* then, and the workspace does not change under it.
THEOREM CompletedWasVerified ==
  ASSUME EditTools \subseteq {"edit_file"}
  PROVE  Spec /\ []OneRequestAtATime => []AcceptedIsVerified
<1>1. Init => Typed /\ EvidenceInv /\ OrderInv /\ AcceptInv
  BY InitCopies, InitOrder
<1>2. Typed /\ EvidenceInv /\ OrderInv /\ AcceptInv /\ OneRequestAtATime /\ [Next]_vars
        => EvidenceInv' /\ OrderInv' /\ AcceptInv'
  BY OrderStep, EvidenceStep
<1>3. AcceptInv => AcceptedIsVerified
  BY DEF AcceptInv, Accepted, AcceptedIsVerified
<1> QED
  BY <1>1, <1>2, <1>3, TypedStep, PTL DEF Spec

=============================================================================
