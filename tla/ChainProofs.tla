---------------------------- MODULE ChainProofs ----------------------------
(***************************************************************************)
(* For any workers, files, attempts and edits: what is merged was          *)
(* verified, but for commits of attempts that were interrupted, and what   *)
(* was judged was committed, unless such an attempt had edited first.      *)
(***************************************************************************)
EXTENDS ChainProperties, TLAPS

Places == {"idle", "started", "agent", "commit", "judged", "merging", "remove", "completing"}
Results == {"none", "succeeded", "failed", "fatal"}

Session == [pc : Places, kind : Kinds, attempt : Nat, head : Nat, changed : SUBSET Files,
            judged : Nat, result : Results]

ChainTypeOK ==
    /\ status \in [Kinds -> {"ready", "leased", "succeeded", "failed"}]
    /\ attempt_count \in [Kinds -> Nat]
    /\ session \in [Workers -> Session]
    /\ present \in BOOLEAN /\ tree \in Nat /\ changed \in SUBSET Files
    /\ edits \in Seq(Kinds \X Nat)
    /\ branch \in Seq([tree : Nat, attempt : Nat])
    /\ merged \in SUBSET Nat
    /\ verified \in SUBSET [head : Nat, judged : Nat]

Busy(w) == pc(w) # "idle"

\* Who is at work holds the lease or was interrupted, each as an attempt of its own.
Leases ==
    /\ \A w \in Workers : Busy(w) =>
          /\ session[w].attempt =< attempt_count[kind(w)]
          /\ HoldsLease(w) \/ Attempt(w) \in interrupted
    /\ \A w, x \in Workers : Busy(w) /\ Busy(x) /\ Attempt(w) = Attempt(x) => w = x

\* An item is at work on after the items before it, and those stay succeeded.
Order ==
    /\ \A w \in Workers : Busy(w) => \A d \in Before(kind(w)) : status[d] = "succeeded"
    /\ \A w \in Workers : /\ pc(w) = "commit" => kind(w) = "execute"
                          /\ pc(w) = "judged" => kind(w) = "verify"
                          /\ pc(w) \in {"merging", "remove"} => kind(w) = "integrate"
                          /\ pc(w) \in {"judged", "completing"} => session[w].result # "none"
    /\ status["verify"] = "succeeded" => verified # {}
    /\ verified # {} => status["execute"] = "succeeded"

-----------------------------------------------------------------------------
(* The branch.                                                             *)

\* All commits after h are those of interrupted attempts.
Settled(h) ==
    /\ h =< head
    /\ \A i \in h + 1..head : <<"execute", branch[i].attempt>> \in interrupted

Succeeds(w) == pc(w) = "completing" /\ session[w].result = "succeeded"

Heads ==
    /\ \A v \in verified : Settled(v.head)
    /\ \A w \in Workers : kind(w) = "verify" /\ (pc(w) \in {"agent", "judged"} \/ Succeeds(w)) =>
          Settled(session[w].head)
    /\ \A w \in Workers : pc(w) = "merging" =>
          session[w].head =< head /\ \E v \in verified : v.head =< session[w].head
    /\ \A m \in merged : m =< head

-----------------------------------------------------------------------------
(* The worktree.                                                           *)

Trees ==
    /\ tree =< Len(edits)
    /\ \A i \in 1..head : branch[i].tree =< Len(edits)

\* There are edits after the last commit, and who made the first.
Dirty == TreeOf(head) < Len(edits)
FirstEdit == edits[TreeOf(head) + 1]

\* Before the verification git status tells whether there are.
Reported ==
    status["verify"] # "succeeded" =>
        /\ ~present => edits = <<>> /\ branch = <<>>
        /\ present => tree = Len(edits) /\ (changed # {} <=> Dirty)
        /\ \A w \in Workers : /\ kind(w) = "verify" /\ pc(w) \in {"agent", "judged"}
                              /\ session[w].head = head /\ session[w].changed # {}
                              => Dirty

\* The verifier's own first edit is going to be noticed.
Noticed(w) ==
    /\ kind(w) = "verify" /\ HoldsLease(w)
    /\ \/ /\ pc(w) \in {"agent", "judged"}
          /\ session[w].changed = {} \/ session[w].head # head
       \/ pc(w) = "completing" /\ session[w].result = "fatal"

Blamed ==
    /\ status["execute"] = "succeeded" /\ status["verify"] \in {"ready", "leased"} /\ Dirty =>
          \/ FirstEdit \in interrupted
          \/ \E w \in Workers : Noticed(w) /\ Attempt(w) = FirstEdit
    /\ \A w \in Workers : kind(w) = "execute" /\ HoldsLease(w) /\ Succeeds(w) /\ Dirty =>
          FirstEdit \in interrupted

\* A verdict j about commit h is about its tree or about an interrupted edit.
Judgement(h, j) ==
    /\ TreeOf(h) =< j
    /\ TreeOf(h) < j => edits[TreeOf(h) + 1] \in interrupted

Judged ==
    /\ \A w \in Workers : kind(w) = "verify" /\ HoldsLease(w) =>
          /\ pc(w) = "judged" \/ Succeeds(w) =>
                TreeOf(session[w].head) =< session[w].judged /\ session[w].judged =< Len(edits)
          /\ Succeeds(w) => Judgement(session[w].head, session[w].judged)
    /\ \A v \in verified : v.judged =< Len(edits)

BranchInv == ChainTypeOK /\ Leases /\ Order /\ Heads /\ MergedWasVerified

TreeInv == Trees /\ Reported /\ Blamed /\ Judged /\ JudgedWasCommitted

-----------------------------------------------------------------------------
(* Sessions.                                                               *)

Others(w) == \A x \in Workers \ {w} : session'[x] = session[x]

LEMMA SessionFields ==
    ASSUME ChainTypeOK, NEW w \in Workers
    PROVE  /\ session \in [Workers -> Session] /\ session[w] \in Session
           /\ pc(w) \in Places /\ kind(w) \in Kinds /\ session[w].attempt \in Nat
           /\ session[w].head \in Nat /\ session[w].changed \in SUBSET Files
           /\ session[w].judged \in Nat /\ session[w].result \in Results
BY DEF ChainTypeOK, Session, pc, kind

\* Replacing one session.
LEMMA Replaced ==
    ASSUME ChainTypeOK, NEW w \in Workers, NEW new \in Session,
           session' = [session EXCEPT ![w] = new]
    PROVE  session' \in [Workers -> Session] /\ session'[w] = new /\ Others(w)
BY SessionFields DEF Others

LEMMA GoesFields ==
    ASSUME ChainTypeOK, NEW w \in Workers, NEW next \in Places, Goes(w, next)
    PROVE  /\ session' \in [Workers -> Session] /\ Others(w)
           /\ session'[w].pc = next
           /\ session'[w].kind = kind(w) /\ session'[w].attempt = session[w].attempt
           /\ session'[w].head = session[w].head /\ session'[w].changed = session[w].changed
           /\ session'[w].judged = session[w].judged /\ session'[w].result = session[w].result
<1> DEFINE new == [session[w] EXCEPT !.pc = next]
<1>1. /\ new \in Session /\ new.pc = next /\ new.kind = kind(w)
      /\ new.attempt = session[w].attempt /\ new.head = session[w].head
      /\ new.changed = session[w].changed /\ new.judged = session[w].judged
      /\ new.result = session[w].result
  BY SessionFields DEF Session, kind
<1>2. session' = [session EXCEPT ![w] = new]
  BY DEF Goes
<1> HIDE DEF new
<1>3. session' \in [Workers -> Session] /\ session'[w] = new /\ Others(w)
  BY <1>1, <1>2, Replaced
<1> QED
  BY <1>1, <1>3

LEMMA EndsFields ==
    ASSUME ChainTypeOK, NEW w \in Workers, NEW result \in Results, Ends(w, result)
    PROVE  /\ session' \in [Workers -> Session] /\ Others(w)
           /\ session'[w].pc = "completing" /\ session'[w].result = result
           /\ session'[w].kind = kind(w) /\ session'[w].attempt = session[w].attempt
           /\ session'[w].head = session[w].head /\ session'[w].changed = session[w].changed
           /\ session'[w].judged = session[w].judged
<1> DEFINE new == [session[w] EXCEPT !.pc = "completing", !.result = result]
<1>1. /\ new \in Session /\ new.pc = "completing" /\ new.kind = kind(w)
      /\ new.attempt = session[w].attempt /\ new.head = session[w].head
      /\ new.changed = session[w].changed /\ new.judged = session[w].judged
      /\ new.result = result
  BY SessionFields DEF Session, kind, Places
<1>2. session' = [session EXCEPT ![w] = new]
  BY DEF Ends
<1> HIDE DEF new
<1>3. session' \in [Workers -> Session] /\ session'[w] = new /\ Others(w)
  BY <1>1, <1>2, Replaced
<1> QED
  BY <1>1, <1>3

LEMMA HeadIsNat == ChainTypeOK => head \in Nat /\ branch \in Seq([tree : Nat, attempt : Nat])
BY DEF ChainTypeOK, head

LEMMA InspectFields ==
    ASSUME ChainTypeOK, NEW w \in Workers, Inspect(w), present
    PROVE  /\ session' \in [Workers -> Session] /\ Others(w)
           /\ session'[w].pc = "agent" /\ session'[w].head = head
           /\ session'[w].changed = changed
           /\ session'[w].kind = kind(w) /\ session'[w].attempt = session[w].attempt
<1> DEFINE new == [session[w] EXCEPT !.pc = "agent", !.head = head, !.changed = changed]
<1>1. head \in Nat /\ changed \in SUBSET Files
  BY HeadIsNat DEF ChainTypeOK
<1>2. /\ new \in Session /\ new.pc = "agent" /\ new.kind = kind(w) /\ new.head = head
      /\ new.attempt = session[w].attempt /\ new.changed = changed
  BY <1>1, SessionFields DEF Session, kind, Places
<1>3. session' = [session EXCEPT ![w] = new]
  BY DEF Inspect
<1> HIDE DEF new
<1>4. session' \in [Workers -> Session] /\ session'[w] = new /\ Others(w)
  BY <1>2, <1>3, Replaced
<1> QED
  BY <1>2, <1>4

LEMMA JudgeFields ==
    ASSUME ChainTypeOK, NEW w \in Workers, Judge(w)
    PROVE  /\ session' \in [Workers -> Session] /\ Others(w)
           /\ session'[w].pc = "judged" /\ session'[w].judged = tree
           /\ session'[w].result # "none"
           /\ session'[w].head = session[w].head /\ session'[w].changed = session[w].changed
           /\ session'[w].kind = kind(w) /\ session'[w].attempt = session[w].attempt
<1>1. PICK verdict \in {"succeeded", "failed"} :
          session' = [session EXCEPT ![w].pc = "judged", ![w].judged = tree, ![w].result = verdict]
  BY DEF Judge
<1> DEFINE new == [session[w] EXCEPT !.pc = "judged", !.judged = tree, !.result = verdict]
<1>2. tree \in Nat
  BY DEF ChainTypeOK
<1>3. /\ new \in Session /\ new.pc = "judged" /\ new.kind = kind(w) /\ new.judged = tree
      /\ new.attempt = session[w].attempt /\ new.head = session[w].head
      /\ new.changed = session[w].changed /\ new.result # "none"
  BY <1>2, SessionFields DEF Session, kind, Places, Results
<1>4. session' = [session EXCEPT ![w] = new]
  BY <1>1
<1> HIDE DEF new
<1>5. session' \in [Workers -> Session] /\ session'[w] = new /\ Others(w)
  BY <1>3, <1>4, Replaced
<1> QED
  BY <1>3, <1>5

LEMMA StartMergeFields ==
    ASSUME ChainTypeOK, NEW w \in Workers, StartMerge(w), present
    PROVE  /\ session' \in [Workers -> Session] /\ Others(w)
           /\ session'[w].pc = "merging" /\ session'[w].head = head
           /\ session'[w].kind = kind(w) /\ session'[w].attempt = session[w].attempt
<1> DEFINE new == [session[w] EXCEPT !.pc = "merging", !.head = head]
<1>1. /\ new \in Session /\ new.pc = "merging" /\ new.kind = kind(w) /\ new.head = head
      /\ new.attempt = session[w].attempt
  BY HeadIsNat, SessionFields DEF Session, kind, Places
<1>2. session' = [session EXCEPT ![w] = new]
  BY DEF StartMerge
<1> HIDE DEF new
<1>3. session' \in [Workers -> Session] /\ session'[w] = new /\ Others(w)
  BY <1>1, <1>2, Replaced
<1> QED
  BY <1>1, <1>3

\* A step of an attempt, which goes on or is about to complete.
Works(w) ==
    \/ Prepare(w) \/ Edit(w) \/ Executed(w) \/ Commit(w)
    \/ Inspect(w) \/ Judge(w) \/ Compare(w)
    \/ StartMerge(w) \/ EndMerge(w) \/ Remove(w) \/ Raise(w)

LEMMA WorkFields ==
    ASSUME ChainTypeOK, NEW w \in Workers, Works(w)
    PROVE  /\ session' \in [Workers -> Session] /\ Others(w)
           /\ Busy(w) /\ session'[w].pc # "idle"
           /\ session'[w].kind = kind(w) /\ session'[w].attempt = session[w].attempt
           /\ session'[w].pc = "commit" => kind(w) = "execute" \/ pc(w) = "commit"
           /\ session'[w].pc = "judged" => kind(w) = "verify" \/ pc(w) = "judged"
           /\ session'[w].pc \in {"merging", "remove"} =>
                 kind(w) = "integrate" \/ pc(w) \in {"merging", "remove"}
           /\ session'[w].pc \in {"judged", "completing"} /\ session'[w].result = "none" =>
                 pc(w) \in {"judged", "completing"} /\ session[w].result = "none"
<1>1. CASE Prepare(w)
  BY <1>1, GoesFields DEF Prepare, Busy, Places
<1>2. CASE Edit(w)
  BY <1>2, SessionFields DEF Edit, Busy, Others, kind, pc
<1>3. CASE Executed(w)
  <2>1. kind(w) = "execute" /\ Busy(w) /\ (Goes(w, "commit") \/ Ends(w, "failed"))
    BY <1>3 DEF Executed, Busy
  <2>2. CASE Goes(w, "commit")
    BY <2>1, <2>2, GoesFields DEF Places
  <2>3. CASE Ends(w, "failed")
    BY <2>1, <2>3, EndsFields DEF Results
  <2> QED
    BY <2>1, <2>2, <2>3
<1>4. CASE Commit(w) \/ Remove(w)
  BY <1>4, EndsFields DEF Commit, Remove, Busy, Results
<1>5. CASE Inspect(w)
  <2>1. Busy(w)
    BY <1>5 DEF Inspect, Busy
  <2>2. CASE present
    BY <1>5, <2>1, <2>2, InspectFields
  <2>3. CASE ~present
    BY <1>5, <2>1, <2>3, EndsFields DEF Inspect, Results
  <2> QED
    BY <2>2, <2>3
<1>6. CASE Judge(w)
  <2>1. Busy(w) /\ kind(w) = "verify"
    BY <1>6 DEF Judge, Busy
  <2> QED
    BY <1>6, <2>1, JudgeFields
<1>7. CASE Compare(w)
  <2>1. Busy(w) /\ pc(w) = "judged" /\ (Ends(w, "fatal") \/ Goes(w, "completing"))
    BY <1>7 DEF Compare, Busy
  <2>2. CASE Ends(w, "fatal")
    BY <2>1, <2>2, EndsFields DEF Results
  <2>3. CASE Goes(w, "completing")
    BY <2>1, <2>3, GoesFields DEF Places
  <2> QED
    BY <2>1, <2>2, <2>3
<1>8. CASE StartMerge(w)
  <2>1. Busy(w) /\ kind(w) = "integrate"
    BY <1>8 DEF StartMerge, Busy
  <2>2. CASE present
    BY <1>8, <2>1, <2>2, StartMergeFields
  <2>3. CASE ~present
    BY <1>8, <2>1, <2>3, EndsFields DEF StartMerge, Results
  <2> QED
    BY <2>2, <2>3
<1>9. CASE EndMerge(w)
  <2>1. Busy(w) /\ pc(w) = "merging" /\ (Goes(w, "remove") \/ Ends(w, "fatal"))
    BY <1>9 DEF EndMerge, Busy
  <2>2. CASE Goes(w, "remove")
    BY <2>1, <2>2, GoesFields DEF Places
  <2>3. CASE Ends(w, "fatal")
    BY <2>1, <2>3, EndsFields DEF Results
  <2> QED
    BY <2>1, <2>2, <2>3
<1>10. CASE Raise(w)
  BY <1>10, EndsFields DEF Raise, Busy, Results
<1> QED
  BY <1>1, <1>2, <1>3, <1>4, <1>5, <1>6, <1>7, <1>8, <1>9, <1>10 DEF Works

\* No attempt changes items or verdicts while it works, and none is pardoned.
LEMMA WorkKeeps ==
    ASSUME NEW w \in Workers, Works(w)
    PROVE  UNCHANGED <<status, attempt_count, verified>> /\ interrupted \subseteq interrupted'
BY DEF Works, Prepare, Edit, Executed, Commit, Inspect, Judge, Compare, StartMerge, EndMerge,
       Remove, Raise, items

LEMMA ClaimFields ==
    ASSUME ChainTypeOK, NEW w \in Workers, NEW k \in Kinds, Claim(w, k)
    PROVE  /\ session' \in [Workers -> Session] /\ Others(w)
           /\ session'[w].pc = "started" /\ session'[w].kind = k
           /\ session'[w].attempt = attempt_count[k] + 1
           /\ status[k] = "ready" /\ status' = [status EXCEPT ![k] = "leased"]
           /\ attempt_count' = [attempt_count EXCEPT ![k] = attempt_count[k] + 1]
<1> DEFINE new == [Idle EXCEPT !.pc = "started", !.kind = k, !.attempt = attempt_count[k] + 1]
<1>1. attempt_count[k] + 1 \in Nat
  BY DEF ChainTypeOK
<1>2. new \in Session /\ new.pc = "started" /\ new.kind = k /\ new.attempt = attempt_count[k] + 1
  BY <1>1 DEF Session, Idle, Places, Results
<1>3. session' = [session EXCEPT ![w] = new]
  BY DEF Claim
<1> HIDE DEF new
<1>4. session' \in [Workers -> Session] /\ session'[w] = new /\ Others(w)
  BY <1>2, <1>3, Replaced
<1> QED
  BY <1>2, <1>4 DEF Claim

LEMMA IdleFields ==
    ASSUME ChainTypeOK, NEW w \in Workers, Complete(w) \/ Crash(w)
    PROVE  session' \in [Workers -> Session] /\ Others(w) /\ session'[w].pc = "idle" /\ Busy(w)
<1>1. Idle \in Session /\ Idle.pc = "idle"
  BY DEF Session, Idle, Kinds, Places, Results
<1>2. session' = [session EXCEPT ![w] = Idle] /\ Busy(w)
  BY DEF Complete, Crash, Busy
<1> QED
  BY <1>1, <1>2, Replaced

-----------------------------------------------------------------------------
(* Types.                                                                  *)

\* What the steps of a busy worker do to the repository and the files.
LEMMA EditFields ==
    ASSUME ChainTypeOK, NEW w \in Workers, Edit(w)
    PROVE  /\ edits' = Append(edits, Attempt(w)) /\ Attempt(w) \in Kinds \X Nat
           /\ edits' \in Seq(Kinds \X Nat) /\ Len(edits') = Len(edits) + 1
           /\ edits'[Len(edits) + 1] = Attempt(w)
           /\ \A i \in 1..Len(edits) : edits'[i] = edits[i]
           /\ tree' = Len(edits) + 1 /\ changed' # {} /\ changed' \in SUBSET Files
           /\ UNCHANGED <<status, attempt_count, session, present, branch, merging, merged,
                          verified, interrupted>>
<1>1. Attempt(w) \in Kinds \X Nat
  BY SessionFields DEF Attempt
<1>2. edits \in Seq(Kinds \X Nat) /\ changed \in SUBSET Files
  BY DEF ChainTypeOK
<1> QED
  BY <1>1, <1>2 DEF Edit, items

LEMMA CommitFields ==
    ASSUME ChainTypeOK, NEW w \in Workers, Commit(w)
    PROVE  /\ present
           /\ branch' = Append(branch, [tree |-> tree, attempt |-> session[w].attempt])
           /\ branch' \in Seq([tree : Nat, attempt : Nat]) /\ Len(branch') = Len(branch) + 1
           /\ branch'[Len(branch) + 1].tree = tree
           /\ branch'[Len(branch) + 1].attempt = session[w].attempt
           /\ \A i \in 1..Len(branch) : branch'[i] = branch[i]
           /\ changed' = {}
           /\ UNCHANGED <<status, attempt_count, present, tree, edits, merging, merged,
                          verified, interrupted>>
<1>1. [tree |-> tree, attempt |-> session[w].attempt] \in [tree : Nat, attempt : Nat]
  BY SessionFields DEF ChainTypeOK
<1>2. branch \in Seq([tree : Nat, attempt : Nat])
  BY DEF ChainTypeOK
<1> QED
  BY <1>1, <1>2 DEF Commit, items

LEMMA ElementOf == ASSUME NEW S, NEW s \in Seq(S), NEW i \in 1..Len(s) PROVE s[i] \in S
OBVIOUS

LEMMA TreeOfType ==
    ASSUME ChainTypeOK, NEW h \in 0..head PROVE TreeOf(h) \in Nat
<1>1. branch \in Seq([tree : Nat, attempt : Nat])
  BY DEF ChainTypeOK
<1>2. CASE h # 0
  <2>1. h \in 1..Len(branch)
    BY <1>1, <1>2 DEF head
  <2>2. branch[h] \in [tree : Nat, attempt : Nat]
    BY <1>1, <2>1, ElementOf
  <2> QED
    BY <1>2, <2>2 DEF TreeOf
<1> QED
  BY <1>2 DEF TreeOf

LEMMA WorkTypes ==
    ASSUME ChainTypeOK, NEW w \in Workers, Works(w) PROVE ChainTypeOK'
<1>1. session' \in [Workers -> Session] /\ UNCHANGED <<status, attempt_count, verified>>
  BY WorkFields, WorkKeeps
<1>2. CASE Edit(w)
  <2>1. tree' \in Nat
    BY <1>2, EditFields DEF ChainTypeOK
  <2> QED
    BY <1>1, <1>2, <2>1, EditFields DEF ChainTypeOK
<1>3. CASE Commit(w)
  <2>1. changed' \in SUBSET Files
    BY <1>3, CommitFields
  <2> QED
    BY <1>1, <1>3, <2>1, CommitFields DEF ChainTypeOK
<1>4. CASE Prepare(w)
  <2>1. TreeOf(head) \in Nat
    BY HeadIsNat, TreeOfType
  <2>2. tree' \in Nat /\ changed' \in SUBSET Files /\ present' \in BOOLEAN
    BY <1>4, <2>1 DEF Prepare, ChainTypeOK
  <2> QED
    BY <1>1, <1>4, <2>2 DEF Prepare, ChainTypeOK
<1>5. CASE Executed(w) \/ Inspect(w) \/ Judge(w) \/ Compare(w) \/ StartMerge(w) \/ Raise(w)
  <2>1. UNCHANGED <<present, tree, changed, edits, branch, merged>>
    BY <1>5 DEF Executed, Inspect, Judge, Compare, StartMerge, Raise, worktree
  <2> QED
    BY <1>1, <2>1 DEF ChainTypeOK
<1>6. CASE EndMerge(w)
  <2> DEFINE m == session[w].head
  <2>1. m \in Nat /\ merged \in SUBSET Nat /\ merged' \in {merged, merged \cup {m}}
    BY <1>6, SessionFields DEF EndMerge, ChainTypeOK
  <2> HIDE DEF m
  <2>3. merged' \in SUBSET Nat
    BY <2>1
  <2>2. UNCHANGED <<present, tree, changed, edits, branch>>
    BY <1>6 DEF EndMerge, worktree
  <2> QED
    BY <1>1, <2>2, <2>3 DEF ChainTypeOK
<1>7. CASE Remove(w)
  BY <1>1, <1>7 DEF Remove, ChainTypeOK
<1> QED
  BY <1>2, <1>3, <1>4, <1>5, <1>6, <1>7 DEF Works

\* What a result does to the item.
LEMMA CompleteFields ==
    ASSUME ChainTypeOK, Order, NEW w \in Workers, Complete(w)
    PROVE  /\ pc(w) = "completing"
           /\ UNCHANGED <<attempt_count, present, tree, changed, edits, branch, merging, merged,
                          interrupted>>
           /\ ~HoldsLease(w) => status' = status /\ verified' = verified
           /\ HoldsLease(w) =>
                 /\ \E new \in {"ready", "succeeded", "failed"} :
                       /\ status' = [status EXCEPT ![kind(w)] = new]
                       /\ session[w].result = "succeeded" <=> new = "succeeded"
                       /\ session[w].result = "fatal" => new = "failed"
                 /\ verified' = IF kind(w) = "verify" /\ session[w].result = "succeeded"
                                THEN verified \cup {[head |-> session[w].head,
                                                     judged |-> session[w].judged]}
                                ELSE verified
<1>1. pc(w) = "completing" /\ session[w].result \in {"succeeded", "failed", "fatal"}
  BY SessionFields DEF Complete, Order, Results
<1>2. Retried(kind(w)) \in {"ready", "failed"}
  BY DEF Retried
<1>3. CASE session[w].result = "succeeded"
  BY <1>1, <1>3 DEF Complete, worktree
<1>4. CASE session[w].result = "failed"
  BY <1>1, <1>2, <1>4 DEF Complete, worktree
<1>5. CASE session[w].result = "fatal"
  BY <1>1, <1>5 DEF Complete, worktree
<1> QED
  BY <1>1, <1>3, <1>4, <1>5

LEMMA CrashKeeps ==
    ASSUME NEW w \in Workers, Crash(w)
    PROVE  /\ UNCHANGED <<status, attempt_count, present, tree, changed, edits, branch, verified>>
           /\ interrupted' = interrupted \cup {Attempt(w)}
           /\ merged' \in {merged} \cup (IF pc(w) = "merging" THEN {merged \cup {session[w].head}}
                                         ELSE {})
BY DEF Crash, items, worktree

LEMMA TypesStep == ChainTypeOK /\ Order /\ [Next]_vars => ChainTypeOK'
<1> SUFFICES ASSUME ChainTypeOK, Order, [Next]_vars PROVE ChainTypeOK'
  OBVIOUS
<1>1. ASSUME NEW k \in Kinds, Expire(k) PROVE ChainTypeOK'
  BY <1>1 DEF Expire, Retried, ChainTypeOK, worktree
<1>2. ASSUME NEW w \in Workers, NEW k \in Kinds, Claim(w, k) PROVE ChainTypeOK'
  <2>1. attempt_count' \in [Kinds -> Nat]
    BY <1>2, ClaimFields DEF ChainTypeOK
  <2> QED
    BY <1>2, <2>1, ClaimFields DEF Claim, ChainTypeOK, worktree
<1>3. ASSUME NEW w \in Workers, Complete(w) PROVE ChainTypeOK'
  <2>1. session' \in [Workers -> Session]
    BY <1>3, IdleFields
  <2> DEFINE v == [head |-> session[w].head, judged |-> session[w].judged]
  <2>2. kind(w) \in Kinds /\ v \in [head : Nat, judged : Nat]
    BY SessionFields
  <2>3. verified' \in {verified, verified \cup {v}}
    BY <1>3, CompleteFields
  <2> HIDE DEF v
  <2>4. verified' \in SUBSET [head : Nat, judged : Nat]
    BY <2>2, <2>3 DEF ChainTypeOK
  <2>5. status' \in [Kinds -> {"ready", "leased", "succeeded", "failed"}]
    <3>1. CASE HoldsLease(w)
      <4>1. PICK new \in {"ready", "succeeded", "failed"} :
                status' = [status EXCEPT ![kind(w)] = new]
        BY <1>3, <3>1, CompleteFields
      <4> QED
        BY <2>2, <4>1 DEF ChainTypeOK
    <3>2. CASE ~HoldsLease(w)
      BY <1>3, <3>2, CompleteFields DEF ChainTypeOK
    <3> QED
      BY <3>1, <3>2
  <2> QED
    BY <1>3, <2>1, <2>4, <2>5, CompleteFields DEF ChainTypeOK
<1>4. ASSUME NEW w \in Workers, Crash(w) PROVE ChainTypeOK'
  <2>1. session' \in [Workers -> Session]
    BY <1>4, IdleFields
  <2> DEFINE m == session[w].head
  <2>2. m \in Nat /\ merged \in SUBSET Nat /\ merged' \in {merged, merged \cup {m}}
    BY <1>4, CrashKeeps, SessionFields DEF ChainTypeOK
  <2> HIDE DEF m
  <2>3. merged' \in SUBSET Nat
    BY <2>2
  <2> QED
    BY <1>4, <2>1, <2>3, CrashKeeps DEF ChainTypeOK
<1>5. CASE UNCHANGED vars
  BY <1>5 DEF vars, ChainTypeOK
<1> QED
  BY <1>1, <1>2, <1>3, <1>4, <1>5, WorkTypes DEF Next, Works

-----------------------------------------------------------------------------
(* Leases.                                                                 *)

\* Who is busy was so before, as the same attempt.
SameAttempts ==
    \A x \in Workers : session'[x].pc # "idle" =>
        Busy(x) /\ session'[x].kind = kind(x) /\ session'[x].attempt = session[x].attempt

LEMMA StepsKeepAttempts ==
    ASSUME ChainTypeOK, NEW w \in Workers, Works(w) \/ Complete(w) \/ Crash(w)
    PROVE  SameAttempts
<1>1. CASE Works(w)
  BY <1>1, WorkFields DEF SameAttempts, Others, Busy, kind, pc
<1>2. CASE Complete(w) \/ Crash(w)
  BY <1>2, IdleFields DEF SameAttempts, Others, Busy, kind, pc
<1> QED
  BY <1>1, <1>2

LEMMA LeasesKept ==
    ASSUME Leases, SameAttempts, UNCHANGED <<status, attempt_count>>, interrupted \subseteq interrupted'
    PROVE  Leases'
<1>1. ASSUME NEW x \in Workers, Busy(x)'
      PROVE  /\ Busy(x) /\ kind(x)' = kind(x) /\ session'[x].attempt = session[x].attempt
             /\ Attempt(x)' = Attempt(x) /\ (HoldsLease(x) => HoldsLease(x)')
  BY <1>1 DEF SameAttempts, Busy, pc, kind, Attempt, HoldsLease
<1>2. ASSUME NEW x \in Workers, Busy(x)'
      PROVE  /\ session'[x].attempt =< attempt_count'[kind(x)']
             /\ HoldsLease(x)' \/ Attempt(x)' \in interrupted'
  BY <1>1, <1>2 DEF Leases
<1>3. ASSUME NEW x \in Workers, NEW y \in Workers, Busy(x)', Busy(y)', Attempt(x)' = Attempt(y)'
      PROVE  x = y
  BY <1>1, <1>3 DEF Leases
<1> QED
  BY <1>2, <1>3 DEF Leases

\* Two attempts of an item are not both the last.
LEMMA OneHolder ==
    ASSUME ChainTypeOK, Leases, NEW w \in Workers, NEW x \in Workers,
           Busy(w), Busy(x), HoldsLease(w), HoldsLease(x), kind(w) = kind(x)
    PROVE  w = x
BY DEF Leases, HoldsLease, Attempt

LEMMA LeasesStep == ChainTypeOK /\ Order /\ Leases /\ [Next]_vars => Leases'
<1> SUFFICES ASSUME ChainTypeOK, Order, Leases, [Next]_vars PROVE Leases'
  OBVIOUS
<1>1. ASSUME NEW k \in Kinds, Expire(k) PROVE Leases'
  <2>1. /\ UNCHANGED <<attempt_count, session>>
        /\ interrupted' = interrupted \cup {<<k, attempt_count[k]>>}
        /\ \A j \in Kinds \ {k} : status'[j] = status[j]
    BY <1>1 DEF Expire, ChainTypeOK
  <2>2. ASSUME NEW x \in Workers, Busy(x) PROVE HoldsLease(x)' \/ Attempt(x) \in interrupted'
    <3>1. HoldsLease(x) \/ Attempt(x) \in interrupted
      BY <2>2 DEF Leases
    <3>2. CASE HoldsLease(x) /\ kind(x) = k
      BY <2>1, <3>2 DEF HoldsLease, Attempt
    <3>3. CASE HoldsLease(x) /\ kind(x) # k
      BY <2>1, <3>3, SessionFields DEF HoldsLease, kind
    <3> QED
      BY <2>1, <3>1, <3>2, <3>3
  <2>3. \A x \in Workers : Busy(x)' = Busy(x) /\ Attempt(x)' = Attempt(x) /\ kind(x)' = kind(x)
    BY <2>1 DEF Busy, Attempt, kind, pc
  <2> QED
    BY <2>1, <2>2, <2>3 DEF Leases
<1>2. ASSUME NEW w \in Workers, NEW k \in Kinds, Claim(w, k) PROVE Leases'
  <2>1. /\ session'[w].kind = k /\ session'[w].attempt = attempt_count[k] + 1
        /\ Others(w) /\ status[k] = "ready" /\ status'[k] = "leased"
        /\ attempt_count'[k] = attempt_count[k] + 1 /\ attempt_count[k] \in Nat
        /\ \A j \in Kinds \ {k} : status'[j] = status[j] /\ attempt_count'[j] = attempt_count[j]
        /\ interrupted' = interrupted
    BY <1>2, ClaimFields DEF ChainTypeOK, Claim
  <2>2. ASSUME NEW x \in Workers \ {w}, Busy(x)'
        PROVE  /\ Busy(x) /\ kind(x)' = kind(x) /\ kind(x) \in Kinds /\ session[x].attempt \in Nat
               /\ session'[x].attempt = session[x].attempt /\ Attempt(x)' = Attempt(x)
               /\ session[x].attempt =< attempt_count[kind(x)]
    BY <2>1, <2>2, SessionFields DEF Others, Busy, kind, pc, Attempt, Leases
  <2>3. HoldsLease(w)' /\ Attempt(w)' = <<k, attempt_count[k] + 1>> /\ kind(w)' = k
    BY <2>1 DEF HoldsLease, Attempt, kind
  <2>4. ASSUME NEW x \in Workers, Busy(x)'
        PROVE  /\ session'[x].attempt =< attempt_count'[kind(x)']
               /\ HoldsLease(x)' \/ Attempt(x)' \in interrupted'
    <3>1. CASE x = w
      BY <2>1, <2>3, <3>1
    <3>2. CASE x # w
      <4>1. /\ Busy(x) /\ kind(x)' = kind(x) /\ kind(x) \in Kinds /\ session[x].attempt \in Nat
            /\ session'[x].attempt = session[x].attempt /\ Attempt(x)' = Attempt(x)
            /\ session[x].attempt =< attempt_count[kind(x)]
        BY <2>2, <2>4, <3>2
      <4>2. HoldsLease(x) \/ Attempt(x) \in interrupted
        BY <4>1 DEF Leases
      <4>3. CASE kind(x) = k
        BY <2>1, <4>1, <4>2, <4>3 DEF HoldsLease
      <4>4. CASE kind(x) # k
        BY <2>1, <4>1, <4>2, <4>4 DEF HoldsLease
      <4> QED
        BY <4>3, <4>4
    <3> QED
      BY <3>1, <3>2
  <2>5. ASSUME NEW x \in Workers \ {w}, Busy(x)' PROVE Attempt(x)' # Attempt(w)'
    <3>1. Attempt(x) = <<kind(x), session[x].attempt>>
      BY DEF Attempt
    <3> QED
      BY <2>1, <2>2, <2>3, <2>5, <3>1
  <2>6. ASSUME NEW x \in Workers, NEW y \in Workers, Busy(x)', Busy(y)', Attempt(x)' = Attempt(y)'
        PROVE  x = y
    <3>1. CASE x # w /\ y # w
      BY <2>2, <2>6, <3>1 DEF Leases
    <3> QED
      BY <2>5, <2>6, <3>1
  <2> QED
    BY <2>4, <2>6 DEF Leases
<1>3. ASSUME NEW w \in Workers, Complete(w) PROVE Leases'
  <2>1. UNCHANGED <<attempt_count, interrupted>> /\ SameAttempts /\ Busy(w) /\ session'[w].pc = "idle"
    BY <1>3, CompleteFields, StepsKeepAttempts, IdleFields
  <2>2. CASE ~HoldsLease(w)
    BY <1>3, <2>1, <2>2, CompleteFields, LeasesKept
  <2>3. CASE HoldsLease(w)
    <3>1. \A j \in Kinds \ {kind(w)} : status'[j] = status[j]
      BY <1>3, <2>3, CompleteFields DEF ChainTypeOK
    <3>2. ASSUME NEW x \in Workers, Busy(x)'
          PROVE  /\ Busy(x) /\ x # w /\ kind(x)' = kind(x)
                 /\ session'[x].attempt = session[x].attempt /\ Attempt(x)' = Attempt(x)
      BY <2>1, <3>2 DEF SameAttempts, Busy, pc, kind, Attempt
    <3>3. ASSUME NEW x \in Workers, Busy(x)'
          PROVE  HoldsLease(x)' \/ Attempt(x)' \in interrupted'
      <4>1. CASE HoldsLease(x)
        <5>1. kind(x) # kind(w) /\ kind(x) \in Kinds
          BY <2>1, <2>3, <3>2, <3>3, <4>1, OneHolder, SessionFields
        <5> QED
          BY <2>1, <3>1, <3>2, <3>3, <4>1, <5>1 DEF HoldsLease
      <4> QED
        BY <2>1, <3>2, <3>3, <4>1 DEF Leases
    <3>4. ASSUME NEW x \in Workers, Busy(x)'
          PROVE  session'[x].attempt =< attempt_count'[kind(x)']
      BY <2>1, <3>2, <3>4 DEF Leases
    <3>5. ASSUME NEW x \in Workers, NEW y \in Workers, Busy(x)', Busy(y)', Attempt(x)' = Attempt(y)'
          PROVE  x = y
      BY <3>2, <3>5 DEF Leases
    <3> QED
      BY <3>3, <3>4, <3>5 DEF Leases
  <2> QED
    BY <2>2, <2>3
<1>4. ASSUME NEW w \in Workers, Crash(w) \/ Works(w) PROVE Leases'
  <2>1. SameAttempts
    BY <1>4, StepsKeepAttempts
  <2>2. UNCHANGED <<status, attempt_count>> /\ interrupted \subseteq interrupted'
    BY <1>4, WorkKeeps, CrashKeeps
  <2> QED
    BY <2>1, <2>2, LeasesKept
<1>5. CASE UNCHANGED vars
  <2>1. SameAttempts
    BY <1>5 DEF vars, SameAttempts, Busy, kind, pc
  <2> QED
    BY <1>5, <2>1, LeasesKept DEF vars
<1> QED
  BY <1>1, <1>2, <1>3, <1>4, <1>5 DEF Next, Works

-----------------------------------------------------------------------------
(* The order of the items.                                                 *)

LEMMA BeforeFacts ==
    /\ \A k \in Kinds : Before(k) \subseteq Kinds
    /\ "execute" \in Before("verify")
    /\ "execute" \in Before("integrate") /\ "verify" \in Before("integrate")
BY DEF Before, Kinds

LEMMA SuccessStays ==
    ASSUME ChainTypeOK, Order, [Next]_vars, NEW k \in Kinds, status[k] = "succeeded"
    PROVE  status'[k] = "succeeded"
<1>1. ASSUME NEW j \in Kinds, Expire(j) PROVE status'[k] = "succeeded"
  BY <1>1 DEF Expire, ChainTypeOK
<1>2. ASSUME NEW w \in Workers, NEW j \in Kinds, Claim(w, j) PROVE status'[k] = "succeeded"
  BY <1>2 DEF Claim, ChainTypeOK
<1>3. ASSUME NEW w \in Workers, Complete(w) PROVE status'[k] = "succeeded"
  <2>1. CASE HoldsLease(w)
    <3>1. status[kind(w)] = "leased" /\ kind(w) # k
      BY <2>1 DEF HoldsLease
    <3>2. PICK new \in {"ready", "succeeded", "failed"} : status' = [status EXCEPT ![kind(w)] = new]
      BY <1>3, <2>1, CompleteFields
    <3> QED
      BY <3>1, <3>2 DEF ChainTypeOK
  <2>2. CASE ~HoldsLease(w)
    BY <1>3, <2>2, CompleteFields
  <2> QED
    BY <2>1, <2>2
<1>4. ASSUME NEW w \in Workers, Crash(w) \/ Works(w) PROVE status'[k] = "succeeded"
  BY <1>4, WorkKeeps, CrashKeeps
<1>5. CASE UNCHANGED vars
  BY <1>5 DEF vars
<1> QED
  BY <1>1, <1>2, <1>3, <1>4, <1>5 DEF Next, Works

\* A verdict is entered by a verifier that holds the lease.
LEMMA VerifiedGrows ==
    ASSUME ChainTypeOK, Order, [Next]_vars
    PROVE  \/ verified' = verified /\ (status'["verify"] = "succeeded" => status["verify"] = "succeeded")
           \/ \E w \in Workers :
                 /\ Complete(w) /\ HoldsLease(w) /\ kind(w) = "verify" /\ Succeeds(w) /\ Busy(w)
                 /\ verified' = verified \cup {[head |-> session[w].head,
                                                judged |-> session[w].judged]}
<1> DEFINE Same == verified' = verified
                   /\ (status'["verify"] = "succeeded" => status["verify"] = "succeeded")
<1>1. ASSUME NEW k \in Kinds, Expire(k) PROVE Same
  BY <1>1 DEF Expire, Retried, ChainTypeOK, Kinds
<1>2. ASSUME NEW w \in Workers, NEW k \in Kinds, Claim(w, k) PROVE Same
  BY <1>2 DEF Claim, ChainTypeOK, Kinds
<1>3. ASSUME NEW w \in Workers, Complete(w)
      PROVE  \/ Same
             \/ /\ HoldsLease(w) /\ kind(w) = "verify" /\ Succeeds(w) /\ Busy(w)
                /\ verified' = verified \cup {[head |-> session[w].head,
                                               judged |-> session[w].judged]}
  <2>1. CASE HoldsLease(w)
    <3>1. PICK new \in {"ready", "succeeded", "failed"} :
              /\ status' = [status EXCEPT ![kind(w)] = new]
              /\ session[w].result = "succeeded" <=> new = "succeeded"
      BY <1>3, <2>1, CompleteFields
    <3>2. pc(w) = "completing"
      BY <1>3, CompleteFields
    <3>3. CASE kind(w) = "verify" /\ session[w].result = "succeeded"
      BY <1>3, <2>1, <3>2, <3>3, CompleteFields DEF Succeeds, Busy
    <3>4. CASE ~(kind(w) = "verify" /\ session[w].result = "succeeded")
      <4>1. verified' = verified
        BY <1>3, <2>1, <3>4, CompleteFields
      <4>2. status'["verify"] = "succeeded" => status["verify"] = "succeeded"
        BY <3>1, <3>4, SessionFields DEF ChainTypeOK, Kinds
      <4> QED
        BY <4>1, <4>2
    <3> QED
      BY <3>3, <3>4
  <2>2. CASE ~HoldsLease(w)
    BY <1>3, <2>2, CompleteFields
  <2> QED
    BY <2>1, <2>2
<1>4. ASSUME NEW w \in Workers, Crash(w) \/ Works(w) PROVE Same
  BY <1>4, WorkKeeps, CrashKeeps
<1>5. CASE UNCHANGED vars
  BY <1>5 DEF vars
<1> QED
  BY <1>1, <1>2, <1>3, <1>4, <1>5 DEF Next, Works

LEMMA OrderStep == ChainTypeOK /\ Order /\ [Next]_vars => Order'
<1> SUFFICES ASSUME ChainTypeOK, Order, [Next]_vars PROVE Order'
  OBVIOUS
<1> DEFINE Sound(x) ==
      Busy(x) => /\ \A d \in Before(kind(x)) : status[d] = "succeeded"
                 /\ pc(x) = "commit" => kind(x) = "execute"
                 /\ pc(x) = "judged" => kind(x) = "verify"
                 /\ pc(x) \in {"merging", "remove"} => kind(x) = "integrate"
                 /\ pc(x) \in {"judged", "completing"} => session[x].result # "none"
<1>1. ASSUME NEW x \in Workers, session'[x] = session[x] PROVE Sound(x)'
  <2>1. kind(x) \in Kinds /\ kind(x)' = kind(x) /\ pc(x)' = pc(x) /\ Busy(x)' = Busy(x)
    BY <1>1, SessionFields DEF kind, pc, Busy
  <2>2. ASSUME Busy(x), NEW d \in Before(kind(x)) PROVE status'[d] = "succeeded"
    BY <2>1, <2>2, SuccessStays, BeforeFacts DEF Order
  <2> QED
    BY <1>1, <2>1, <2>2 DEF Order
<1>2. ASSUME NEW w \in Workers, Works(w) PROVE Sound(w)'
  <2>1. kind(w) \in Kinds /\ kind(w)' = kind(w) /\ Busy(w)
    BY <1>2, WorkFields, SessionFields DEF kind
  <2>2. ASSUME NEW d \in Before(kind(w)) PROVE status'[d] = "succeeded"
    BY <2>1, <2>2, SuccessStays, BeforeFacts DEF Order
  <2>3. /\ session'[w].pc = "commit" => kind(w) = "execute"
        /\ session'[w].pc = "judged" => kind(w) = "verify"
        /\ session'[w].pc \in {"merging", "remove"} => kind(w) = "integrate"
        /\ session'[w].pc \in {"judged", "completing"} => session'[w].result # "none"
    BY <1>2, WorkFields DEF Order
  <2> QED
    BY <2>1, <2>2, <2>3 DEF pc
<1>3. ASSUME NEW w \in Workers, Complete(w) \/ Crash(w) PROVE Sound(w)'
  BY <1>3, IdleFields DEF Busy, pc
<1>4. ASSUME NEW w \in Workers, NEW k \in Kinds, Claim(w, k) PROVE Sound(w)'
  <2>1. session'[w].pc = "started" /\ kind(w)' = k
    BY <1>4, ClaimFields DEF kind
  <2>2. ASSUME NEW d \in Before(k) PROVE status'[d] = "succeeded"
    BY <1>4, <2>2, SuccessStays, BeforeFacts DEF Claim
  <2> QED
    BY <2>1, <2>2 DEF pc
<1>5. ASSUME NEW x \in Workers PROVE Sound(x)'
  <2>1. ASSUME NEW k \in Kinds, Expire(k) PROVE Sound(x)'
    BY <1>1, <2>1 DEF Expire
  <2>2. ASSUME NEW w \in Workers, Works(w) PROVE Sound(x)'
    BY <1>1, <1>2, <2>2, WorkFields DEF Others
  <2>3. ASSUME NEW w \in Workers, Complete(w) \/ Crash(w) PROVE Sound(x)'
    BY <1>1, <1>3, <2>3, IdleFields DEF Others
  <2>4. ASSUME NEW w \in Workers, NEW k \in Kinds, Claim(w, k) PROVE Sound(x)'
    BY <1>1, <1>4, <2>4, ClaimFields DEF Others
  <2>5. CASE UNCHANGED vars
    BY <1>1, <2>5 DEF vars
  <2> HIDE DEF Sound
  <2> QED
    BY <2>1, <2>2, <2>3, <2>4, <2>5 DEF Next, Works
<1>6. status'["verify"] = "succeeded" => verified' # {}
  BY VerifiedGrows DEF Order
<1>7. verified' # {} => status'["execute"] = "succeeded"
  <2>1. status["execute"] = "succeeded" => status'["execute"] = "succeeded"
    BY SuccessStays DEF Kinds
  <2>2. ASSUME NEW w \in Workers, kind(w) = "verify", Busy(w) PROVE status["execute"] = "succeeded"
    BY <2>2, BeforeFacts DEF Order
  <2> QED
    BY <2>1, <2>2, VerifiedGrows DEF Order
<1>8. ASSUME NEW x \in Workers
      PROVE  /\ pc(x)' = "commit" => kind(x)' = "execute"
             /\ pc(x)' = "judged" => kind(x)' = "verify"
             /\ pc(x)' \in {"merging", "remove"} => kind(x)' = "integrate"
             /\ pc(x)' \in {"judged", "completing"} => session'[x].result # "none"
  BY <1>5 DEF Busy, pc
<1> QED
  BY <1>5, <1>6, <1>7, <1>8 DEF Order

-----------------------------------------------------------------------------
(* What reaches the target.                                                *)

LEMMA InterruptedGrows == [Next]_vars => interrupted \subseteq interrupted'
<1>1. ASSUME NEW k \in Kinds, Expire(k) PROVE interrupted \subseteq interrupted'
  BY <1>1 DEF Expire
<1>2. ASSUME NEW w \in Workers, NEW k \in Kinds, Claim(w, k) PROVE interrupted \subseteq interrupted'
  BY <1>2 DEF Claim
<1>3. ASSUME NEW w \in Workers, Complete(w) PROVE interrupted \subseteq interrupted'
  BY <1>3 DEF Complete
<1>4. ASSUME NEW w \in Workers, Crash(w) \/ Works(w) PROVE interrupted \subseteq interrupted'
  BY <1>4, WorkKeeps, CrashKeeps
<1> QED
  BY <1>1, <1>2, <1>3, <1>4 DEF Next, Works, vars

LEMMA BranchGrows ==
    ASSUME [Next]_vars PROVE branch' = branch \/ \E w \in Workers : Commit(w)
<1>1. ASSUME NEW k \in Kinds, Expire(k) PROVE branch' = branch
  BY <1>1 DEF Expire
<1>2. ASSUME NEW w \in Workers, NEW k \in Kinds, Claim(w, k) PROVE branch' = branch
  BY <1>2 DEF Claim
<1>3. ASSUME NEW w \in Workers, Complete(w) \/ Crash(w) PROVE branch' = branch
  BY <1>3 DEF Complete, Crash
<1>4. ASSUME NEW w \in Workers, Works(w), ~Commit(w) PROVE branch' = branch
  BY <1>4 DEF Works, Prepare, Edit, Executed, Inspect, Judge, Compare, StartMerge, EndMerge,
              Remove, Raise
<1> QED
  BY <1>1, <1>2, <1>3, <1>4 DEF Next, Works, vars

LEMMA MergedGrows ==
    ASSUME [Next]_vars
    PROVE  \/ merged' = merged
           \/ \E w \in Workers : pc(w) = "merging" /\ merged' = merged \cup {session[w].head}
<1>1. ASSUME NEW k \in Kinds, Expire(k) PROVE merged' = merged
  BY <1>1 DEF Expire
<1>2. ASSUME NEW w \in Workers, NEW k \in Kinds, Claim(w, k) PROVE merged' = merged
  BY <1>2 DEF Claim
<1>3. ASSUME NEW w \in Workers, Complete(w) PROVE merged' = merged
  BY <1>3 DEF Complete
<1>4. ASSUME NEW w \in Workers, Works(w), ~EndMerge(w) PROVE merged' = merged
  BY <1>4 DEF Works, Prepare, Edit, Executed, Commit, Inspect, Judge, Compare, StartMerge,
              Remove, Raise
<1>5. ASSUME NEW w \in Workers, Crash(w) \/ EndMerge(w)
      PROVE  \/ merged' = merged
             \/ pc(w) = "merging" /\ merged' = merged \cup {session[w].head}
  <2>1. CASE Crash(w)
    BY <2>1 DEF Crash
  <2>2. CASE EndMerge(w)
    BY <2>2 DEF EndMerge
  <2> QED
    BY <1>5, <2>1, <2>2
<1> QED
  BY <1>1, <1>2, <1>3, <1>4, <1>5 DEF Next, Works, vars

\* Once the item that executes has succeeded, only interrupted attempts commit.
LEMMA LateCommit ==
    ASSUME ChainTypeOK, Leases, Order, status["execute"] = "succeeded", NEW w \in Workers, Commit(w)
    PROVE  <<"execute", session[w].attempt>> \in interrupted
<1>1. Busy(w) /\ kind(w) = "execute"
  BY DEF Commit, Busy, Order
<1>2. ~HoldsLease(w)
  BY <1>1 DEF HoldsLease
<1> QED
  BY <1>1, <1>2 DEF Leases, Attempt

LEMMA SettledStays ==
    ASSUME ChainTypeOK, Leases, Order, [Next]_vars, status["execute"] = "succeeded",
           NEW h \in Nat, Settled(h)
    PROVE  Settled(h)'
<1>1. head \in Nat /\ h =< head /\ interrupted \subseteq interrupted'
  BY HeadIsNat, InterruptedGrows DEF Settled
<1>2. CASE branch' = branch
  BY <1>1, <1>2 DEF Settled, head
<1>3. ASSUME NEW w \in Workers, Commit(w) PROVE Settled(h)'
  <2>1. /\ head' = head + 1 /\ branch'[head + 1].attempt = session[w].attempt
        /\ \A i \in 1..head : branch'[i] = branch[i]
    BY <1>3, CommitFields DEF head
  <2>2. <<"execute", session[w].attempt>> \in interrupted
    BY <1>3, LateCommit
  <2>3. ASSUME NEW i \in h + 1..head + 1
        PROVE  <<"execute", branch'[i].attempt>> \in interrupted'
    <3>1. CASE i = head + 1
      BY <1>1, <2>1, <2>2, <3>1
    <3>2. CASE i # head + 1
      <4>1. i \in h + 1..head /\ i \in 1..head
        BY <1>1, <3>2
      <4> QED
        BY <1>1, <2>1, <4>1 DEF Settled
    <3> QED
      BY <3>1, <3>2
  <2> QED
    BY <1>1, <2>1, <2>3 DEF Settled
<1> QED
  BY <1>2, <1>3, BranchGrows

\* How a verifier comes to have a head.
LEMMA VerifierMoves ==
    ASSUME ChainTypeOK, Order, NEW w \in Workers, Works(w), kind(w) = "verify",
           \/ session'[w].pc \in {"agent", "judged"}
           \/ session'[w].pc = "completing" /\ session'[w].result = "succeeded"
    PROVE  \/ /\ session'[w].head = session[w].head
              /\ pc(w) \in {"agent", "judged"} \/ Succeeds(w)
           \/ Inspect(w) /\ present
<1>1. ~Prepare(w) /\ ~Executed(w) /\ ~Commit(w) /\ ~StartMerge(w) /\ ~EndMerge(w) /\ ~Remove(w)
  BY DEF Prepare, Executed, Commit, StartMerge, EndMerge, Remove, Order
<1>2. ~Raise(w)
  BY EndsFields DEF Raise, Results
<1>3. CASE Edit(w)
  BY <1>3 DEF Edit
<1>4. CASE Inspect(w)
  BY <1>4, EndsFields DEF Inspect, Results
<1>5. CASE Judge(w)
  BY <1>5, JudgeFields DEF Judge
<1>6. CASE Compare(w)
  <2>1. CASE Ends(w, "fatal")
    BY <2>1, EndsFields DEF Results
  <2>2. CASE Goes(w, "completing")
    BY <1>6, <2>2, GoesFields DEF Compare, Places
  <2> QED
    BY <1>6, <2>1, <2>2 DEF Compare
<1> QED
  BY <1>1, <1>2, <1>3, <1>4, <1>5, <1>6 DEF Works

\* How an integrator comes to merge.
LEMMA IntegratorMoves ==
    ASSUME ChainTypeOK, NEW w \in Workers, Works(w), session'[w].pc = "merging"
    PROVE  StartMerge(w) /\ present
<1>1. ~Prepare(w) /\ ~Executed(w) /\ ~Commit(w) /\ ~Remove(w) /\ ~Raise(w)
  BY GoesFields, EndsFields DEF Prepare, Executed, Commit, Remove, Raise, Places, Results
<1>2. ~Edit(w)
  BY DEF Edit, pc
<1>3. ~Inspect(w)
  BY EndsFields, InspectFields DEF Inspect, Results
<1>4. ~Judge(w)
  BY JudgeFields
<1>5. ~Compare(w) /\ ~EndMerge(w)
  BY GoesFields, EndsFields DEF Compare, EndMerge, Places, Results
<1>6. StartMerge(w) => present
  BY EndsFields DEF StartMerge, Results
<1> QED
  BY <1>1, <1>2, <1>3, <1>4, <1>5, <1>6 DEF Works

\* A step changes at most one session.
LEMMA OneMoves ==
    ASSUME ChainTypeOK, [Next]_vars, NEW x \in Workers, session'[x] # session[x]
    PROVE  \/ Works(x) \/ Complete(x) \/ Crash(x)
           \/ \E k \in Kinds : Claim(x, k)
<1>1. ASSUME NEW k \in Kinds, Expire(k) PROVE FALSE
  BY <1>1 DEF Expire
<1>2. ASSUME NEW w \in Workers, w # x, Works(w) PROVE FALSE
  BY <1>2, WorkFields DEF Others
<1>3. ASSUME NEW w \in Workers, w # x, Complete(w) \/ Crash(w) PROVE FALSE
  BY <1>3, IdleFields DEF Others
<1>4. ASSUME NEW w \in Workers, w # x, NEW k \in Kinds, Claim(w, k) PROVE FALSE
  BY <1>4, ClaimFields DEF Others
<1>5. CASE UNCHANGED vars
  BY <1>5 DEF vars
<1> QED
  BY <1>1, <1>2, <1>3, <1>4, <1>5 DEF Next, Works

LEMMA HeadsStep ==
    ASSUME ChainTypeOK, Leases, Order, Heads, [Next]_vars PROVE Heads'
<1>1. ASSUME NEW v \in verified PROVE Settled(v.head)' /\ v \in verified'
  <2>1. v.head \in Nat /\ Settled(v.head) /\ status["execute"] = "succeeded"
    BY <1>1 DEF ChainTypeOK, Heads, Order
  <2> QED
    BY <2>1, SettledStays, VerifiedGrows
<1>2. ASSUME NEW v \in verified' PROVE Settled(v.head)'
  <2>1. CASE v \in verified
    BY <1>1, <2>1
  <2>2. CASE v \notin verified
    <3>1. PICK w \in Workers :
              /\ kind(w) = "verify" /\ Succeeds(w) /\ Busy(w)
              /\ v = [head |-> session[w].head, judged |-> session[w].judged]
      BY <1>2, <2>2, VerifiedGrows
    <3>2. v.head = session[w].head /\ v.head \in Nat
      BY <3>1, SessionFields
    <3>3. Settled(v.head) /\ status["execute"] = "succeeded"
      BY <3>1, <3>2, BeforeFacts DEF Heads, Order
    <3> QED
      BY <3>2, <3>3, SettledStays
  <2> QED
    BY <2>1, <2>2
<1>3. ASSUME NEW x \in Workers, kind(x)' = "verify", pc(x)' \in {"agent", "judged"} \/ Succeeds(x)',
             NEW h \in Nat, h = session'[x].head
      PROVE  Settled(h)'
  <2>1. \/ kind(x) = "verify" /\ Busy(x) /\ h = session[x].head /\ Settled(h)
        \/ Inspect(x) /\ present
    <3>1. CASE session'[x] = session[x]
      BY <1>3, <3>1 DEF Heads, kind, pc, Succeeds, Busy
    <3>2. CASE Works(x)
      <4>1. kind(x) = "verify" /\ Busy(x)
        BY <1>3, <3>2, WorkFields DEF kind
      <4>2. \/ session'[x].pc \in {"agent", "judged"}
            \/ session'[x].pc = "completing" /\ session'[x].result = "succeeded"
        BY <1>3 DEF pc, Succeeds
      <4> QED
        BY <1>3, <3>2, <4>1, <4>2, VerifierMoves DEF Heads
    <3>3. CASE Complete(x) \/ Crash(x)
      BY <1>3, <3>3, IdleFields DEF pc, Succeeds
    <3>4. ASSUME NEW k \in Kinds, Claim(x, k) PROVE FALSE
      BY <1>3, <3>4, ClaimFields DEF pc, Succeeds
    <3> QED
      BY <3>1, <3>2, <3>3, <3>4, OneMoves
  <2>2. CASE kind(x) = "verify" /\ Busy(x) /\ Settled(h)
    <3>1. status["execute"] = "succeeded"
      BY <2>2, BeforeFacts DEF Order
    <3> QED
      BY <1>3, <2>2, <3>1, SettledStays
  <2>3. CASE Inspect(x) /\ present
    <3>1. h = head /\ branch' = branch
      BY <1>3, <2>3, InspectFields DEF Inspect
    <3>2. h = head' /\ h =< h /\ \A i \in h + 1..h : FALSE
      BY <3>1 DEF head
    <3> QED
      BY <3>2 DEF Settled
  <2> QED
    BY <2>1, <2>2, <2>3
<1>4. head \in Nat /\ head' \in Nat /\ head =< head'
  <2>1. CASE branch' = branch
    BY <2>1, HeadIsNat DEF head
  <2>2. ASSUME NEW w \in Workers, Commit(w) PROVE head' = head + 1
    BY <2>2, CommitFields DEF head
  <2> QED
    BY <2>1, <2>2, HeadIsNat, BranchGrows
<1>5. ASSUME NEW x \in Workers, pc(x)' = "merging"
      PROVE  session'[x].head =< head' /\ \E v \in verified' : v.head =< session'[x].head
  <2>1. CASE session'[x] = session[x]
    <3>1. pc(x) = "merging" /\ session[x].head \in Nat
      BY <1>5, <2>1, SessionFields DEF pc
    <3>2. PICK v \in verified : session[x].head =< head /\ v.head =< session[x].head
      BY <3>1 DEF Heads
    <3> QED
      BY <1>1, <1>4, <2>1, <3>1, <3>2
  <2>2. CASE Works(x)
    <3>1. StartMerge(x) /\ session'[x].head = head /\ UNCHANGED <<branch, verified>>
      BY <1>5, <2>2, IntegratorMoves, StartMergeFields DEF StartMerge, pc
    <3>2. status["verify"] = "succeeded"
      BY <3>1, BeforeFacts DEF StartMerge, Order, Busy
    <3>3. PICK v \in verified : v.head =< head
      BY <3>2 DEF Order, Heads, Settled
    <3> QED
      BY <1>4, <3>1, <3>3
  <2>3. CASE Complete(x) \/ Crash(x)
    BY <1>5, <2>3, IdleFields DEF pc
  <2>4. ASSUME NEW k \in Kinds, Claim(x, k) PROVE FALSE
    BY <1>5, <2>4, ClaimFields DEF pc
  <2> QED
    BY <2>1, <2>2, <2>3, <2>4, OneMoves
<1>6. ASSUME NEW m \in merged' PROVE m =< head'
  <2>1. m =< head /\ m \in Nat
    BY <1>6, MergedGrows, SessionFields DEF Heads, ChainTypeOK
  <2> QED
    BY <1>4, <2>1
<1>7. ASSUME NEW x \in Workers, kind(x)' = "verify", pc(x)' \in {"agent", "judged"} \/ Succeeds(x)'
      PROVE  Settled(session[x].head)'
  <2>1. session' \in [Workers -> Session]
    BY TypesStep DEF ChainTypeOK
  <2>2. PICK h \in Nat : h = session'[x].head
    BY <2>1 DEF Session
  <2>3. Settled(h)'
    BY <1>3, <1>7, <2>2
  <2> QED
    BY <2>2, <2>3 DEF Settled
<1> QED
  BY <1>2, <1>5, <1>6, <1>7 DEF Heads

LEMMA MergedStep ==
    ASSUME ChainTypeOK, Leases, Order, Heads, MergedWasVerified, [Next]_vars
    PROVE  MergedWasVerified'
<1> SUFFICES ASSUME NEW m \in merged'
             PROVE  \E v \in verified' :
                       /\ v.head =< m
                       /\ \A i \in v.head + 1..m : <<"execute", branch'[i].attempt>> \in interrupted'
  BY DEF MergedWasVerified
<1>1. m \in Nat /\ m =< head /\ head \in Nat
  BY MergedGrows, SessionFields, HeadIsNat DEF Heads, ChainTypeOK
<1>2. PICK v \in verified :
          /\ v.head =< m
          /\ \A i \in v.head + 1..m : <<"execute", branch[i].attempt>> \in interrupted
  <2>1. CASE m \in merged
    BY <2>1 DEF MergedWasVerified
  <2>2. CASE m \notin merged
    <3>1. PICK w \in Workers : pc(w) = "merging" /\ m = session[w].head
      BY <2>2, MergedGrows
    <3>2. PICK v \in verified : v.head =< m
      BY <3>1 DEF Heads
    <3>3. Settled(v.head) /\ v.head \in Nat
      BY DEF Heads, ChainTypeOK
    <3>4. \A i \in v.head + 1..m : <<"execute", branch[i].attempt>> \in interrupted
      BY <1>1, <3>3 DEF Settled
    <3> QED
      BY <3>2, <3>4
  <2> QED
    BY <2>1, <2>2
<1>3. v \in verified' /\ v.head \in Nat
  BY VerifiedGrows DEF ChainTypeOK
<1>4. ASSUME NEW i \in v.head + 1..m PROVE branch'[i] = branch[i]
  <2>1. i \in 1..Len(branch)
    BY <1>1, <1>3, <1>4 DEF head
  <2> QED
    BY <2>1, BranchGrows, CommitFields
<1> QED
  BY <1>2, <1>3, <1>4, InterruptedGrows

LEMMA InitBranch == Init => BranchInv
<1> SUFFICES ASSUME Init PROVE BranchInv
  OBVIOUS
<1>1. /\ branch = <<>> /\ edits = <<>> /\ merged = {} /\ verified = {} /\ interrupted = {}
      /\ session = [w \in Workers |-> Idle]
      /\ \A w \in Workers : pc(w) = "idle"
  BY DEF Init, pc, Idle
<1>2. Idle \in Session
  BY DEF Session, Idle, Kinds, Places, Results
<1>3. ChainTypeOK
  <2>1. session \in [Workers -> Session]
    BY <1>1, <1>2
  <2>2. /\ status \in [Kinds -> {"ready", "leased", "succeeded", "failed"}]
        /\ attempt_count \in [Kinds -> Nat]
        /\ present \in BOOLEAN /\ tree \in Nat /\ changed \in SUBSET Files
    BY DEF Init
  <2>3. /\ edits \in Seq(Kinds \X Nat)
        /\ branch \in Seq([tree : Nat, attempt : Nat])
        /\ merged \in SUBSET Nat /\ verified \in SUBSET [head : Nat, judged : Nat]
    BY <1>1
  <2> QED
    BY <2>1, <2>2, <2>3 DEF ChainTypeOK
<1>4. Leases /\ Order
  BY <1>1 DEF Init, Leases, Order, Busy, Kinds
<1>5. Heads /\ MergedWasVerified
  BY <1>1 DEF Heads, MergedWasVerified, Succeeds
<1> QED
  BY <1>3, <1>4, <1>5 DEF BranchInv

LEMMA BranchStep == BranchInv /\ [Next]_vars => BranchInv'
BY TypesStep, LeasesStep, OrderStep, HeadsStep, MergedStep DEF BranchInv

\* The part of the inductive invariant that is about items and commits.
THEOREM BranchInvHolds == Spec => []BranchInv
<1> QED
  BY InitBranch, BranchStep, PTL DEF Spec

\* Whoever commits after a verification was interrupted, so nothing else comes
\* between the verified commit and the one that is merged (git_workspace.py).
THEOREM MergesAreVerified == Spec => []MergedWasVerified
<1>1. BranchInv => MergedWasVerified
  BY DEF BranchInv
<1> QED
  BY <1>1, BranchInvHolds, PTL

-----------------------------------------------------------------------------
(* Edits and commits.                                                      *)

\* The trees of commits that are there do not change.
LEMMA TreeOfStays ==
    ASSUME ChainTypeOK, [Next]_vars, NEW h \in Nat, h =< head
    PROVE  TreeOf(h)' = TreeOf(h)
<1>1. h # 0 => h \in 1..Len(branch)
  BY HeadIsNat DEF head
<1>2. h # 0 => branch'[h] = branch[h]
  BY <1>1, BranchGrows, CommitFields
<1> QED
  BY <1>2 DEF TreeOf

LEMMA EditsGrow ==
    ASSUME ChainTypeOK, [Next]_vars
    PROVE  /\ edits' = edits \/ \E w \in Workers : Edit(w)
           /\ Len(edits) \in Nat /\ Len(edits') \in Nat /\ Len(edits) =< Len(edits')
           /\ \A i \in 1..Len(edits) : edits'[i] = edits[i]
<1>1. ASSUME NEW k \in Kinds, Expire(k) PROVE edits' = edits
  BY <1>1 DEF Expire, worktree
<1>2. ASSUME NEW w \in Workers, NEW k \in Kinds, Claim(w, k) PROVE edits' = edits
  BY <1>2 DEF Claim, worktree
<1>3. ASSUME NEW w \in Workers, Complete(w) \/ Crash(w) PROVE edits' = edits
  BY <1>3 DEF Complete, Crash, worktree
<1>4. ASSUME NEW w \in Workers, Works(w), ~Edit(w) PROVE edits' = edits
  BY <1>4 DEF Works, Prepare, Executed, Commit, Inspect, Judge, Compare, StartMerge, EndMerge,
              Remove, Raise, worktree
<1>5. edits' = edits \/ \E w \in Workers : Edit(w)
  BY <1>1, <1>2, <1>3, <1>4 DEF Next, Works, vars
<1>6. edits \in Seq(Kinds \X Nat)
  BY DEF ChainTypeOK
<1> QED
  BY <1>5, <1>6, EditFields

\* A step that neither edits nor commits.
LEMMA NothingWritten ==
    ASSUME UNCHANGED <<branch, edits>>
    PROVE  head' = head /\ TreeOf(head)' = TreeOf(head) /\ Dirty' = Dirty /\ FirstEdit' = FirstEdit
BY DEF head, TreeOf, Dirty, FirstEdit

LEMMA TreeBounds ==
    ASSUME ChainTypeOK, Trees, NEW h \in Nat, h =< head
    PROVE  TreeOf(h) \in Nat /\ TreeOf(h) =< Len(edits)
<1>1. TreeOf(h) \in Nat
  BY TreeOfType, HeadIsNat
<1>2. h # 0 => h \in 1..head
  BY HeadIsNat
<1>3. Len(edits) \in Nat
  BY DEF ChainTypeOK
<1> QED
  BY <1>1, <1>2, <1>3 DEF TreeOf, Trees

\* The first edit after a commit makes the worktree dirty, later ones leave it so.
LEMMA EditWritten ==
    ASSUME ChainTypeOK, Trees, NEW w \in Workers, Edit(w)
    PROVE  /\ head' = head /\ Dirty'
           /\ Dirty => FirstEdit' = FirstEdit
           /\ ~Dirty => FirstEdit' = Attempt(w)
<1>1. /\ head' = head /\ TreeOf(head)' = TreeOf(head) /\ Len(edits') = Len(edits) + 1
      /\ edits'[Len(edits) + 1] = Attempt(w) /\ \A i \in 1..Len(edits) : edits'[i] = edits[i]
  BY EditFields DEF head, TreeOf
<1>2. TreeOf(head) \in Nat /\ TreeOf(head) =< Len(edits) /\ Len(edits) \in Nat
  BY TreeBounds, HeadIsNat DEF ChainTypeOK
<1>3. Dirty => TreeOf(head) + 1 \in 1..Len(edits)
  BY <1>2 DEF Dirty
<1>4. ~Dirty => TreeOf(head) = Len(edits)
  BY <1>2 DEF Dirty
<1> QED
  BY <1>1, <1>2, <1>3, <1>4 DEF Dirty, FirstEdit

\* A commit takes all edits.
LEMMA CommitWritten ==
    ASSUME ChainTypeOK, Reported, status["verify"] # "succeeded", NEW w \in Workers, Commit(w)
    PROVE  head' = head + 1 /\ ~Dirty' /\ tree = Len(edits)
<1>1. head' = head + 1 /\ branch'[head + 1].tree = tree /\ present /\ edits' = edits
  BY CommitFields DEF head
<1>2. TreeOf(head)' = tree
  <2>1. head + 1 # 0
    BY HeadIsNat
  <2> QED
    BY <1>1, <2>1 DEF TreeOf
<1>3. tree = Len(edits)
  BY <1>1 DEF Reported
<1> QED
  BY <1>1, <1>2, <1>3 DEF Dirty, ChainTypeOK

LEMMA TreesStep == ASSUME ChainTypeOK, Trees, [Next]_vars PROVE Trees'
<1>1. tree \in Nat /\ tree =< Len(edits) /\ Len(edits) \in Nat /\ Len(edits') \in Nat
      /\ Len(edits) =< Len(edits')
  BY EditsGrow DEF ChainTypeOK, Trees
<1>2. tree' =< Len(edits')
  <2>1. ASSUME NEW w \in Workers, Edit(w) PROVE tree' =< Len(edits')
    BY <1>1, <2>1, EditFields
  <2>2. ASSUME NEW w \in Workers, Prepare(w) PROVE tree' =< Len(edits')
    BY <1>1, <2>2, TreeBounds, HeadIsNat DEF Prepare
  <2>3. ASSUME tree' = tree PROVE tree' =< Len(edits')
    BY <1>1, <2>3
  <2>4. ASSUME NEW k \in Kinds, Expire(k) PROVE tree' = tree
    BY <2>4 DEF Expire, worktree
  <2>5. ASSUME NEW w \in Workers, NEW k \in Kinds, Claim(w, k) PROVE tree' = tree
    BY <2>5 DEF Claim, worktree
  <2>6. ASSUME NEW w \in Workers, Complete(w) \/ Crash(w) PROVE tree' = tree
    BY <2>6 DEF Complete, Crash, worktree
  <2>7. ASSUME NEW w \in Workers, Works(w), ~Edit(w), ~Prepare(w) PROVE tree' = tree
    BY <2>7 DEF Works, Executed, Commit, Inspect, Judge, Compare, StartMerge, EndMerge,
                Remove, Raise, worktree
  <2> QED
    BY <2>1, <2>2, <2>3, <2>4, <2>5, <2>6, <2>7 DEF Next, Works, vars
<1>3. ASSUME NEW i \in 1..head' PROVE branch'[i].tree =< Len(edits')
  <2>1. CASE branch' = branch
    <3>1. i \in 1..head /\ branch[i] \in [tree : Nat, attempt : Nat]
      BY <2>1, HeadIsNat, ElementOf DEF head
    <3>2. branch[i].tree \in Nat /\ branch[i].tree =< Len(edits)
      BY <3>1 DEF Trees
    <3> QED
      BY <1>1, <2>1, <3>2
  <2>2. ASSUME NEW w \in Workers, Commit(w) PROVE branch'[i].tree =< Len(edits')
    <3>1. /\ head' = head + 1 /\ branch'[head + 1].tree = tree /\ edits' = edits
          /\ \A j \in 1..head : branch'[j] = branch[j]
      BY <2>2, CommitFields DEF head
    <3>2. CASE i = head + 1
      BY <1>1, <3>1, <3>2
    <3>3. CASE i # head + 1
      <4>1. i \in 1..head
        BY <3>1, <3>3, HeadIsNat
      <4> QED
        BY <3>1, <4>1 DEF Trees
    <3> QED
      BY <3>2, <3>3
  <2> QED
    BY <2>1, <2>2, BranchGrows
<1> QED
  BY <1>2, <1>3 DEF Trees

-----------------------------------------------------------------------------
(* What git status reports.                                                *)

\* A verifier keeps what it found when it began.
LEMMA VerifierStays ==
    ASSUME ChainTypeOK, Order, NEW w \in Workers, Works(w), kind(w) = "verify",
           session'[w].pc \in {"agent", "judged"}
    PROVE  \/ /\ session'[w].head = session[w].head /\ session'[w].changed = session[w].changed
              /\ pc(w) \in {"agent", "judged"}
           \/ Inspect(w) /\ present
<1>1. ~Prepare(w) /\ ~Executed(w) /\ ~Commit(w) /\ ~StartMerge(w) /\ ~EndMerge(w) /\ ~Remove(w)
  BY DEF Prepare, Executed, Commit, StartMerge, EndMerge, Remove, Order
<1>2. ~Raise(w)
  BY EndsFields DEF Raise, Results
<1>3. CASE Edit(w)
  BY <1>3 DEF Edit
<1>4. CASE Inspect(w)
  BY <1>4, EndsFields DEF Inspect, Results
<1>5. CASE Judge(w)
  BY <1>5, JudgeFields DEF Judge
<1>6. CASE Compare(w)
  BY <1>6, EndsFields, GoesFields DEF Compare, Results, Places
<1> QED
  BY <1>1, <1>2, <1>3, <1>4, <1>5, <1>6 DEF Works

\* The steps that leave the worktree as it is.
LEMMA WorktreeKept ==
    ASSUME [Next]_vars, ~(\E w \in Workers : Prepare(w) \/ Edit(w) \/ Commit(w) \/ Remove(w))
    PROVE  UNCHANGED <<present, tree, changed, edits, branch>>
<1>1. ASSUME NEW k \in Kinds, Expire(k) PROVE UNCHANGED <<present, tree, changed, edits, branch>>
  BY <1>1 DEF Expire, worktree
<1>2. ASSUME NEW w \in Workers, NEW k \in Kinds, Claim(w, k)
      PROVE  UNCHANGED <<present, tree, changed, edits, branch>>
  BY <1>2 DEF Claim, worktree
<1>3. ASSUME NEW w \in Workers, Complete(w) \/ Crash(w)
      PROVE  UNCHANGED <<present, tree, changed, edits, branch>>
  BY <1>3 DEF Complete, Crash, worktree
<1>4. ASSUME NEW w \in Workers, Works(w)
      PROVE  UNCHANGED <<present, tree, changed, edits, branch>>
  BY <1>4 DEF Works, Executed, Inspect, Judge, Compare, StartMerge, EndMerge, Raise, worktree
<1> QED
  BY <1>1, <1>2, <1>3, <1>4 DEF Next, Works, vars

LEMMA ReportedStep ==
    ASSUME ChainTypeOK, Leases, Order, Heads, Trees, Reported, [Next]_vars
    PROVE  Reported'
<1> SUFFICES ASSUME status'["verify"] # "succeeded"
             PROVE  /\ ~present' => edits' = <<>> /\ branch' = <<>>
                    /\ present' => tree' = Len(edits') /\ (changed' # {} <=> Dirty')
                    /\ \A x \in Workers :
                          /\ kind(x)' = "verify" /\ pc(x)' \in {"agent", "judged"}
                          /\ session'[x].head = head' /\ session'[x].changed # {}
                          => Dirty'
  BY DEF Reported
<1>1. status["verify"] # "succeeded"
  BY SuccessStays DEF Kinds
<1>2. ASSUME NEW w \in Workers, Remove(w) PROVE FALSE
  BY <1>1, <1>2, BeforeFacts DEF Remove, Order, Busy
<1>3. /\ ~present' => edits' = <<>> /\ branch' = <<>>
      /\ present' => tree' = Len(edits') /\ (changed' # {} <=> Dirty')
  <2>1. ASSUME NEW w \in Workers, Edit(w)
        PROVE  present' /\ tree' = Len(edits') /\ changed' # {} /\ Dirty'
    <3>1. present' /\ tree' = Len(edits') /\ changed' # {}
      BY <2>1, EditFields DEF Edit
    <3> QED
      BY <2>1, <3>1, EditWritten
  <2>2. ASSUME NEW w \in Workers, Commit(w)
        PROVE  present' /\ tree' = Len(edits') /\ changed' = {} /\ ~Dirty'
    <3>1. present /\ UNCHANGED <<present, tree, edits>> /\ changed' = {}
      BY <2>2, CommitFields
    <3>2. ~Dirty' /\ tree = Len(edits)
      BY <1>1, <2>2, CommitWritten
    <3> QED
      BY <3>1, <3>2
  <2>3. ASSUME NEW w \in Workers, Prepare(w)
        PROVE  present' /\ tree' = Len(edits') /\ (changed' # {} <=> Dirty')
    <3>1. present' /\ UNCHANGED <<edits, branch>>
      BY <2>3 DEF Prepare
    <3>2. CASE present
      BY <1>1, <2>3, <3>1, <3>2, NothingWritten DEF Prepare, Reported
    <3>3. CASE ~present
      <4>1. edits = <<>> /\ branch = <<>>
        BY <1>1, <3>3 DEF Reported
      <4>2. head = 0 /\ Len(edits) = 0 /\ TreeOf(head) = 0
        BY <4>1 DEF head, TreeOf
      <4>3. tree' = 0 /\ changed' = {}
        BY <2>3, <3>3, <4>2 DEF Prepare
      <4>4. ~Dirty'
        BY <3>1, <4>2, NothingWritten DEF Dirty
      <4> QED
        BY <3>1, <4>2, <4>3, <4>4
    <3> QED
      BY <3>2, <3>3
  <2>4. CASE UNCHANGED <<present, tree, changed, edits, branch>>
    BY <1>1, <2>4, NothingWritten DEF Reported
  <2> QED
    BY <1>2, <2>1, <2>2, <2>3, <2>4, WorktreeKept
<1>4. ASSUME NEW x \in Workers, kind(x)' = "verify", pc(x)' \in {"agent", "judged"},
             session'[x].head = head', session'[x].changed # {}
      PROVE  Dirty'
  <2>1. /\ kind(x) = "verify"
        /\ \/ /\ session'[x].head = session[x].head /\ session'[x].changed = session[x].changed
              /\ pc(x) \in {"agent", "judged"}
           \/ Inspect(x) /\ present
    <3>1. CASE session'[x] = session[x]
      BY <1>4, <3>1 DEF kind, pc
    <3>2. CASE Works(x)
      BY <1>4, <3>2, WorkFields, VerifierStays DEF kind, pc
    <3>3. CASE Complete(x) \/ Crash(x)
      BY <1>4, <3>3, IdleFields DEF pc
    <3>4. ASSUME NEW k \in Kinds, Claim(x, k) PROVE FALSE
      BY <1>4, <3>4, ClaimFields DEF pc
    <3> QED
      BY <3>1, <3>2, <3>3, <3>4, OneMoves
  <2>2. CASE Inspect(x) /\ present
    <3>1. session'[x].changed = changed /\ UNCHANGED <<edits, branch>>
      BY <2>2, InspectFields DEF Inspect, worktree
    <3> QED
      BY <1>1, <1>4, <2>2, <3>1, NothingWritten DEF Reported
  <2>3. CASE /\ session'[x].head = session[x].head /\ session'[x].changed = session[x].changed
             /\ pc(x) \in {"agent", "judged"}
    <3>1. session[x].head =< head /\ session[x].head \in Nat /\ head \in Nat
      BY <2>1, <2>3, SessionFields, HeadIsNat DEF Heads, Settled
    <3>2. ASSUME NEW w \in Workers, Edit(w) PROVE Dirty'
      BY <3>2, EditWritten
    <3>3. ASSUME NEW w \in Workers, Commit(w) PROVE FALSE
      BY <1>1, <1>4, <2>3, <3>1, <3>3, CommitWritten
    <3>4. CASE UNCHANGED <<branch, edits>>
      BY <1>1, <1>4, <2>1, <2>3, <3>4, NothingWritten DEF Reported
    <3> QED
      BY <3>2, <3>3, <3>4, BranchGrows, EditsGrow
  <2> QED
    BY <2>1, <2>2, <2>3
<1> QED
  BY <1>3, <1>4

-----------------------------------------------------------------------------
(* Who made the first edit after a commit.                                 *)

\* A lease is only got by a claim.
LEMMA HoldsBack ==
    ASSUME ChainTypeOK, Leases, Order, [Next]_vars, NEW x \in Workers, Busy(x),
           session'[x].kind = kind(x), session'[x].attempt = session[x].attempt, HoldsLease(x)'
    PROVE  HoldsLease(x)
<1>1. /\ kind(x)' = kind(x) /\ kind(x) \in Kinds /\ session[x].attempt \in Nat
      /\ status'[kind(x)] = "leased" /\ attempt_count'[kind(x)] = session[x].attempt
  BY SessionFields DEF kind, HoldsLease
<1>2. ASSUME NEW k \in Kinds, Expire(k) PROVE HoldsLease(x)
  BY <1>1, <1>2 DEF Expire, Retried, HoldsLease, ChainTypeOK
<1>3. ASSUME NEW w \in Workers, NEW k \in Kinds, Claim(w, k) PROVE HoldsLease(x)
  <2>1. session[x].attempt =< attempt_count[kind(x)] /\ attempt_count[kind(x)] \in Nat
    BY <1>1 DEF Leases, ChainTypeOK
  <2>2. /\ status' = [status EXCEPT ![k] = "leased"]
        /\ attempt_count' = [attempt_count EXCEPT ![k] = attempt_count[k] + 1]
    BY <1>3, ClaimFields
  <2>3. kind(x) # k
    BY <1>1, <2>1, <2>2 DEF ChainTypeOK
  <2> QED
    BY <1>1, <2>2, <2>3 DEF HoldsLease, ChainTypeOK
<1>4. ASSUME NEW w \in Workers, Complete(w) PROVE HoldsLease(x)
  <2>1. attempt_count' = attempt_count
    BY <1>4, CompleteFields
  <2>2. CASE HoldsLease(w)
    <3>1. PICK new \in {"ready", "succeeded", "failed"} : status' = [status EXCEPT ![kind(w)] = new]
      BY <1>4, <2>2, CompleteFields
    <3> QED
      BY <1>1, <2>1, <3>1 DEF HoldsLease, ChainTypeOK
  <2>3. CASE ~HoldsLease(w)
    BY <1>1, <1>4, <2>1, <2>3, CompleteFields DEF HoldsLease
  <2> QED
    BY <2>2, <2>3
<1>5. CASE UNCHANGED <<status, attempt_count>>
  BY <1>1, <1>5 DEF HoldsLease
<1> QED
  BY <1>2, <1>3, <1>4, <1>5, WorkKeeps, CrashKeeps DEF Next, Works, vars

\* While the item that executes is at work no other is.
LEMMA ExecutesAlone ==
    ASSUME ChainTypeOK, Order, NEW w \in Workers, Busy(w), status["execute"] # "succeeded"
    PROVE  kind(w) = "execute"
<1>1. kind(w) \in Kinds
  BY SessionFields
<1> QED
  BY <1>1, BeforeFacts DEF Order, Kinds

\* Before the verification no worker integrates.
LEMMA IntegratesLast ==
    ASSUME ChainTypeOK, Order, NEW w \in Workers, Busy(w), status["verify"] # "succeeded"
    PROVE  kind(w) \in {"execute", "verify"}
<1>1. kind(w) \in Kinds
  BY SessionFields
<1> QED
  BY <1>1, BeforeFacts DEF Order, Kinds

\* The editor of a clean worktree was interrupted or is a verifier to be noticed.
LEMMA EditorIsKnown ==
    ASSUME ChainTypeOK, Leases, Order, Reported, ~Dirty, NEW w \in Workers, Edit(w),
           status["execute"] = "succeeded", status["verify"] # "succeeded"
    PROVE  Attempt(w) \in interrupted \/ Noticed(w)
<1>1. Busy(w) /\ pc(w) \in {"agent", "judged"} /\ kind(w) \in {"execute", "verify"}
  BY IntegratesLast DEF Edit, Busy
<1>2. ASSUME HoldsLease(w) PROVE Noticed(w)
  <2>1. kind(w) = "verify"
    BY <1>1, <1>2 DEF HoldsLease
  <2>2. session[w].changed = {} \/ session[w].head # head
    BY <1>1, <2>1 DEF Reported
  <2> QED
    BY <1>1, <1>2, <2>1, <2>2 DEF Noticed
<1> QED
  BY <1>1, <1>2 DEF Leases

\* What becomes of a verifier that will be noticed.
LEMMA NoticedMoves ==
    ASSUME ChainTypeOK, Order, Reported, Dirty, status["verify"] # "succeeded",
           NEW w \in Workers, Noticed(w), Works(w), ~Edit(w), head' = head
    PROVE  Noticed(w)' \/ Attempt(w) \in interrupted'
<1>1. /\ kind(w) = "verify" /\ HoldsLease(w)
      /\ \/ pc(w) \in {"agent", "judged"} /\ (session[w].changed = {} \/ session[w].head # head)
         \/ pc(w) = "completing"
  BY DEF Noticed
<1>2. kind(w)' = "verify" /\ HoldsLease(w)'
  BY <1>1, WorkFields, WorkKeeps DEF kind, HoldsLease
<1>3. CASE Judge(w)
  BY <1>1, <1>2, <1>3, JudgeFields DEF Judge, Noticed, pc
<1>4. CASE Raise(w)
  BY <1>4 DEF Raise
<1>5. CASE Compare(w)
  <2>1. present /\ pc(w) = "judged"
    BY <1>5 DEF Compare
  <2>2. changed # {}
    BY <2>1 DEF Reported
  <2>3. Mutated(w)
    BY <1>1, <2>1, <2>2 DEF Mutated
  <2>4. Ends(w, "fatal")
    BY <1>5, <2>3 DEF Compare
  <2>5. pc(w)' = "completing" /\ session'[w].result = "fatal"
    BY <2>4, EndsFields DEF pc, Results
  <2> QED
    BY <1>2, <2>5 DEF Noticed
<1>6. ~(Prepare(w) \/ Executed(w) \/ Commit(w) \/ Inspect(w) \/ StartMerge(w) \/ EndMerge(w) \/ Remove(w))
  BY <1>1 DEF Prepare, Executed, Commit, Inspect, StartMerge, EndMerge, Remove
<1> QED
  BY <1>3, <1>4, <1>5, <1>6 DEF Works

\* The first conjunct of Blamed, of one moment.
FirstIsKnown ==
    status["execute"] = "succeeded" /\ status["verify"] \in {"ready", "leased"} /\ Dirty =>
        \/ FirstEdit \in interrupted
        \/ \E w \in Workers : Noticed(w) /\ Attempt(w) = FirstEdit

\* Who stands still stays to be noticed.
LEMMA NoticedStays ==
    ASSUME NEW x \in Workers, Noticed(x), session'[x] = session[x], head' = head,
           UNCHANGED <<status, attempt_count>>
    PROVE  Noticed(x)' /\ Attempt(x)' = Attempt(x)
BY DEF Noticed, HoldsLease, kind, pc, Attempt

LEMMA FirstIsKnownStep ==
    ASSUME BranchInv, TreeInv, [Next]_vars PROVE FirstIsKnown'
<1> SUFFICES ASSUME status'["execute"] = "succeeded", status'["verify"] \in {"ready", "leased"}, Dirty'
             PROVE  \/ FirstEdit' \in interrupted'
                    \/ \E x \in Workers : Noticed(x)' /\ Attempt(x)' = FirstEdit'
  BY DEF FirstIsKnown
<1> USE DEF BranchInv, TreeInv
<1>1. status["verify"] # "succeeded" /\ interrupted \subseteq interrupted'
  BY SuccessStays, InterruptedGrows DEF Kinds
<1>2. ASSUME NEW w \in Workers, Commit(w) PROVE FALSE
  BY <1>1, <1>2, CommitWritten
<1>3. ASSUME status["execute"] = "succeeded", status["verify"] \in {"ready", "leased"}, Dirty
      PROVE  \/ FirstEdit \in interrupted
             \/ \E x \in Workers : Noticed(x) /\ Attempt(x) = FirstEdit
  BY <1>3 DEF Blamed
<1>4. ASSUME NEW w \in Workers, Edit(w)
      PROVE  \/ FirstEdit' \in interrupted'
             \/ \E x \in Workers : Noticed(x)' /\ Attempt(x)' = FirstEdit'
  <2>1. /\ UNCHANGED <<status, attempt_count, session>> /\ head' = head
        /\ status["execute"] = "succeeded" /\ status["verify"] \in {"ready", "leased"}
    BY <1>4, EditFields, EditWritten
  <2>2. CASE Dirty
    <3>1. FirstEdit' = FirstEdit
      BY <1>4, <2>2, EditWritten
    <3> QED
      BY <1>1, <1>3, <2>1, <2>2, <3>1, NoticedStays
  <2>3. CASE ~Dirty
    <3>1. FirstEdit' = Attempt(w)
      BY <1>4, <2>3, EditWritten
    <3>2. Attempt(w) \in interrupted \/ Noticed(w)
      BY <1>1, <1>4, <2>1, <2>3, EditorIsKnown
    <3> QED
      BY <1>1, <2>1, <3>1, <3>2, NoticedStays
  <2> QED
    BY <2>2, <2>3
<1>5. ASSUME UNCHANGED <<branch, edits>>
      PROVE  head' = head /\ Dirty /\ FirstEdit' = FirstEdit
  BY <1>5, NothingWritten
<1>6. ASSUME NEW w \in Workers, Works(w) \/ Crash(w), UNCHANGED <<branch, edits>>, ~Edit(w)
      PROVE  \/ FirstEdit' \in interrupted'
             \/ \E x \in Workers : Noticed(x)' /\ Attempt(x)' = FirstEdit'
  <2>1. /\ UNCHANGED <<status, attempt_count>>
        /\ status["execute"] = "succeeded" /\ status["verify"] \in {"ready", "leased"}
    BY <1>6, WorkKeeps, CrashKeeps
  <2>2. CASE FirstEdit \in interrupted
    BY <1>1, <1>5, <1>6, <2>2
  <2>3. ASSUME NEW x \in Workers, Noticed(x), Attempt(x) = FirstEdit
        PROVE  FirstEdit' \in interrupted' \/ (Noticed(x)' /\ Attempt(x)' = FirstEdit')
    <3>1. CASE session'[x] = session[x]
      BY <1>5, <1>6, <2>1, <2>3, <3>1, NoticedStays
    <3>2. CASE Works(x)
      <4>1. Attempt(x)' = Attempt(x)
        BY <3>2, WorkFields DEF Attempt, kind
      <4>2. CASE Edit(x)
        BY <1>5, <1>6, <2>1, <2>3, <4>2, NoticedStays DEF Edit
      <4>3. CASE ~Edit(x)
        BY <1>1, <1>5, <1>6, <2>3, <3>2, <4>1, <4>3, NoticedMoves
      <4> QED
        BY <4>2, <4>3
    <3>3. CASE Crash(x)
      BY <1>5, <1>6, <2>3, <3>3, CrashKeeps
    <3>4. CASE x # w
      BY <1>6, <3>1, <3>4, WorkFields, IdleFields DEF Others
    <3> QED
      BY <1>6, <3>2, <3>3, <3>4
  <2> QED
    BY <1>3, <1>5, <1>6, <2>1, <2>2, <2>3
<1>7. ASSUME NEW w \in Workers, Complete(w)
      PROVE  \/ FirstEdit' \in interrupted'
             \/ \E x \in Workers : Noticed(x)' /\ Attempt(x)' = FirstEdit'
  <2>1. /\ UNCHANGED <<attempt_count, branch, edits, interrupted>> /\ pc(w) = "completing"
        /\ Busy(w) /\ Others(w)
    BY <1>7, CompleteFields, IdleFields
  <2>2. head' = head /\ Dirty /\ FirstEdit' = FirstEdit
    BY <1>5, <2>1
  <2>3. CASE ~HoldsLease(w)
    <3>1. status' = status
      BY <1>7, <2>3, CompleteFields
    <3>2. ASSUME NEW x \in Workers, Noticed(x), Attempt(x) = FirstEdit
          PROVE  Noticed(x)' /\ Attempt(x)' = FirstEdit'
      <4>1. x # w
        BY <2>3, <3>2 DEF Noticed
      <4> QED
        BY <2>1, <2>2, <3>1, <3>2, <4>1, NoticedStays DEF Others
    <3> QED
      BY <1>3, <2>1, <2>2, <3>1, <3>2
  <2>4. CASE HoldsLease(w)
    <3>1. PICK new \in {"ready", "succeeded", "failed"} :
              /\ status' = [status EXCEPT ![kind(w)] = new]
              /\ session[w].result = "succeeded" <=> new = "succeeded"
              /\ session[w].result = "fatal" => new = "failed"
      BY <1>7, <2>4, CompleteFields
    <3>2. CASE kind(w) = "execute"
      <4>1. new = "succeeded"
        BY <3>1, <3>2 DEF ChainTypeOK, Kinds
      <4>2. Succeeds(w)
        BY <2>1, <3>1, <4>1 DEF Succeeds
      <4> QED
        BY <2>1, <2>2, <2>4, <3>2, <4>2 DEF Blamed
    <3>3. CASE kind(w) = "verify"
      <4>1. status["execute"] = "succeeded" /\ status["verify"] = "leased" /\ new # "failed"
        BY <2>4, <3>1, <3>3 DEF HoldsLease, ChainTypeOK, Kinds
      <4>2. ASSUME NEW x \in Workers, Noticed(x) PROVE FALSE
        <5>1. Busy(x) /\ HoldsLease(x) /\ kind(x) = "verify"
          BY <4>2 DEF Noticed, Busy
        <5>2. x = w
          BY <2>1, <2>4, <3>3, <5>1, OneHolder
        <5> QED
          BY <2>1, <3>1, <4>1, <4>2, <5>2 DEF Noticed
      <4> QED
        BY <1>3, <2>1, <2>2, <4>1, <4>2
    <3> QED
      BY <1>1, <2>1, <3>2, <3>3, IntegratesLast
  <2> QED
    BY <2>3, <2>4
<1>8. ASSUME NEW k \in Kinds, Expire(k)
      PROVE  \/ FirstEdit' \in interrupted'
             \/ \E x \in Workers : Noticed(x)' /\ Attempt(x)' = FirstEdit'
  <2>1. /\ status' = [status EXCEPT ![k] = Retried(k)] /\ status[k] = "leased"
        /\ interrupted' = interrupted \cup {<<k, attempt_count[k]>>}
        /\ UNCHANGED <<attempt_count, session, branch, edits>>
    BY <1>8 DEF Expire, worktree
  <2>2. head' = head /\ Dirty /\ FirstEdit' = FirstEdit
    BY <1>5, <2>1
  <2>3. k # "execute" /\ status["execute"] = "succeeded"
    BY <2>1 DEF Retried, ChainTypeOK, Kinds
  <2>4. status["verify"] \in {"ready", "leased"}
    BY <1>1, <2>1 DEF ChainTypeOK, Kinds
  <2>5. ASSUME NEW x \in Workers, Noticed(x), Attempt(x) = FirstEdit
        PROVE  FirstEdit' \in interrupted' \/ (Noticed(x)' /\ Attempt(x)' = FirstEdit')
    <3>1. kind(x) = "verify" /\ HoldsLease(x)
      BY <2>5 DEF Noticed
    <3>2. CASE k = "verify"
      BY <2>1, <2>2, <2>5, <3>1, <3>2 DEF HoldsLease, Attempt
    <3>3. CASE k # "verify"
      <4>1. HoldsLease(x)'
        BY <2>1, <3>1, <3>3 DEF HoldsLease, kind, ChainTypeOK, Kinds
      <4> QED
        BY <2>1, <2>2, <2>5, <4>1 DEF Noticed, kind, pc, Attempt
    <3> QED
      BY <3>2, <3>3
  <2> QED
    BY <1>1, <1>3, <2>2, <2>3, <2>4, <2>5
<1>9. ASSUME NEW w \in Workers, NEW k \in Kinds, Claim(w, k)
      PROVE  FirstEdit' \in interrupted'
  <2>1. /\ status' = [status EXCEPT ![k] = "leased"] /\ status[k] = "ready"
        /\ UNCHANGED <<interrupted, branch, edits>>
        /\ \A d \in Before(k) : status[d] = "succeeded"
    BY <1>9 DEF Claim, worktree
  <2>2. Dirty /\ FirstEdit' = FirstEdit
    BY <1>5, <2>1
  <2>3. k = "verify"
    BY <1>1, <2>1, BeforeFacts DEF ChainTypeOK, Kinds
  <2>4. status["execute"] = "succeeded" /\ status["verify"] = "ready"
    BY <2>1, <2>3 DEF ChainTypeOK, Kinds
  <2>5. ~(\E x \in Workers : Noticed(x))
    BY <2>4 DEF Noticed, HoldsLease
  <2> QED
    BY <1>3, <2>1, <2>2, <2>4, <2>5
<1>10. CASE UNCHANGED vars
  <2>1. UNCHANGED <<status, attempt_count, session, branch, edits, interrupted>>
    BY <1>10 DEF vars
  <2> QED
    BY <1>3, <1>5, <2>1, NoticedStays
<1>11. ASSUME NEW w \in Workers, Works(w), ~Edit(w), ~Commit(w) PROVE UNCHANGED <<branch, edits>>
  BY <1>11 DEF Works, Prepare, Executed, Inspect, Judge, Compare, StartMerge, EndMerge, Remove,
               Raise, worktree
<1>12. ASSUME NEW w \in Workers, Works(w) \/ Crash(w)
       PROVE  \/ FirstEdit' \in interrupted'
              \/ \E x \in Workers : Noticed(x)' /\ Attempt(x)' = FirstEdit'
  <2>1. CASE Edit(w)
    BY <1>4, <2>1
  <2>2. CASE Crash(w) /\ ~Edit(w)
    BY <1>6, <2>2, CrashKeeps
  <2>3. CASE Works(w) /\ ~Edit(w)
    BY <1>2, <1>6, <1>11, <2>3
  <2> QED
    BY <1>12, <2>1, <2>2, <2>3
<1> QED
  BY <1>7, <1>8, <1>9, <1>10, <1>12 DEF Next, Works

\* An executor succeeds by its commit.
LEMMA ExecutorMoves ==
    ASSUME ChainTypeOK, Order, NEW x \in Workers, Works(x), kind(x) = "execute",
           session'[x].pc = "completing", session'[x].result = "succeeded"
    PROVE  Commit(x)
<1>1. ~Inspect(x) /\ ~Judge(x) /\ ~Compare(x) /\ ~StartMerge(x) /\ ~EndMerge(x) /\ ~Remove(x)
  BY DEF Inspect, Judge, Compare, StartMerge, EndMerge, Remove, Order
<1>2. ~Raise(x)
  BY EndsFields DEF Raise, Results
<1>3. ~Prepare(x)
  BY GoesFields DEF Prepare, Places
<1>4. ~Executed(x)
  BY GoesFields, EndsFields DEF Executed, Places, Results
<1>5. ~Edit(x)
  BY DEF Edit, pc
<1> QED
  BY <1>1, <1>2, <1>3, <1>4, <1>5 DEF Works

\* The second conjunct of Blamed, of one moment.
CommitIsKnown ==
    \A w \in Workers : kind(w) = "execute" /\ HoldsLease(w) /\ Succeeds(w) /\ Dirty =>
          FirstEdit \in interrupted

LEMMA CommitIsKnownStep ==
    ASSUME BranchInv, TreeInv, [Next]_vars PROVE CommitIsKnown'
<1> SUFFICES ASSUME NEW x \in Workers, kind(x)' = "execute", HoldsLease(x)', Succeeds(x)', Dirty'
             PROVE  FirstEdit' \in interrupted'
  BY DEF CommitIsKnown
<1> USE DEF BranchInv, TreeInv
<1>1. status["execute"] # "succeeded" /\ status["verify"] # "succeeded"
  <2>1. status'["execute"] = "leased"
    BY DEF HoldsLease
  <2> QED
    BY <2>1, SuccessStays DEF Order, Kinds
<1>2. ASSUME NEW w \in Workers, Commit(w) PROVE FALSE
  BY <1>1, <1>2, CommitWritten
<1>3. session'[x] = session[x]
  <2>1. session'[x].pc = "completing" /\ session'[x].result = "succeeded"
    BY DEF Succeeds, pc
  <2>2. CASE Works(x)
    <3>1. kind(x) = "execute"
      BY <2>2, WorkFields DEF kind
    <3> QED
      BY <1>2, <2>1, <2>2, <3>1, ExecutorMoves
  <2>3. CASE Complete(x) \/ Crash(x)
    BY <2>1, <2>3, IdleFields
  <2>4. ASSUME NEW k \in Kinds, Claim(x, k) PROVE FALSE
    BY <2>1, <2>4, ClaimFields
  <2> QED
    BY <2>2, <2>3, <2>4, OneMoves
<1>4. /\ kind(x) = "execute" /\ pc(x) = "completing" /\ Succeeds(x) /\ Busy(x)
      /\ session'[x].kind = kind(x) /\ session'[x].attempt = session[x].attempt
  BY <1>3 DEF kind, pc, Succeeds, Busy
<1>5. HoldsLease(x)
  BY <1>4, HoldsBack
<1>6. Dirty => FirstEdit \in interrupted'
  BY <1>4, <1>5, InterruptedGrows DEF Blamed
<1>7. ASSUME NEW w \in Workers, Edit(w) PROVE FirstEdit' \in interrupted'
  <2>1. CASE Dirty
    BY <1>6, <1>7, <2>1, EditWritten
  <2>2. CASE ~Dirty
    <3>1. Busy(w) /\ w # x
      BY <1>4, <1>7 DEF Edit, Busy
    <3>2. kind(w) = "execute"
      BY <1>1, <3>1, ExecutesAlone
    <3>3. ~HoldsLease(w)
      BY <1>4, <1>5, <3>1, <3>2, OneHolder
    <3>4. Attempt(w) \in interrupted
      BY <3>1, <3>3 DEF Leases
    <3> QED
      BY <1>7, <2>2, <3>4, EditWritten, InterruptedGrows
  <2> QED
    BY <2>1, <2>2
<1>8. CASE UNCHANGED <<branch, edits>>
  BY <1>6, <1>8, NothingWritten
<1> QED
  BY <1>2, <1>7, <1>8, BranchGrows, EditsGrow

LEMMA BlamedStep == ASSUME BranchInv, TreeInv, [Next]_vars PROVE Blamed'
BY FirstIsKnownStep, CommitIsKnownStep DEF Blamed, FirstIsKnown, CommitIsKnown

-----------------------------------------------------------------------------
(* What a verdict is about.                                                *)

\* A judgement of a commit and of edits that are there does not change.
LEMMA JudgementStays ==
    ASSUME ChainTypeOK, Trees, [Next]_vars, NEW h \in Nat, h =< head,
           NEW j \in Nat, j =< Len(edits), Judgement(h, j)
    PROVE  Judgement(h, j)'
<1>1. TreeOf(h)' = TreeOf(h) /\ TreeOf(h) \in Nat /\ Len(edits) \in Nat
  BY TreeOfStays, TreeBounds DEF ChainTypeOK
<1>2. TreeOf(h) < j => TreeOf(h) + 1 \in 1..Len(edits)
  BY <1>1
<1>3. TreeOf(h) < j => edits'[TreeOf(h) + 1] = edits[TreeOf(h) + 1]
  BY <1>2, EditsGrow
<1> QED
  BY <1>1, <1>3, InterruptedGrows DEF Judgement

\* How a verifier comes to have judged.
LEMMA JudgeMoves ==
    ASSUME ChainTypeOK, Order, NEW x \in Workers, Works(x), kind(x) = "verify",
           session'[x] # session[x],
           \/ session'[x].pc = "judged"
           \/ session'[x].pc = "completing" /\ session'[x].result = "succeeded"
    PROVE  \/ Judge(x)
           \/ Compare(x) /\ ~Mutated(x) /\ Goes(x, "completing")
<1>1. ~Prepare(x) /\ ~Executed(x) /\ ~Commit(x) /\ ~StartMerge(x) /\ ~EndMerge(x) /\ ~Remove(x)
  BY DEF Prepare, Executed, Commit, StartMerge, EndMerge, Remove, Order
<1>2. ~Raise(x)
  BY EndsFields DEF Raise, Results
<1>3. ~Edit(x)
  BY DEF Edit
<1>4. ~Inspect(x)
  BY InspectFields, EndsFields DEF Inspect, Results
<1>5. ~Ends(x, "fatal")
  BY EndsFields DEF Results
<1> QED
  BY <1>1, <1>2, <1>3, <1>4, <1>5 DEF Works, Compare

\* Who compares and finds nothing judged the commit, or an interrupted edit.
LEMMA CompareFindsNone ==
    ASSUME BranchInv, TreeInv, NEW x \in Workers, Compare(x), ~Mutated(x), kind(x) = "verify",
           HoldsLease(x), NEW h \in Nat, h = session[x].head, NEW j \in Nat, j = session[x].judged
    PROVE  Judgement(h, j)
<1> USE DEF BranchInv, TreeInv
<1>1. /\ pc(x) = "judged" /\ present /\ Busy(x)
      /\ h = head /\ changed \subseteq session[x].changed
  BY DEF Compare, Mutated, Busy
<1>2. TreeOf(h) =< j /\ j =< Len(edits) /\ TreeOf(h) \in Nat /\ Len(edits) \in Nat
  <2>1. TreeOf(h) \in Nat /\ Len(edits) \in Nat
    BY <1>1, TreeBounds DEF ChainTypeOK
  <2>2. TreeOf(h) =< j /\ j =< Len(edits)
    BY <1>1 DEF Judged
  <2> QED
    BY <2>1, <2>2
<1>3. ASSUME TreeOf(h) < j PROVE FirstEdit \in interrupted
  <2>1. Dirty /\ status["verify"] = "leased" /\ status["execute"] = "succeeded"
    BY <1>1, <1>2, <1>3, BeforeFacts DEF Dirty, HoldsLease, Order
  <2>2. changed # {}
    BY <1>1, <2>1 DEF Reported
  <2>3. ASSUME NEW y \in Workers, Noticed(y) PROVE FALSE
    <3>1. y = x
      BY <1>1, <2>3, OneHolder DEF Noticed, Busy
    <3> QED
      BY <1>1, <2>2, <2>3, <3>1 DEF Noticed
  <2> QED
    BY <2>1, <2>3 DEF Blamed
<1> QED
  BY <1>1, <1>2, <1>3 DEF Judgement, FirstEdit

LEMMA JudgedOneStep ==
    ASSUME BranchInv, TreeInv, [Next]_vars, NEW x \in Workers,
           kind(x)' = "verify", HoldsLease(x)', pc(x)' = "judged" \/ Succeeds(x)',
           NEW h \in Nat, h = session'[x].head, NEW j \in Nat, j = session'[x].judged
    PROVE  /\ TreeOf(h)' =< j /\ j =< Len(edits')
           /\ Succeeds(x)' => Judgement(h, j)'
<1> USE DEF BranchInv, TreeInv
<1>1. Len(edits) \in Nat /\ Len(edits') \in Nat /\ Len(edits) =< Len(edits')
  BY EditsGrow
<1>2. ASSUME h =< head, TreeOf(h) =< j, j =< Len(edits)
      PROVE  TreeOf(h)' =< j /\ j =< Len(edits')
  BY <1>1, <1>2, TreeOfStays
<1>3. CASE session'[x] = session[x]
  <2>1. /\ kind(x) = "verify" /\ Busy(x) /\ (pc(x) = "judged" \/ Succeeds(x))
        /\ Succeeds(x)' => Succeeds(x)
        /\ session'[x].kind = kind(x) /\ session'[x].attempt = session[x].attempt
        /\ h = session[x].head /\ j = session[x].judged
    BY <1>3 DEF kind, pc, Succeeds, Busy
  <2>2. HoldsLease(x)
    BY <2>1, HoldsBack
  <2>3. /\ TreeOf(h) =< j /\ j =< Len(edits)
        /\ Succeeds(x) => Judgement(h, j)
    BY <2>1, <2>2 DEF Judged
  <2>4. h =< head
    BY <2>1 DEF Heads, Settled
  <2> QED
    BY <1>2, <2>1, <2>3, <2>4, JudgementStays
<1>4. CASE Works(x) /\ session'[x] # session[x]
  <2>1. kind(x) = "verify" /\ HoldsLease(x)
    BY <1>4, WorkFields, WorkKeeps DEF kind, HoldsLease
  <2>2. \/ session'[x].pc = "judged"
        \/ session'[x].pc = "completing" /\ session'[x].result = "succeeded"
    BY DEF pc, Succeeds
  <2>3. CASE Judge(x)
    <3>1. /\ h = session[x].head /\ j = tree /\ session'[x].pc = "judged"
          /\ pc(x) = "agent" /\ present
      BY <2>3, JudgeFields DEF Judge
    <3>2. h =< head /\ tree = Len(edits)
      BY <2>1, <3>1 DEF Heads, Settled, HoldsLease, Reported
    <3>3. TreeOf(h) =< j /\ j =< Len(edits)
      BY <1>1, <3>1, <3>2, TreeBounds
    <3>4. ~Succeeds(x)'
      BY <3>1 DEF Succeeds, pc
    <3> QED
      BY <1>2, <3>2, <3>3, <3>4
  <2>4. CASE Compare(x) /\ ~Mutated(x) /\ Goes(x, "completing")
    <3>1. h = session[x].head /\ j = session[x].judged /\ pc(x) = "judged"
      BY <2>4, GoesFields DEF Compare, Places
    <3>2. h =< head
      BY <2>1, <3>1 DEF Heads, Settled
    <3>3. TreeOf(h) =< j /\ j =< Len(edits)
      BY <2>1, <3>1 DEF Judged
    <3>4. Judgement(h, j)
      BY <2>1, <2>4, <3>1, CompareFindsNone
    <3> QED
      BY <1>2, <3>2, <3>3, <3>4, JudgementStays
  <2> QED
    BY <1>4, <2>1, <2>2, <2>3, <2>4, JudgeMoves
<1>5. CASE Complete(x) \/ Crash(x)
  BY <1>5, IdleFields DEF pc, Succeeds
<1>6. ASSUME NEW k \in Kinds, Claim(x, k) PROVE FALSE
  BY <1>6, ClaimFields DEF pc, Succeeds
<1> QED
  BY <1>3, <1>4, <1>5, <1>6, OneMoves

\* A verdict that is new was one of a verifier that succeeds.
LEMMA VerdictsGrow ==
    ASSUME BranchInv, TreeInv, [Next]_vars, NEW v \in verified'
    PROVE  /\ v.head \in Nat /\ v.head =< head /\ v.judged \in Nat /\ v.judged =< Len(edits)
           /\ Judgement(v.head, v.judged)
<1> USE DEF BranchInv, TreeInv
<1>1. CASE v \in verified
  <2>1. v.head \in Nat /\ v.judged \in Nat
    BY <1>1 DEF ChainTypeOK
  <2> QED
    BY <1>1, <2>1 DEF Heads, Settled, Judged, JudgedWasCommitted, Judgement
<1>2. CASE v \notin verified
  <2>1. PICK w \in Workers :
            /\ HoldsLease(w) /\ kind(w) = "verify" /\ Succeeds(w)
            /\ v = [head |-> session[w].head, judged |-> session[w].judged]
    BY <1>2, VerifiedGrows
  <2>2. v.head = session[w].head /\ v.judged = session[w].judged
    BY <2>1
  <2> QED
    BY <2>1, <2>2, SessionFields DEF Heads, Settled, Judged
<1> QED
  BY <1>1, <1>2

LEMMA JudgedStep ==
    ASSUME BranchInv, TreeInv, [Next]_vars PROVE Judged' /\ JudgedWasCommitted'
<1> USE DEF BranchInv, TreeInv
<1>1. ASSUME NEW x \in Workers, kind(x)' = "verify", HoldsLease(x)', pc(x)' = "judged" \/ Succeeds(x)'
      PROVE  /\ TreeOf(session[x].head)' =< session'[x].judged
             /\ session'[x].judged =< Len(edits')
             /\ Succeeds(x)' => Judgement(session[x].head, session[x].judged)'
  <2>1. session' \in [Workers -> Session]
    BY TypesStep DEF ChainTypeOK
  <2>2. PICK h \in Nat, j \in Nat : h = session'[x].head /\ j = session'[x].judged
    BY <2>1 DEF Session
  <2>3. /\ TreeOf(h)' =< j /\ j =< Len(edits')
        /\ Succeeds(x)' => Judgement(h, j)'
    BY <1>1, <2>2, JudgedOneStep
  <2> QED
    BY <2>2, <2>3 DEF Judgement, TreeOf
<1>2. ASSUME NEW v \in verified' PROVE v.judged =< Len(edits') /\ Judgement(v.head, v.judged)'
  <2>1. PICK h \in Nat, j \in Nat : h = v.head /\ j = v.judged
    BY <1>2, VerdictsGrow
  <2>2. h =< head /\ j =< Len(edits) /\ Judgement(h, j)
    BY <1>2, <2>1, VerdictsGrow
  <2>3. j =< Len(edits') /\ Judgement(h, j)'
    BY <2>2, JudgementStays, EditsGrow
  <2> QED
    BY <2>1, <2>3 DEF Judgement, TreeOf
<1> QED
  BY <1>1, <1>2 DEF Judged, JudgedWasCommitted, Judgement

LEMMA InitTree == Init => TreeInv
<1> SUFFICES ASSUME Init PROVE TreeInv
  OBVIOUS
<1>1. /\ branch = <<>> /\ edits = <<>> /\ verified = {} /\ tree = 0 /\ present = FALSE
      /\ \A w \in Workers : pc(w) = "idle"
  BY DEF Init, pc, Idle
<1>2. head = 0 /\ TreeOf(head) = 0 /\ ~Dirty
  BY <1>1 DEF head, TreeOf, Dirty
<1> QED
  BY <1>1, <1>2 DEF TreeInv, Trees, Reported, Blamed, Judged, JudgedWasCommitted, Succeeds

LEMMA TreeStep == BranchInv /\ TreeInv /\ [Next]_vars => TreeInv'
<1> SUFFICES ASSUME BranchInv, TreeInv, [Next]_vars PROVE TreeInv'
  OBVIOUS
<1>1. Trees' /\ Reported'
  BY TreesStep, ReportedStep DEF BranchInv, TreeInv
<1> QED
  BY <1>1, BlamedStep, JudgedStep DEF TreeInv

\* The whole inductive invariant: commits and what is in the worktree.
THEOREM ChainInvHolds == Spec => [](BranchInv /\ TreeInv)
<1> QED
  BY InitBranch, InitTree, BranchStep, TreeStep, PTL DEF Spec

\* verifier_mutated_workspace: the comparison of heads and of git status ties a
\* verdict to the commit, but for the edits of an interrupted attempt
\* (runtime.py, _execute_verify).
THEOREM VerdictsAreAboutCommits == Spec => []JudgedWasCommitted
<1>1. BranchInv /\ TreeInv => JudgedWasCommitted
  BY DEF TreeInv
<1> QED
  BY <1>1, ChainInvHolds, PTL

=============================================================================
