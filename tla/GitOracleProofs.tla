--------------------------- MODULE GitOracleProofs ---------------------------
(***************************************************************************)
(* Proofs about GitOracle, for any contents, window and bounds: what a     *)
(* query may answer while a user keeps working on the repository.          *)
(***************************************************************************)
EXTENDS GitOracle, SequenceTheorems, TLAPS

(* A commit more, seen from the commits.                                   *)
LEMMA LongerHistory ==
  ASSUME NEW h \in Seq(Commits), NEW c \in Commits
  PROVE  /\ Append(h, c) \in Seq(Commits)
         /\ Len(Append(h, c)) = Len(h) + 1
         /\ DOMAIN Append(h, c) = DOMAIN h \cup {Len(h) + 1}
         /\ \A i \in DOMAIN h : Append(h, c)[i] = h[i]
         /\ Append(h, c)[Len(h) + 1] = c
  OBVIOUS

(* A commit less.                                                          *)
LEMMA ShorterHistory ==
  ASSUME NEW h \in Seq(Commits), h # <<>>
  PROVE  /\ Front(h) \in Seq(Commits)
         /\ DOMAIN Front(h) \subseteq DOMAIN h
         /\ \A i \in DOMAIN Front(h) : Front(h)[i] = h[i]
<1>1. Len(h) \in Nat /\ Len(h) >= 1
  BY EmptySeq
<1>2. Front(h) = [i \in 1 .. Len(h) - 1 |-> h[i]]
  BY <1>1, SMT DEF Front
<1>3. \A i \in 1 .. Len(h) - 1 : i \in 1 .. Len(h) /\ h[i] \in Commits
  BY <1>1
<1> QED
  BY <1>1, <1>2, <1>3

(* What the path's content at a commit, and the dates of a commit, are.    *)
LEMMA CommitTypes ==
  ASSUME NEW h \in Seq(Commits)
  PROVE  /\ \A i \in DOMAIN h : h[i] \in Commits
         /\ BlobAt(h, Len(h)) \in Content
         /\ TouchOf(h) \subseteq Nat
         /\ \A i \in DOMAIN h : /\ LaterDate(h[i]) \in Nat
                                /\ h[i].committer \in Nat
                                /\ h[i].committer <= LaterDate(h[i])
<1>1. \A i \in DOMAIN h : h[i] \in Commits
  OBVIOUS
<1>2. \A i \in DOMAIN h : /\ LaterDate(h[i]) \in Nat
                          /\ h[i].committer \in Nat
                          /\ h[i].committer <= LaterDate(h[i])
  BY <1>1 DEF Commits, LaterDate
<1>3. TouchOf(h) \subseteq Nat
  BY <1>2 DEF TouchOf, Newest, Touching
<1>4. BlobAt(h, Len(h)) \in Content
  <2>1. CASE Len(h) = 0
    BY <2>1 DEF BlobAt, Content
  <2>2. CASE Len(h) # 0
    <3>1. Len(h) \in DOMAIN h
      BY <2>2
    <3> QED
      BY <3>1, <1>1, <2>2 DEF BlobAt, Commits
  <2> QED
    BY <2>1, <2>2
<1> QED
  BY <1>1, <1>2, <1>3, <1>4

(* git log answers with dates.                                             *)
LEMMA LastTouchType ==
  ASSUME TypeOK
  PROVE  last_touch \subseteq Nat
<1>1. history \in Seq(Commits)
  BY DEF TypeOK
<1>2. CASE ~ shallow
  BY <1>1, <1>2, CommitTypes DEF last_touch
<1>3. CASE shallow /\ HeadBlob = NoFile
  BY <1>3 DEF last_touch
<1>4. CASE shallow /\ HeadBlob # NoFile
  <2>1. Len(history) \in DOMAIN history
    BY <1>1, <1>4 DEF HeadBlob, BlobAt
  <2> QED
    BY <1>1, <1>4, <2>1, CommitTypes DEF last_touch, Last
<1> QED
  BY <1>2, <1>3, <1>4

-----------------------------------------------------------------------------
(* The repository and what is asked of it keep their types (TypeOK).       *)
THEOREM TypeCorrect == Spec => []TypeOK
<1>1. Init => TypeOK
  <2> SUFFICES ASSUME Init PROVE TypeOK
    OBVIOUS
  <2>1. history \in Seq(Commits) /\ remote \in Remote /\ query \in Query
    BY DEF Init, Remote, Query, NoQuery, Answers
  <2>2. aux_seen \in [clean : BOOLEAN, touched : SUBSET Nat]
    BY DEF Init, NotSeen
  <2>3. /\ index \in Content /\ worktree \in Content
        /\ clock \in Nat /\ aux_best \in 0 .. 2
    BY DEF Init, Content
  <2>4. /\ ignored \in BOOLEAN /\ shallow \in BOOLEAN
        /\ aux_user \in {"still", "forward", "rewound"}
        /\ aux_cleared \in BOOLEAN
    BY DEF Init
  <2> QED
    BY <2>1, <2>2, <2>3, <2>4 DEF TypeOK
<1>2. TypeOK /\ [Next]_vars => TypeOK'
  <2> SUFFICES ASSUME TypeOK, [Next]_vars
               PROVE  TypeOK'
    OBVIOUS
  <2>a. Rung \in 0 .. 2
    BY DEF Rung
  <2>b. Rung' \in 0 .. 2
    BY DEF Rung
  <2>c. history \in Seq(Commits) /\ HeadBlob \in Content
    BY CommitTypes DEF TypeOK, HeadBlob
  <2> USE DEF Query, NoQuery, NotSeen, Answers, Classes, Vetoes
  <2>1. CASE AskTracked
    BY <2>1, <2>a DEF TypeOK, AskTracked, Ask, Continue, Answer, repo
  <2>2. CASE AskHead
    BY <2>2 DEF TypeOK, AskHead, Ask, Continue, Answer, repo, aux
  <2>3. CASE AskRemote
    BY <2>3 DEF TypeOK, AskRemote, Ask, Continue, Answer, repo, aux
  <2>4. CASE AskIgnored
    BY <2>4 DEF TypeOK, AskIgnored, Ask, Continue, Answer, repo, aux
  <2>5. CASE AskShallow
    BY <2>5 DEF TypeOK, AskShallow, Ask, Continue, Answer, repo, aux
  <2>6. CASE AskStatus
    <3>1. {history[i].committer : i \in Newest(history)} \subseteq Nat
      BY <2>c, CommitTypes DEF Newest, Touching
    <3>2. (\/ worktree = HeadBlob
           \/ is_ignored /\ HeadBlob = NoFile) \in BOOLEAN
      OBVIOUS
    <3>3. aux_seen' \in [clean : BOOLEAN, touched : SUBSET Nat]
      BY <2>6, <3>1, <3>2 DEF AskStatus
    <3> QED
      BY <2>6, <3>3 DEF TypeOK, AskStatus, Ask, Continue, Answer, repo
  <2>7. CASE AskLog
    <3>1. last_touch \in SUBSET Nat
      BY LastTouchType
    <3>2. query' \in Query
      BY <2>7, <3>1 DEF TypeOK, AskLog, Ask, Answer
    <3> QED
      BY <2>7, <3>2 DEF TypeOK, AskLog, repo, aux
  <2>8. CASE AskClock
    <3>1. query' \in Query /\ aux_cleared' \in BOOLEAN
      BY <2>8 DEF TypeOK, AskClock, Ask, Answer
    <3> QED
      BY <2>8, <3>1 DEF TypeOK, AskClock, repo
  <2>9. CASE Report
    BY <2>9 DEF TypeOK, Report, repo
  <2>10. CASE User
    <3>1. ASSUME NEW rewind \in BOOLEAN, UserStep(rewind)
          PROVE  /\ clock' \in Nat /\ query' \in Query
                 /\ aux_seen' \in [clean : BOOLEAN, touched : SUBSET Nat]
                 /\ aux_best' \in 0 .. 2
                 /\ aux_user' \in {"still", "forward", "rewound"}
                 /\ aux_cleared' \in BOOLEAN
      BY <3>1, <2>b DEF TypeOK, UserStep
    <3>2. ASSUME NEW content \in Content, Edit(content)
          PROVE  TypeOK'
      BY <3>1, <3>2 DEF TypeOK, Edit
    <3>3. CASE Stage
      <4>1. (worktree = NoFile) \in BOOLEAN
        OBVIOUS
      <4> QED
        BY <3>1, <3>3, <4>1 DEF TypeOK, Stage
    <3>4. ASSUME NEW content \in {NoFile, HeadBlob}, Unstage(content)
          PROVE  TypeOK'
      BY <3>1, <3>4, <2>c DEF TypeOK, Unstage, Content
    <3>5. ASSUME NEW date \in 0 .. MaxTime, CommitIndex(date)
          PROVE  TypeOK'
      <4>1. [blob |-> index, committer |-> clock, author |-> date] \in Commits
        BY <3>5, GitAssumption DEF TypeOK, Commits
      <4>2. history' \in Seq(Commits)
        BY <3>5, <4>1, <2>c, LongerHistory DEF CommitIndex
      <4> QED
        BY <3>1, <3>5, <4>2 DEF TypeOK, CommitIndex
    <3>6. ASSUME NEW hard \in BOOLEAN, Reset(hard)
          PROVE  TypeOK'
      <4>1. history' \in Seq(Commits)
        BY <3>6, <2>c, ShorterHistory DEF Reset
      <4>2. HeadBlob' \in Content
        BY <4>1, CommitTypes DEF HeadBlob
      <4>3. index' \in Content /\ worktree' \in Content
        BY <3>6, <4>2 DEF TypeOK, Reset
      <4>4. remote' \in Remote
        <5>1. Len(history') \in Nat
          BY <4>1
        <5>2. [remote EXCEPT !.shared = Len(history'), !.more = TRUE] \in Remote
          BY <5>1 DEF TypeOK, Remote
        <5> QED
          BY <3>6, <5>2 DEF TypeOK, Reset
      <4> QED
        BY <3>1, <3>6, <4>1, <4>3, <4>4 DEF TypeOK, Reset
    <3>7. CASE Push
      <4>1. (\E i \in DOMAIN history : history[i].blob # NoFile) \in BOOLEAN
        OBVIOUS
      <4>2. remote' \in Remote
        BY <3>7, <4>1, <2>c DEF Push, Remote
      <4>3. remote.more \in BOOLEAN
        BY DEF TypeOK, Remote
      <4> QED
        BY <3>1, <3>7, <4>2, <4>3 DEF TypeOK, Push
    <3>8. CASE ChangeIgnore
      BY <3>1, <3>8 DEF TypeOK, ChangeIgnore
    <3>9. CASE ChangeDepth
      <4>1. (~ shallow) \in BOOLEAN
        OBVIOUS
      <4> QED
        BY <3>1, <3>9, <4>1 DEF TypeOK, ChangeDepth
    <3> QED
      BY <2>10, <3>2, <3>3, <3>4, <3>5, <3>6, <3>7, <3>8, <3>9 DEF User
  <2>11. CASE Tick
    BY <2>11 DEF TypeOK, Tick, repo, aux
  <2>12. CASE UNCHANGED vars
    BY <2>12 DEF TypeOK, vars, repo, aux
  <2> QED
    BY <2>1, <2>2, <2>3, <2>4, <2>5, <2>6, <2>7, <2>8, <2>9, <2>10, <2>11,
       <2>12 DEF Next, recoverability, judge
<1> QED
  BY <1>1, <1>2, PTL DEF Spec

-----------------------------------------------------------------------------
(* The rung of the path, as an observation of the index, HEAD and remote.  *)
LEMMA RungOf ==
  /\ Rung \in 0 .. 2
  /\ is_tracked => Rung >= 1
  /\ is_tracked /\ head_is_on_a_remote => Rung = 2
<1>1. Rung \in 0 .. 2 /\ (is_tracked => Rung >= 1)
  BY DEF Rung, is_tracked
<1>2. ASSUME is_tracked, head_is_on_a_remote
      PROVE  Rung = 2
  <2>1. history # <<>> /\ remote.shared = Len(history) /\ index # NoFile
    BY <1>2 DEF is_tracked, head_is_on_a_remote
  <2>2. ~ (remote.shared < Len(history))
    BY <2>1
  <2> QED
    BY <2>1, <2>2 DEF Rung
<1> QED
  BY <1>1, <1>2

(* A step of the user keeps the invariant of the class unless it takes a   *)
(* tracked path out of the index and is not known as a rewind.             *)
LEMMA UserKeepsClass ==
  ASSUME TypeOK, TypeOK', ClassInv, NEW rewind \in BOOLEAN, UserStep(rewind),
         ~ rewind /\ is_tracked => is_tracked'
  PROVE  ClassInv'
<1>1. query.verdict = "none" /\ query' = query
  BY DEF UserStep
<1>2. NeverBetterThanItWas'
  BY <1>1 DEF NeverBetterThanItWas, Classes
<1>3. query'.pc \in {"head", "remote", "ignored"} => aux_best' >= Rung'
  <2> SUFFICES ASSUME query.pc \in {"head", "remote", "ignored"}
               PROVE  aux_best' >= Rung'
    BY <1>1
  <2>1. Rung' \in 0 .. 2
    BY DEF Rung
  <2>2. aux_best \in 0 .. 2
    BY DEF TypeOK
  <2>3. aux_best' = IF Rung' > aux_best THEN Rung' ELSE aux_best
    BY DEF UserStep
  <2> QED
    BY <2>1, <2>2, <2>3
<1>4. query'.pc \in {"head", "remote"} /\ aux_user' # "rewound" => is_tracked'
  <2> SUFFICES ASSUME query.pc \in {"head", "remote"}, aux_user' # "rewound"
               PROVE  is_tracked'
    BY <1>1
  <2>1. ~ rewind /\ aux_user # "rewound"
    BY DEF UserStep
  <2> QED
    BY <2>1 DEF ClassInv
<1> QED
  BY <1>2, <1>3, <1>4 DEF ClassInv

(* Whatever the user edits, stages, commits and pushes while the questions *)
(* are asked, the class recoverability answers is at most the best the     *)
(* path was in meanwhile (NeverBetterThanItWas).                           *)
THEOREM NeverBetter == Spec => []NeverBetterThanItWas
<1>1. Init => ClassInv
  BY DEF Init, NoQuery, ClassInv, NeverBetterThanItWas, Classes
<1>2. TypeOK /\ TypeOK' /\ ClassInv /\ [Next]_vars => ClassInv'
  <2> SUFFICES ASSUME TypeOK, TypeOK', ClassInv, [Next]_vars
               PROVE  ClassInv'
    OBVIOUS
  <2>a. query \in Query /\ aux_best \in 0 .. 2
    BY DEF TypeOK
  <2>b. ASSUME UNCHANGED repo
        PROVE  /\ Rung' = Rung
               /\ is_tracked' <=> is_tracked
    BY <2>b DEF repo, Rung, is_tracked, head_is_on_a_remote
  <2>c. ASSUME UNCHANGED repo, UNCHANGED <<aux_best, aux_user>>,
               query' \in Query, query'.pc \notin {"head", "remote", "ignored"},
               query'.verdict \notin Classes
        PROVE  ClassInv'
    BY <2>c DEF ClassInv, NeverBetterThanItWas
  <2>d. query' \in Query
    BY DEF TypeOK
  <2>1. CASE AskTracked
    <3>1. aux_best' = Rung /\ UNCHANGED repo /\ Rung' = Rung /\ Rung \in 0 .. 2
      BY <2>1, <2>b, RungOf DEF AskTracked
    <3>2. query'.verdict \notin Classes
      BY <2>1, <2>a DEF AskTracked, Ask, Continue, Answer, NoQuery, Query, Classes
    <3>3. query'.pc \in {"head", "remote"} => is_tracked
      BY <2>1, <2>a DEF AskTracked, Ask, Continue, Answer, NoQuery, Query
    <3> QED
      BY <3>1, <3>2, <3>3, <2>b DEF ClassInv, NeverBetterThanItWas
  <2>2. CASE AskHead
    <3>1. /\ UNCHANGED repo /\ aux_best' = aux_best /\ aux_user' = aux_user
          /\ Rung' = Rung /\ (is_tracked' <=> is_tracked)
      BY <2>2, <2>b DEF AskHead, aux
    <3>2. query.pc = "head" /\ query.verdict = "none"
      BY <2>2 DEF AskHead, Ask
    <3>3. aux_user # "rewound" => aux_best >= 1
      BY <3>2, <2>a, RungOf DEF ClassInv
    <3>4. \/ query'.pc = "remote" /\ query'.verdict = "none"
          \/ query'.pc = "idle" /\ query'.verdict \in {"TrackedUnpushed", "Error"}
      BY <2>2, <2>a DEF AskHead, Ask, Continue, Answer, NoQuery, Query
    <3> QED
      BY <3>1, <3>2, <3>3, <3>4 DEF ClassInv, NeverBetterThanItWas, Classes
  <2>3. CASE AskRemote
    <3>1. /\ UNCHANGED repo /\ aux_best' = aux_best /\ aux_user' = aux_user
      BY <2>3 DEF AskRemote, aux
    <3>2. query.pc = "remote" /\ query.verdict = "none"
      BY <2>3 DEF AskRemote, Ask
    <3>3. aux_user # "rewound" => /\ aux_best >= 1
                                  /\ head_is_on_a_remote => aux_best = 2
      BY <3>2, <2>a, RungOf DEF ClassInv
    <3>4. /\ query'.pc = "idle"
          /\ \/ query'.verdict = "TrackedPushed" /\ head_is_on_a_remote
             \/ query'.verdict \in {"TrackedUnpushed", "Error"}
      BY <2>3 DEF AskRemote, Answer, NoQuery
    <3> QED
      BY <3>1, <3>3, <3>4 DEF ClassInv, NeverBetterThanItWas, Classes
  <2>4. CASE AskIgnored
    <3>1. /\ query'.pc = "idle"
          /\ query'.verdict \in {"Untracked", "Ignored", "Error"}
      BY <2>4 DEF AskIgnored, Answer, NoQuery
    <3> QED
      BY <3>1 DEF ClassInv, NeverBetterThanItWas, Classes
  <2>5. CASE judge
    <3>1. UNCHANGED repo /\ UNCHANGED <<aux_best, aux_user>>
      BY <2>5 DEF judge, AskShallow, AskStatus, AskLog, AskClock, aux
    <3>2. /\ query'.pc \in {"idle", "status", "log", "clock"}
          /\ query'.verdict \in Vetoes \cup {"Abstain", "none"}
      <4>1. CASE AskShallow
        BY <4>1, <2>a DEF AskShallow, Ask, Continue, Answer, NoQuery, Query, Vetoes
      <4>2. CASE AskStatus
        BY <4>2, <2>a DEF AskStatus, Ask, Continue, Answer, NoQuery, Query, Vetoes
      <4>3. CASE AskLog
        BY <4>3, <2>a DEF AskLog, Ask, Answer, NoQuery, Query, Vetoes
      <4>4. CASE AskClock
        BY <4>4, <2>a DEF AskClock, Ask, Answer, NoQuery, Query, Vetoes
      <4> QED
        BY <4>1, <4>2, <4>3, <4>4, <2>5 DEF judge
    <3> QED
      BY <2>c, <2>d, <3>1, <3>2 DEF Vetoes, Classes
  <2>6. CASE Report
    <3>1. query'.pc = "idle" /\ query'.verdict = "none"
      BY <2>6 DEF Report, NoQuery
    <3> QED
      BY <3>1 DEF ClassInv, NeverBetterThanItWas, Classes
  <2>7. CASE User
    <3>1. ASSUME NEW rewind \in BOOLEAN, UserStep(rewind),
                 rewind \/ index' = index
          PROVE  ClassInv'
      BY <3>1, UserKeepsClass DEF is_tracked
    <3>2. ASSUME NEW content \in Content, Edit(content)
          PROVE  ClassInv'
      BY <3>1, <3>2 DEF Edit
    <3>3. CASE Stage
      <4>1. (worktree = NoFile) \in BOOLEAN
        OBVIOUS
      <4>2. UserStep(worktree = NoFile) /\ index' = worktree
        BY <3>3 DEF Stage
      <4> QED
        BY <4>1, <4>2, UserKeepsClass DEF is_tracked
    <3>4. ASSUME NEW content \in {NoFile, HeadBlob}, Unstage(content)
          PROVE  ClassInv'
      BY <3>1, <3>4 DEF Unstage
    <3>5. ASSUME NEW date \in 0 .. MaxTime, CommitIndex(date)
          PROVE  ClassInv'
      BY <3>1, <3>5 DEF CommitIndex
    <3>6. ASSUME NEW hard \in BOOLEAN, Reset(hard)
          PROVE  ClassInv'
      BY <3>1, <3>6 DEF Reset
    <3>7. CASE Push
      <4>1. remote.more \in BOOLEAN
        BY DEF TypeOK, Remote
      <4> QED
        BY <3>1, <3>7, <4>1 DEF Push
    <3>8. CASE ChangeIgnore
      BY <3>1, <3>8 DEF ChangeIgnore
    <3>9. CASE ChangeDepth
      <4>1. (~ shallow) \in BOOLEAN
        OBVIOUS
      <4> QED
        BY <3>1, <3>9, <4>1 DEF ChangeDepth
    <3> QED
      BY <2>7, <3>2, <3>3, <3>4, <3>5, <3>6, <3>7, <3>8, <3>9 DEF User
  <2>8. CASE Tick \/ UNCHANGED vars
    <3>1. UNCHANGED repo /\ UNCHANGED <<query, aux_best, aux_user>>
      BY <2>8 DEF Tick, vars, aux
    <3> QED
      BY <3>1, <2>b DEF ClassInv, NeverBetterThanItWas
  <2> QED
    BY <2>1, <2>2, <2>3, <2>4, <2>5, <2>6, <2>7, <2>8 DEF Next, recoverability
<1>3. ClassInv => NeverBetterThanItWas
  BY DEF ClassInv
<1> QED
  BY <1>1, <1>2, <1>3, TypeCorrect, PTL DEF Spec

-----------------------------------------------------------------------------
(* A date outside the window stays outside.                                *)
LEMMA OutOfWindow ==
  ASSUME NEW now \in Nat, NEW later \in {now, now + 1}, NEW t \in Nat,
         now - t > Window
  PROVE  later - t > Window
<1>1. later = now \/ later = now + 1
  OBVIOUS
<1> QED
  BY <1>1, GitAssumption

(* A path that Gate 2e cleared stays cleared while only time passes        *)
(* (AbstentionIsStable): no second query of an unchanged repository vetoes *)
(* what the first abstained on.                                            *)
THEOREM AbstentionStable == Spec => []AbstentionIsStable
<1>1. Init => StableInv
  BY DEF Init, NoQuery, StableInv, AbstentionIsStable
<1>2. TypeOK /\ TypeOK' /\ StableInv /\ [Next]_vars => StableInv'
  <2> SUFFICES ASSUME TypeOK, TypeOK', StableInv, [Next]_vars
               PROVE  StableInv'
    OBVIOUS
  <2>a. query \in Query /\ clock \in Nat /\ aux_cleared \in BOOLEAN
    BY DEF TypeOK
  <2>b. last_touch \subseteq Nat
    BY LastTouchType
  <2>c. ASSUME UNCHANGED repo
        PROVE  /\ shallow' = shallow /\ history' = history
               /\ worktree_differs_from_HEAD' <=> worktree_differs_from_HEAD
               /\ last_touch' = last_touch
    BY <2>c DEF repo, worktree_differs_from_HEAD, last_touch, HeadBlob
  <2>d. ASSUME UNCHANGED repo, clock' \in {clock, clock + 1}, Settled
        PROVE  Settled'
    <3>1. ASSUME NEW t \in last_touch
          PROVE  clock' - t > Window
      <4>1. t \in Nat
        BY <2>b
      <4>2. clock - t > Window
        BY <2>d DEF Settled
      <4> QED
        BY <4>1, <4>2, <2>a, <2>d, OutOfWindow
    <3> QED
      BY <2>d, <2>c, <3>1 DEF Settled
  <2>e. ASSUME UNCHANGED repo, clock' \in {clock, clock + 1},
               aux_user' = aux_user, aux_cleared' => aux_cleared
        PROVE  aux_cleared' => Settled' /\ aux_user' = "still"
    BY <2>e, <2>d DEF StableInv
  <2>1. CASE recoverability
    <3>1. UNCHANGED repo /\ UNCHANGED <<clock, aux_user, aux_cleared>>
      BY <2>1 DEF recoverability, AskTracked, AskHead, AskRemote, AskIgnored, aux
    <3>2. /\ query'.pc \in {"idle", "head", "remote", "ignored"}
          /\ query'.verdict \in Classes \cup {"Error", "none"}
      <4>1. CASE AskTracked
        BY <4>1, <2>a DEF AskTracked, Ask, Continue, Answer, NoQuery, Query
      <4>2. CASE AskHead
        BY <4>2, <2>a DEF AskHead, Ask, Continue, Answer, NoQuery, Query, Classes
      <4>3. CASE AskRemote
        BY <4>3 DEF AskRemote, Answer, NoQuery, Classes
      <4>4. CASE AskIgnored
        BY <4>4 DEF AskIgnored, Answer, NoQuery, Classes
      <4> QED
        BY <4>1, <4>2, <4>3, <4>4, <2>1 DEF recoverability
    <3> QED
      BY <2>e, <3>1, <3>2 DEF StableInv, AbstentionIsStable
  <2>2. CASE AskShallow
    <3>1. UNCHANGED repo /\ UNCHANGED <<clock, aux_user, aux_cleared>>
      BY <2>2 DEF AskShallow, aux
    <3>2. \/ shallow /\ query'.pc = "idle"
          \/ ~ shallow /\ query'.pc = "status" /\ query'.verdict = "none"
          \/ query'.pc = "idle" /\ query'.verdict = "EvidenceUnavailable"
      BY <2>2, <2>a DEF AskShallow, Ask, Continue, Answer, NoQuery, Query
    <3>3. aux_cleared => ~ shallow
      BY DEF StableInv, Settled
    <3> QED
      BY <2>c, <2>e, <3>1, <3>2, <3>3 DEF StableInv, AbstentionIsStable
  <2>3. CASE AskStatus
    <3>1. UNCHANGED repo /\ UNCHANGED <<clock, aux_user, aux_cleared>>
      BY <2>3 DEF AskStatus
    <3>2. /\ query.pc = "status"
          /\ \/ worktree_differs_from_HEAD /\ query'.pc = "idle"
             \/ /\ ~ worktree_differs_from_HEAD
                /\ query'.pc = "log" /\ query'.verdict = "none"
             \/ query'.pc = "idle" /\ query'.verdict = "EvidenceUnavailable"
      BY <2>3, <2>a DEF AskStatus, Ask, Continue, Answer, NoQuery, Query
    <3>3. aux_cleared => ~ worktree_differs_from_HEAD
      BY DEF StableInv, Settled
    <3> QED
      BY <2>c, <2>e, <3>1, <3>2, <3>3 DEF StableInv, AbstentionIsStable
  <2>4. CASE AskLog
    <3>1. UNCHANGED repo /\ UNCHANGED <<clock, aux_user, aux_cleared>>
      BY <2>4 DEF AskLog, aux
    <3>2. /\ query.pc = "log"
          /\ \/ last_touch = {} /\ query'.pc = "idle"
             \/ /\ history # <<>> /\ last_touch # {}
                /\ query'.pc = "clock" /\ query'.touched = last_touch
                /\ query'.verdict = "none"
             \/ query'.pc = "idle" /\ query'.verdict = "EvidenceUnavailable"
      BY <2>4, <2>a DEF AskLog, Ask, Answer, NoQuery, Query
    <3>3. aux_cleared => last_touch # {}
      BY DEF StableInv, Settled
    <3> QED
      BY <2>c, <2>e, <3>1, <3>2, <3>3 DEF StableInv, AbstentionIsStable
  <2>5. CASE AskClock
    <3>1. UNCHANGED repo /\ UNCHANGED <<clock, aux_user>>
      BY <2>5 DEF AskClock
    <3>2. query.pc = "clock" /\ query'.pc = "idle"
      BY <2>5 DEF AskClock, Ask, Answer, NoQuery
    <3>3. aux_user = "still" => /\ ~ shallow /\ history # <<>>
                                /\ ~ worktree_differs_from_HEAD
                                /\ query.touched = last_touch
                                /\ last_touch # {}
      BY <3>2 DEF StableInv
    <3>4. CASE /\ within_window(query.touched, clock)
               /\ query'.verdict = "RecentCommit" /\ aux_cleared' = aux_cleared
      <4>1. ~ aux_cleared
        <5>1. ASSUME aux_cleared
              PROVE  FALSE
          <6>1. aux_user = "still" /\ \A t \in last_touch : clock - t > Window
            BY <5>1 DEF StableInv, Settled
          <6>2. PICK t \in last_touch : clock - t <= Window
            BY <6>1, <3>3, <3>4 DEF within_window
          <6>3. t \in Nat /\ clock - t > Window
            BY <6>1, <6>2, <2>b
          <6> QED
            BY <6>2, <6>3, <2>a, GitAssumption
        <5> QED
          BY <5>1
      <4> QED
        BY <3>2, <3>4, <4>1 DEF StableInv, AbstentionIsStable
    <3>5. CASE /\ ~ within_window(query.touched, clock)
               /\ query'.verdict = "Abstain"
               /\ aux_cleared' = (aux_user = "still")
      <4>1. aux_user = "still" => Settled
        <5> SUFFICES ASSUME aux_user = "still" PROVE Settled
          OBVIOUS
        <5>1. \A t \in last_touch : clock - t > Window
          BY <3>3, <3>5, <2>a, <2>b, GitAssumption DEF within_window
        <5> QED
          BY <5>1, <3>3 DEF Settled
      <4> QED
        BY <2>d, <3>1, <3>2, <3>5, <4>1 DEF StableInv, AbstentionIsStable
    <3>6. CASE /\ query'.verdict = "EvidenceUnavailable"
               /\ aux_cleared' = aux_cleared
      BY <2>e, <3>1, <3>2, <3>6 DEF StableInv, AbstentionIsStable
    <3> QED
      BY <3>4, <3>5, <3>6, <2>5 DEF AskClock, Answer, NoQuery
  <2>6. CASE Report
    <3>1. UNCHANGED repo /\ clock' = clock /\ aux_cleared' = aux_cleared
      BY <2>6 DEF Report
    <3>2. /\ query'.pc = "idle" /\ query'.verdict = "none"
          /\ aux_user' = "still"
      BY <2>6 DEF Report, NoQuery
    <3> QED
      BY <2>d, <3>1, <3>2 DEF StableInv, AbstentionIsStable
  <2>7. CASE User
    <3>1. PICK rewind : UserStep(rewind)
      BY <2>7 DEF User, Edit, Stage, Unstage, CommitIndex, Reset, Push,
                  ChangeIgnore, ChangeDepth
    <3>2. query' = query /\ ~ aux_cleared'
      BY <3>1 DEF UserStep
    <3>3. aux_user' = "still" => query.pc = "idle"
      BY <3>1 DEF UserStep
    <3> QED
      BY <3>2, <3>3 DEF StableInv, AbstentionIsStable
  <2>8. CASE Tick \/ UNCHANGED vars
    <3>1. /\ UNCHANGED repo /\ UNCHANGED <<query, aux_user, aux_cleared>>
          /\ clock' \in {clock, clock + 1}
      BY <2>8 DEF Tick, vars, aux
    <3> QED
      BY <2>c, <2>e, <3>1 DEF StableInv, AbstentionIsStable
  <2> QED
    BY <2>1, <2>2, <2>3, <2>4, <2>5, <2>6, <2>7, <2>8 DEF Next, judge
<1>3. StableInv => AbstentionIsStable
  BY DEF StableInv
<1> QED
  BY <1>1, <1>2, <1>3, TypeCorrect, PTL DEF Spec

-----------------------------------------------------------------------------
(* The newest commit that touches the path only gets younger as commits    *)
(* are added.                                                              *)
LEMMA NewestOnlyGrows ==
  ASSUME NEW h \in Seq(Commits), NEW c \in Commits, NEW i \in Newest(h),
         \A j \in DOMAIN h : h[j].committer <= c.committer
  PROVE  \E k \in Newest(Append(h, c)) :
            h[i].committer <= Append(h, c)[k].committer
<1> DEFINE g == Append(h, c)
           n == Len(h) + 1
<1>1. /\ DOMAIN g = DOMAIN h \cup {n}
      /\ \A j \in DOMAIN h : g[j] = h[j]
      /\ g[n] = c /\ n \notin DOMAIN h
  BY LongerHistory
<1>2. \A j \in DOMAIN h : j \in Nat /\ j < n /\ (j = 0 \/ j = 1 \/ j - 1 \in DOMAIN h)
  OBVIOUS
<1>3. i \in DOMAIN h /\ i \in Touching(h) /\ \A j \in Touching(h) : j <= i
  BY DEF Newest, Touching
<1>4. \A j \in DOMAIN h : j \in Touching(g) <=> j \in Touching(h)
  <2> SUFFICES ASSUME NEW j \in DOMAIN h
               PROVE  j \in Touching(g) <=> j \in Touching(h)
    OBVIOUS
  <2>1. BlobAt(g, j - 1) = BlobAt(h, j - 1)
    <3>1. j # 0
      OBVIOUS
    <3>2. j - 1 = 0 \/ j - 1 \in DOMAIN h
      OBVIOUS
    <3> QED
      BY <3>2, <1>1 DEF BlobAt
  <2>2. j \in DOMAIN g /\ g[j] = h[j]
    BY <1>1
  <2> HIDE DEF g
  <2> QED
    BY <2>1, <2>2 DEF Touching
<1>5. Touching(g) \subseteq DOMAIN h \cup {n}
  BY <1>1 DEF Touching
<1> HIDE DEF g
<1>6. CASE n \in Touching(g)
  <2>1. \A j \in Touching(g) : j <= n
    BY <1>2, <1>5
  <2>2. n \in Newest(g)
    BY <1>6, <2>1 DEF Newest
  <2> QED
    BY <2>2, <1>1, <1>3 DEF g
<1>7. CASE n \notin Touching(g)
  <2>1. i \in Newest(g)
    BY <1>3, <1>4, <1>5, <1>7 DEF Newest
  <2>2. h[i].committer <= g[i].committer
    BY <1>1, <1>3, CommitTypes
  <2> QED
    BY <2>1, <2>2 DEF g
<1> QED
  BY <1>6, <1>7

(* The dates of the commits stay in order as commits are added and taken   *)
(* back and as time passes.                                                *)
LEMMA OrderedStays ==
  ASSUME TypeOK, Ordered, clock' \in {clock, clock + 1},
         \/ history' = history
         \/ \E blob \in Content, date \in Nat :
               history' = Append(history, [blob |-> blob, committer |-> clock,
                                           author |-> date])
         \/ history # <<>> /\ history' = Front(history)
  PROVE  Ordered'
<1>a. history \in Seq(Commits) /\ clock \in Nat
  BY DEF TypeOK
<1>b. clock \in Nat /\ clock' \in Nat /\ clock <= clock'
  BY <1>a
<1>c. \A i \in DOMAIN history : history[i].committer \in Nat
  BY <1>a, CommitTypes
<1>1. CASE history' = history
  BY <1>1, <1>b, <1>c DEF Ordered
<1>2. ASSUME NEW blob \in Content, NEW date \in Nat,
             history' = Append(history, [blob |-> blob, committer |-> clock,
                                         author |-> date])
      PROVE  Ordered'
  <2> DEFINE c == [blob |-> blob, committer |-> clock, author |-> date]
  <2>1. c \in Commits /\ c.committer = clock
    BY <1>a DEF Commits
  <2> HIDE DEF c
  <2>2. /\ DOMAIN history' = DOMAIN history \cup {Len(history) + 1}
        /\ \A i \in DOMAIN history : history'[i] = history[i]
        /\ history'[Len(history) + 1] = c
    BY <1>2, <1>a, <2>1, LongerHistory DEF c
  <2>3. \A i \in DOMAIN history : i \in Nat /\ i < Len(history) + 1
    BY <1>a
  <2>4. \A i \in DOMAIN history' : history'[i].committer <= clock'
    BY <1>b, <1>c, <2>1, <2>2 DEF Ordered
  <2>5. ASSUME NEW i \in DOMAIN history', NEW j \in DOMAIN history', i <= j
        PROVE  history'[i].committer <= history'[j].committer
    <3>1. CASE i \in DOMAIN history /\ j \in DOMAIN history
      BY <2>2, <2>5, <3>1 DEF Ordered
    <3>2. CASE i \in DOMAIN history /\ j = Len(history) + 1
      BY <2>1, <2>2, <3>2 DEF Ordered
    <3>3. CASE i = Len(history) + 1
      <4>1. j = Len(history) + 1
        BY <2>2, <2>3, <2>5, <3>3, <1>a
      <4> QED
        BY <1>a, <2>1, <2>2, <3>3, <4>1
    <3> QED
      BY <2>2, <3>1, <3>2, <3>3
  <2> QED
    BY <2>4, <2>5 DEF Ordered
<1>3. CASE history # <<>> /\ history' = Front(history)
  <2>1. /\ DOMAIN history' \subseteq DOMAIN history
        /\ \A i \in DOMAIN history' : history'[i] = history[i]
    BY <1>3, <1>a, ShorterHistory
  <2>2. \A i \in DOMAIN history' : history'[i].committer <= clock'
    BY <1>b, <1>c, <2>1 DEF Ordered
  <2> QED
    BY <2>1, <2>2 DEF Ordered
<1> QED
  BY <1>1, <1>2, <1>3

(* What was asked so far of a path, apart from the order of the dates.     *)
LEMMA SeenWithoutUser ==
  ASSUME TypeOK, SeenInv, Ordered', UNCHANGED <<shallow, history>>,
         UNCHANGED <<query, aux_seen, aux_user>>, clock' \in {clock, clock + 1}
  PROVE  SeenInv'
<1>1. AbstentionSawSettledPath'
  <2> SUFFICES ASSUME query.verdict = "Abstain", aux_user # "rewound"
               PROVE  /\ aux_seen.clean
                      /\ \A t \in aux_seen.touched : clock' - t > Window
    BY DEF AbstentionSawSettledPath
  <2>1. /\ aux_seen.clean
        /\ \A t \in aux_seen.touched : clock - t > Window
    BY DEF SeenInv, AbstentionSawSettledPath
  <2>2. clock \in Nat /\ aux_seen.touched \subseteq Nat
    BY DEF TypeOK
  <2>3. ASSUME NEW t \in aux_seen.touched
        PROVE  clock' - t > Window
    <3>1. t \in Nat /\ clock - t > Window
      BY <2>1, <2>2
    <3>2. clock \in Nat
      BY <2>2
    <3> QED
      BY <3>1, <3>2, OutOfWindow
  <2> QED
    BY <2>1, <2>3
<1>2. Newest(history)' = Newest(history)
  BY DEF Newest, Touching, BlobAt
<1> QED
  BY <1>1, <1>2 DEF SeenInv

(* A step of the user keeps SeenInv when it keeps the order of the dates,  *)
(* and unless it is a rewind neither makes the clone shallow nor takes a   *)
(* commit back.                                                            *)
LEMMA UserKeepsSeen ==
  ASSUME TypeOK, SeenInv, Ordered', NEW rewind \in BOOLEAN, UserStep(rewind),
         TypeOK',
         ~ rewind => /\ ~ shallow => ~ shallow'
                     /\ \A i \in Newest(history) : \E k \in Newest(history') :
                           history[i].committer <= history'[k].committer
  PROVE  SeenInv'
<1>1. query.verdict = "none" /\ query' = query /\ aux_seen' = aux_seen
  BY DEF UserStep
<1>2. AbstentionSawSettledPath'
  BY <1>1 DEF AbstentionSawSettledPath
<1>3. CASE aux_user' = "rewound"
  BY <1>2, <1>3 DEF SeenInv
<1>4. CASE query.pc = "idle"
  BY <1>1, <1>2, <1>4 DEF SeenInv
<1>5. CASE aux_user' # "rewound" /\ query.pc # "idle"
  <2>1. ~ rewind /\ aux_user # "rewound"
    BY <1>5 DEF UserStep
  <2>2. query.pc \in {"status", "log", "clock"} => ~ shallow'
    BY <2>1 DEF SeenInv
  <2>3. ASSUME query.pc = "log", NEW t \in aux_seen.touched
        PROVE  \E k \in Newest(history') : t <= history'[k].committer
    <3>1. PICK i \in Newest(history) : t <= history[i].committer
      BY <2>1, <2>3 DEF SeenInv
    <3>2. PICK k \in Newest(history') :
             history[i].committer <= history'[k].committer
      BY <2>1
    <3>3. t \in Nat /\ i \in DOMAIN history /\ k \in DOMAIN history'
      BY DEF TypeOK, Newest, Touching
    <3>4. history \in Seq(Commits) /\ history[i].committer \in Nat
      BY <3>3, CommitTypes DEF TypeOK
    <3>5. history' \in Seq(Commits)
      BY DEF TypeOK
    <3>6. history'[k].committer \in Nat
      BY <3>3, <3>5, CommitTypes
    <3>7. t <= history'[k].committer
      BY <3>1, <3>2, <3>3, <3>4, <3>6
    <3> QED
      BY <3>7
  <2> QED
    BY <1>1, <1>2, <2>1, <2>2, <2>3 DEF SeenInv
<1> QED
  BY <1>3, <1>4, <1>5

(* Gate 2e abstains only on a path it saw settled: clean when it compared  *)
(* the working tree, and with no commit by then inside the window, however *)
(* the user's commits fall between its questions                           *)
(* (AbstentionSawSettledPath).                                             *)
THEOREM AbstentionSettled == Spec => []AbstentionSawSettledPath
<1>1. Init => SeenInv
  BY DEF Init, NoQuery, SeenInv, Ordered, AbstentionSawSettledPath
<1>2. TypeOK /\ TypeOK' /\ SeenInv /\ [Next]_vars => SeenInv'
  <2> SUFFICES ASSUME TypeOK, TypeOK', SeenInv, [Next]_vars
               PROVE  SeenInv'
    OBVIOUS
  <2>a. query \in Query /\ query' \in Query
    BY DEF TypeOK
  <2>b. history \in Seq(Commits) /\ clock \in Nat
    BY DEF TypeOK
  <2>c. ASSUME history' = history, clock' \in {clock, clock + 1}
        PROVE  Ordered'
    BY <2>c, OrderedStays DEF SeenInv
  <2>1. CASE recoverability
    <3>1. UNCHANGED repo /\ clock' = clock
      BY <2>1 DEF recoverability, AskTracked, AskHead, AskRemote, AskIgnored
    <3>2. /\ query'.pc \in {"idle", "head", "remote", "ignored"}
          /\ query'.verdict # "Abstain"
      <4>1. CASE AskTracked
        BY <4>1, <2>a DEF AskTracked, Ask, Continue, Answer, NoQuery, Query
      <4>2. CASE AskHead
        BY <4>2, <2>a DEF AskHead, Ask, Continue, Answer, NoQuery, Query
      <4>3. CASE AskRemote
        BY <4>3 DEF AskRemote, Answer, NoQuery
      <4>4. CASE AskIgnored
        BY <4>4 DEF AskIgnored, Answer, NoQuery
      <4> QED
        BY <4>1, <4>2, <4>3, <4>4, <2>1 DEF recoverability
    <3>3. Ordered'
      BY <2>c, <3>1 DEF repo
    <3> QED
      BY <3>2, <3>3 DEF SeenInv, AbstentionSawSettledPath
  <2>2. CASE AskShallow
    <3>1. /\ UNCHANGED <<history, shallow, clock, aux_user>>
          /\ query'.verdict # "Abstain"
          /\ \/ query'.pc = "idle"
             \/ query'.pc = "status" /\ ~ shallow
      BY <2>2, <2>a DEF AskShallow, Ask, Continue, Answer, NoQuery, Query, repo, aux
    <3> QED
      BY <2>c, <3>1 DEF SeenInv, AbstentionSawSettledPath
  <2>3. CASE AskStatus
    <3>1. /\ UNCHANGED <<history, index, worktree, ignored, shallow>>
          /\ UNCHANGED <<clock, aux_user>>
          /\ query.pc = "status" /\ query'.verdict # "Abstain"
          /\ \/ query'.pc = "idle"
             \/ query'.pc = "log" /\ ~ worktree_differs_from_HEAD
      BY <2>3, <2>a DEF AskStatus, Ask, Continue, Answer, NoQuery, Query, repo
    <3>2. aux_seen'.touched = {history[i].committer : i \in Newest(history)}
      BY <2>3 DEF AskStatus
    <3>3. ~ worktree_differs_from_HEAD => aux_seen'.clean
      BY <2>3 DEF AskStatus, worktree_differs_from_HEAD, is_ignored
    <3>4. \A i \in Newest(history) : history[i].committer \in Nat
      BY <2>b, CommitTypes DEF Newest, Touching
    <3>5. Newest(history)' = Newest(history)
      BY <3>1 DEF Newest, Touching, BlobAt
    <3>6. \A t \in aux_seen'.touched :
             \E i \in Newest(history)' : t <= history'[i].committer
      BY <3>1, <3>2, <3>4, <3>5
    <3> QED
      BY <2>c, <3>1, <3>3, <3>6 DEF SeenInv, AbstentionSawSettledPath
  <2>4. CASE AskLog
    <3>1. /\ UNCHANGED <<history, shallow, clock, aux_user, aux_seen>>
          /\ query.pc = "log" /\ query'.verdict # "Abstain"
          /\ \/ query'.pc = "idle"
             \/ query'.pc = "clock" /\ query'.touched = last_touch
      BY <2>4, <2>a DEF AskLog, Ask, Answer, NoQuery, Query, repo, aux
    <3>2. ASSUME aux_user # "rewound", NEW t \in aux_seen.touched
          PROVE  \E d \in last_touch : t <= d
      <4>1. PICK i \in Newest(history) : t <= history[i].committer
        BY <3>1, <3>2 DEF SeenInv
      <4>2. last_touch = TouchOf(history)
        BY <3>1, <3>2 DEF SeenInv, last_touch
      <4>3. LaterDate(history[i]) \in last_touch
        BY <4>2 DEF TouchOf
      <4>4. /\ t \in Nat /\ history[i].committer \in Nat
            /\ LaterDate(history[i]) \in Nat
            /\ history[i].committer <= LaterDate(history[i])
        BY <2>b, CommitTypes DEF TypeOK, Newest, Touching
      <4>5. t <= LaterDate(history[i])
        BY <4>1, <4>4
      <4> QED
        BY <4>3, <4>5
    <3> QED
      BY <2>c, <3>1, <3>2 DEF SeenInv, AbstentionSawSettledPath
  <2>5. CASE AskClock
    <3>1. /\ UNCHANGED <<history, shallow, clock, aux_user, aux_seen>>
          /\ query.pc = "clock" /\ query'.pc = "idle"
          /\ \/ query'.verdict # "Abstain"
             \/ ~ within_window(query.touched, clock)
      BY <2>5 DEF AskClock, Ask, Answer, NoQuery, repo
    <3>2. ASSUME aux_user # "rewound", NEW t \in aux_seen.touched,
                 ~ within_window(query.touched, clock)
          PROVE  clock - t > Window
      <4>1. PICK d \in query.touched : t <= d
        BY <3>1, <3>2 DEF SeenInv
      <4>2. ~ (clock - d <= Window)
        BY <3>2 DEF within_window
      <4>3. t \in Nat /\ d \in Nat
        BY <2>a DEF TypeOK, Query
      <4> QED
        BY <4>1, <4>2, <4>3, <2>b, GitAssumption
    <3> QED
      BY <2>c, <3>1, <3>2 DEF SeenInv, AbstentionSawSettledPath
  <2>6. CASE Report
    <3>1. query'.pc = "idle" /\ query'.verdict = "none"
      BY <2>6 DEF Report, NoQuery
    <3>2. Ordered'
      BY <2>6, <2>c DEF Report, repo
    <3> QED
      BY <3>1, <3>2 DEF SeenInv, AbstentionSawSettledPath
  <2>7. CASE User
    <3>1. ASSUME NEW rewind \in BOOLEAN, UserStep(rewind), history' = history,
                 rewind \/ shallow' = shallow
          PROVE  SeenInv'
      <4>1. \A i \in Newest(history) : history[i].committer \in Nat
        BY <2>b, CommitTypes DEF Newest, Touching
      <4>2. Newest(history') = Newest(history)
        BY <3>1
      <4>3. \A i \in Newest(history) : \E k \in Newest(history') :
               history[i].committer <= history'[k].committer
        BY <3>1, <4>1, <4>2
      <4>4. clock' = clock
        BY <3>1 DEF UserStep
      <4> QED
        BY <2>c, <3>1, <4>3, <4>4, UserKeepsSeen
    <3>2. ASSUME NEW content \in Content, Edit(content)
          PROVE  SeenInv'
      BY <3>1, <3>2 DEF Edit
    <3>3. CASE Stage
      <4>1. (worktree = NoFile) \in BOOLEAN
        OBVIOUS
      <4> QED
        BY <3>1, <3>3, <4>1 DEF Stage
    <3>4. ASSUME NEW content \in {NoFile, HeadBlob}, Unstage(content)
          PROVE  SeenInv'
      BY <3>1, <3>4 DEF Unstage
    <3>5. ASSUME NEW date \in 0 .. MaxTime, CommitIndex(date)
          PROVE  SeenInv'
      <4> DEFINE c == [blob |-> index, committer |-> clock, author |-> date]
      <4>1. index \in Content /\ date \in Nat
        BY <3>5, GitAssumption DEF TypeOK
      <4>2. c \in Commits /\ c.committer = clock
        BY <4>1, <2>b DEF Commits
      <4>3. /\ history' = Append(history, c)
            /\ shallow' = shallow /\ UserStep(FALSE)
        BY <3>5 DEF CommitIndex
      <4>4. clock' = clock
        BY <4>3 DEF UserStep
      <4>5. Ordered'
        BY <4>1, <4>3, <4>4, OrderedStays DEF SeenInv
      <4>6. \A j \in DOMAIN history : history[j].committer <= c.committer
        BY <4>2 DEF SeenInv, Ordered
      <4> HIDE DEF c
      <4>7. \A i \in Newest(history) : \E k \in Newest(history') :
               history[i].committer <= history'[k].committer
        BY <2>b, <4>2, <4>3, <4>6, NewestOnlyGrows
      <4> QED
        BY <4>3, <4>5, <4>7, UserKeepsSeen
    <3>6. ASSUME NEW hard \in BOOLEAN, Reset(hard)
          PROVE  SeenInv'
      <4>1. /\ history # <<>> /\ history' = Front(history)
            /\ UserStep(TRUE)
        BY <3>6 DEF Reset
      <4>2. clock' = clock
        BY <4>1 DEF UserStep
      <4>3. Ordered'
        BY <4>1, <4>2, OrderedStays DEF SeenInv
      <4> QED
        BY <4>1, <4>3, UserKeepsSeen
    <3>7. CASE Push
      <4>1. remote.more \in BOOLEAN
        BY DEF TypeOK, Remote
      <4> QED
        BY <3>1, <3>7, <4>1 DEF Push
    <3>8. CASE ChangeIgnore
      BY <3>1, <3>8 DEF ChangeIgnore
    <3>9. CASE ChangeDepth
      <4>1. UserStep(~ shallow) /\ shallow' = ~ shallow /\ history' = history
        BY <3>9 DEF ChangeDepth
      <4>2. CASE shallow
        <5>1. clock' = clock
          BY <4>1 DEF UserStep
        <5>2. \A i \in Newest(history) : history[i].committer \in Nat
          BY <2>b, CommitTypes DEF Newest, Touching
        <5>3. \A i \in Newest(history) : \E k \in Newest(history') :
                 history[i].committer <= history'[k].committer
          BY <4>1, <5>2
        <5>4. UserStep(FALSE)
          BY <4>1, <4>2 DEF UserStep
        <5> QED
          BY <2>c, <4>1, <4>2, <5>1, <5>3, <5>4, UserKeepsSeen
      <4>3. CASE ~ shallow
        <5>1. UserStep(TRUE)
          BY <4>1, <4>3 DEF UserStep
        <5> QED
          BY <3>1, <4>1, <5>1
      <4> QED
        BY <4>2, <4>3
    <3> QED
      BY <2>7, <3>2, <3>3, <3>4, <3>5, <3>6, <3>7, <3>8, <3>9 DEF User
  <2>8. CASE Tick \/ UNCHANGED vars
    <3>1. /\ UNCHANGED <<shallow, history>>
          /\ UNCHANGED <<query, aux_seen, aux_user>>
          /\ clock' \in {clock, clock + 1}
      BY <2>8 DEF Tick, vars, repo, aux
    <3> QED
      BY <2>c, <3>1, SeenWithoutUser
  <2> QED
    BY <2>1, <2>2, <2>3, <2>4, <2>5, <2>6, <2>7, <2>8 DEF Next, judge
<1>3. SeenInv => AbstentionSawSettledPath
  BY DEF SeenInv
<1> QED
  BY <1>1, <1>2, <1>3, TypeCorrect, PTL DEF Spec
=============================================================================
