------------------------------ MODULE GitOracle ------------------------------
(***************************************************************************)
(* Git as an oracle about one candidate path: how recoverable it is        *)
(* (judged-core/src/git.rs, Repo::recoverability) and whether it changed   *)
(* recently (judged-core/src/veto/recency.rs, RecencyVeto::judge).         *)
(*                                                                         *)
(* Neither keeps state.  Each asks git several questions, one process      *)
(* after another, about a repository on which a user goes on working, and  *)
(* that is what the model keeps: every question is a step of its own.      *)
(*                                                                         *)
(* The branch is the sequence of its commits, of which the path's content  *)
(* and the two dates matter.  Of the remote-tracking branch the model      *)
(* keeps how many of these commits it has, whether it has others, and      *)
(* whether the path is in any of them.                                     *)
(***************************************************************************)
EXTENDS Integers, Sequences, SequencesExt

CONSTANTS
  Blobs,        \* contents of the path
  NoFile,       \* no such path
  Window,       \* the window of Gate 2e
  MaxTime,      \* bound on the clock and the dates
  MaxCommits    \* bound on the length of the branch

ASSUME GitAssumption ==
  /\ NoFile \notin Blobs
  /\ Window \in Nat
  /\ MaxTime \in Nat
  /\ MaxCommits \in Nat

VARIABLES
  history,      \* the commits of HEAD, oldest first
  index,        \* the path in the index
  worktree,     \* the path on disk
  ignored,      \* the ignore rules match the path
  remote,       \* the remote-tracking branch
  shallow,      \* the clone is shallow or partial
  clock,
  query,        \* the question in progress, or its answer
  (*************************************************************************)
  (* History, read by the properties only.                                 *)
  (*************************************************************************)
  aux_seen,     \* how the path was when the query compared the worktree
  aux_best,     \* the best rung the path was on since the query began
  aux_user,     \* what the user did since the query began
  aux_cleared   \* Gate 2e abstained, and the user did nothing since

repo == <<history, index, worktree, ignored, remote, shallow>>
aux == <<aux_seen, aux_best, aux_user, aux_cleared>>
vars == <<repo, clock, query, aux>>

Content == Blobs \cup {NoFile}
Commits == [blob : Content, committer : Nat, author : Nat]
Remote == [shared : Nat, more : BOOLEAN, path : BOOLEAN]

Classes == {"TrackedPushed", "TrackedUnpushed", "Untracked", "Ignored"}
Vetoes == {"RecentCommit", "UncommittedChange", "NoCommitTimestamp",
           "ShallowHistory", "EvidenceUnavailable"}
Answers == Classes \cup Vetoes \cup {"Abstain", "Error", "none"}

-----------------------------------------------------------------------------
(* What git answers.                                                       *)

BlobAt(h, i) == IF i = 0 THEN NoFile ELSE h[i].blob

HeadBlob == BlobAt(history, Len(history))

(* The newest commit that touches the path, if there is one.               *)
Touching(h) == {i \in DOMAIN h : h[i].blob # BlobAt(h, i - 1)}
Newest(h) == {i \in Touching(h) : \A j \in Touching(h) : j <= i}

LaterDate(commit) ==
  IF commit.author > commit.committer THEN commit.author ELSE commit.committer

TouchOf(h) == {LaterDate(h[i]) : i \in Newest(h)}

(* git ls-files *)
is_tracked == index # NoFile

(* git check-ignore, to which nothing in the index is ignored *)
is_ignored == ignored /\ index = NoFile

(* Mutant: some commit is published.                                       *)
remote_exists == remote.shared > 0

(* git for-each-ref --contains HEAD refs/remotes/ *)
head_is_on_a_remote == history # <<>> /\ remote.shared = Len(history)

(* git status --untracked-files=all: staged, modified or deleted, or there *)
(* and neither tracked nor ignored.                                        *)
worktree_differs_from_HEAD ==
  \/ index # HeadBlob
  \/ index # NoFile /\ worktree # index
  \/ index = NoFile /\ worktree # NoFile /\ ~ ignored

(* Mutant: the date the patch was written.                                 *)
author_date == {history[i].author : i \in Newest(history)}

(* Mutant: no commit reads as a date before all others.                    *)
touch_or_ancient ==
  IF TouchOf(history) = {} THEN {-1} ELSE TouchOf(history)

(* git log -1.  To a shallow clone HEAD is the commit that adds the path.  *)
last_touch ==
  IF ~ shallow THEN TouchOf(history)
  ELSE IF HeadBlob = NoFile THEN {} ELSE {LaterDate(Last(history))}

-----------------------------------------------------------------------------
(* Queries.  Any of them may fail, because git cannot be run or is killed. *)

Query ==
  [pc : {"idle", "head", "remote", "ignored", "status", "log", "clock"},
   touched : SUBSET Nat, verdict : Answers]

NoQuery == [pc |-> "idle", touched |-> {}, verdict |-> "none"]
NotSeen == [clean |-> TRUE, touched |-> {}]

(* What the path has right now, which is what the classes are about:       *)
(* nothing, an entry in the index, or that and a published HEAD.           *)
Rung ==
  IF index = NoFile THEN 0
  ELSE IF history = <<>> \/ remote.shared < Len(history) THEN 1
  ELSE 2

Ask(pc) == query.pc = pc /\ query.verdict = "none"

Continue(pc) == query' = [query EXCEPT !.pc = pc]

Answer(verdict) == query' = [NoQuery EXCEPT !.verdict = verdict]

(* The caller has taken the answer.                                        *)
Report ==
  /\ query.verdict # "none"
  /\ query' = NoQuery
  /\ aux_seen' = NotSeen
  /\ aux_best' = 0
  /\ aux_user' = "still"
  /\ UNCHANGED <<repo, clock, aux_cleared>>

(* recoverability: index membership, then HEAD for tracked paths and the   *)
(* ignore rules for the others.                                            *)
AskTracked ==
  /\ Ask("idle")
  /\ \/ Continue(IF is_tracked THEN "head" ELSE "ignored")
     \/ Answer("Error")
  /\ aux_best' = Rung
  /\ UNCHANGED <<repo, clock, aux_seen, aux_user, aux_cleared>>

(* head_exists takes every failure of git rev-parse for an unborn HEAD.    *)
AskHead ==
  /\ Ask("head")
  /\ \/ history # <<>> /\ Continue("remote")
     \/ Answer("TrackedUnpushed")
     \/ Answer("Error")
  /\ UNCHANGED <<repo, clock, aux>>

AskRemote ==
  /\ Ask("remote")
  /\ \/ Answer(IF head_is_on_a_remote THEN "TrackedPushed" ELSE "TrackedUnpushed")
     \/ Answer("Error")
  /\ UNCHANGED <<repo, clock, aux>>

AskIgnored ==
  /\ Ask("ignored")
  /\ \/ Answer(IF is_ignored THEN "Ignored" ELSE "Untracked")
     \/ Answer("Error")
  /\ UNCHANGED <<repo, clock, aux>>

(* judge: an abstention only comes out of four questions answered.         *)
AskShallow ==
  /\ Ask("idle")
  /\ \/ IF shallow THEN Answer("ShallowHistory") ELSE Continue("status")
     \/ Answer("EvidenceUnavailable")
  /\ UNCHANGED <<repo, clock, aux>>

AskStatus ==
  /\ Ask("status")
  /\ \/ IF worktree_differs_from_HEAD THEN Answer("UncommittedChange")
        ELSE Continue("log")
     \/ Answer("EvidenceUnavailable")
  /\ aux_seen' = [clean   |-> \/ worktree = HeadBlob
                              \/ is_ignored /\ HeadBlob = NoFile,
                  touched |-> {history[i].committer : i \in Newest(history)}]
  /\ UNCHANGED <<repo, clock, aux_best, aux_user, aux_cleared>>

(* git log fails when HEAD is unborn.                                      *)
AskLog ==
  /\ Ask("log")
  /\ \/ /\ history # <<>>
        /\ IF last_touch = {} THEN Answer("NoCommitTimestamp")
           ELSE query' = [query EXCEPT !.pc = "clock", !.touched = last_touch]
     \/ Answer("EvidenceUnavailable")
  /\ UNCHANGED <<repo, clock, aux>>

(* Mutant: the distance of the dates, whichever comes first.               *)
within_distance(touched, now) ==
  \E t \in touched : now - t <= Window /\ t - now <= Window

(* The age is signed: a commit from the future is inside every window.     *)
within_window(touched, now) == \E t \in touched : now - t <= Window

AskClock ==
  /\ Ask("clock")
  /\ \/ /\ within_window(query.touched, clock)
        /\ Answer("RecentCommit")
        /\ UNCHANGED aux_cleared
     \/ /\ ~ within_window(query.touched, clock)
        /\ Answer("Abstain")
        /\ aux_cleared' = (aux_user = "still")
     \/ /\ Answer("EvidenceUnavailable")
        /\ UNCHANGED aux_cleared
  /\ UNCHANGED <<repo, clock, aux_seen, aux_best, aux_user>>

-----------------------------------------------------------------------------
(* The user.  A step that takes back what the index, the branch or the     *)
(* remote held is a rewind.                                                *)

UserStep(rewind) ==
  /\ query.verdict = "none"
  /\ aux_user' = IF query.pc = "idle" THEN "still"
                 ELSE IF rewind \/ aux_user = "rewound" THEN "rewound"
                 ELSE "forward"
  /\ aux_best' = IF query.pc # "idle" /\ Rung' > aux_best THEN Rung' ELSE aux_best
  /\ aux_cleared' = FALSE
  /\ UNCHANGED <<clock, query, aux_seen>>

Edit(content) ==
  /\ worktree' = content
  /\ UNCHANGED <<history, index, ignored, remote, shallow>>
  /\ UserStep(FALSE)

(* git add --all, or -f for an ignored path                                *)
Stage ==
  /\ index' = worktree
  /\ UNCHANGED <<history, worktree, ignored, remote, shallow>>
  /\ UserStep(worktree = NoFile)

(* git rm --cached, git restore --staged                                   *)
Unstage(content) ==
  /\ index' = content
  /\ UNCHANGED <<history, worktree, ignored, remote, shallow>>
  /\ UserStep(TRUE)

(* git commit; am, rebase and --date choose the author date.               *)
CommitIndex(date) ==
  /\ Len(history) < MaxCommits
  /\ history' = Append(history, [blob |-> index, committer |-> clock,
                                 author |-> date])
  /\ UNCHANGED <<index, worktree, ignored, remote, shallow>>
  /\ UserStep(FALSE)

(* git reset HEAD^, --soft or --hard                                       *)
Reset(hard) ==
  /\ history # <<>>
  /\ history' = Front(history)
  /\ IF hard THEN /\ index' = HeadBlob'
                  /\ worktree' = HeadBlob'
             ELSE UNCHANGED <<index, worktree>>
  /\ remote' = IF remote.shared < Len(history) THEN remote
               ELSE [remote EXCEPT !.shared = Len(history'), !.more = TRUE]
  /\ UNCHANGED <<ignored, shallow>>
  /\ UserStep(TRUE)

(* git push, with --force when the remote has something else               *)
Push ==
  /\ remote' = [shared |-> Len(history), more |-> FALSE,
                path |-> \E i \in DOMAIN history : history[i].blob # NoFile]
  /\ UNCHANGED <<history, index, worktree, ignored, shallow>>
  /\ UserStep(remote.more)

ChangeIgnore ==
  /\ ignored' = ~ ignored
  /\ UNCHANGED <<history, index, worktree, remote, shallow>>
  /\ UserStep(FALSE)

(* git fetch --depth, --unshallow                                          *)
ChangeDepth ==
  /\ shallow' = ~ shallow
  /\ UNCHANGED <<history, index, worktree, ignored, remote>>
  /\ UserStep(~ shallow)

Tick ==
  /\ clock < MaxTime
  /\ clock' = clock + 1
  /\ UNCHANGED <<repo, query, aux>>

-----------------------------------------------------------------------------
Init ==
  /\ history = <<>>
  /\ index = NoFile
  /\ worktree = NoFile
  /\ ignored = FALSE
  /\ remote = [shared |-> 0, more |-> FALSE, path |-> FALSE]
  /\ shallow = FALSE
  /\ clock = 0
  /\ query = NoQuery
  /\ aux_seen = NotSeen
  /\ aux_best = 0
  /\ aux_user = "still"
  /\ aux_cleared = FALSE

recoverability == AskTracked \/ AskHead \/ AskRemote \/ AskIgnored

judge == AskShallow \/ AskStatus \/ AskLog \/ AskClock

User ==
  \/ \E content \in Content : Edit(content)
  \/ Stage
  \/ \E content \in {NoFile, HeadBlob} : Unstage(content)
  \/ \E date \in 0 .. MaxTime : CommitIndex(date)
  \/ \E hard \in BOOLEAN : Reset(hard)
  \/ Push
  \/ ChangeIgnore
  \/ ChangeDepth

Next == recoverability \/ judge \/ Report \/ User \/ Tick

Spec == Init /\ [][Next]_vars

-----------------------------------------------------------------------------
(* Properties.                                                             *)

(* The types of the repository, of the query and of its history.           *)
TypeOK ==
  /\ history \in Seq(Commits) /\ remote \in Remote
  /\ index \in Content /\ worktree \in Content
  /\ ignored \in BOOLEAN /\ shallow \in BOOLEAN
  /\ clock \in Nat
  /\ query \in Query
  /\ aux_seen \in [clean : BOOLEAN, touched : SUBSET Nat]
  /\ aux_best \in 0 .. 2
  /\ aux_user \in {"still", "forward", "rewound"}
  /\ aux_cleared \in BOOLEAN

(* Gate 2e only abstains on a path that was settled: when it compared the  *)
(* working tree nothing was uncommitted, and no commit there was by then   *)
(* is within the window now, whatever the user edited, committed or pushed *)
(* between its questions.                                                  *)
AbstentionSawSettledPath ==
  query.verdict = "Abstain" /\ aux_user # "rewound" =>
    /\ aux_seen.clean
    /\ \A t \in aux_seen.touched : clock - t > Window

(* The class is at most the best the path had at some moment of the query: *)
(* a user who edits, commits and pushes meanwhile is never told that git   *)
(* can give back more than it ever could.                                  *)
NeverBetterThanItWas ==
  query.verdict \in Classes /\ aux_user # "rewound" =>
    \/ query.verdict \in {"Untracked", "Ignored"}
    \/ query.verdict = "TrackedUnpushed" /\ aux_best >= 1
    \/ query.verdict = "TrackedPushed" /\ aux_best = 2

(* A path that was cleared stays cleared while nobody touches it: time     *)
(* alone never brings a veto back.                                         *)
AbstentionIsStable ==
  aux_cleared => query.verdict \in Classes \cup
                   {"Abstain", "EvidenceUnavailable", "Error", "none"}

-----------------------------------------------------------------------------
(* Inductive strengthenings.  While the class is being asked for, aux_best *)
(* keeps up with the path, and a tracked path stays tracked.               *)
ClassInv ==
  /\ query.pc \in {"head", "remote", "ignored"} => aux_best >= Rung
  /\ query.pc \in {"head", "remote"} /\ aux_user # "rewound" => is_tracked
  /\ NeverBetterThanItWas

(* What it takes to be cleared, and what the questions of a query during   *)
(* which the user did nothing have already established.                    *)
Settled ==
  /\ ~ shallow
  /\ ~ worktree_differs_from_HEAD
  /\ history # <<>>
  /\ last_touch # {}
  /\ \A t \in last_touch : clock - t > Window

StableInv ==
  /\ aux_cleared => Settled /\ aux_user = "still"
  /\ aux_user = "still" =>
       /\ query.pc \in {"status", "log", "clock"} => ~ shallow
       /\ query.pc \in {"log", "clock"} => ~ worktree_differs_from_HEAD
       /\ query.pc = "clock" => /\ history # <<>>
                                /\ query.touched = last_touch
                                /\ last_touch # {}
  /\ AbstentionIsStable

(* Commits are dated in order and not after now; what was seen is covered  *)
(* by the newest commit, and then by what git log reported.                *)
Ordered ==
  /\ \A i \in DOMAIN history : history[i].committer <= clock
  /\ \A i, j \in DOMAIN history :
        i <= j => history[i].committer <= history[j].committer

SeenInv ==
  /\ Ordered
  /\ aux_user # "rewound" =>
       /\ query.pc \in {"status", "log", "clock"} => ~ shallow
       /\ query.pc \in {"log", "clock"} => aux_seen.clean
       /\ query.pc = "log" =>
            \A t \in aux_seen.touched :
               \E i \in Newest(history) : t <= history[i].committer
       /\ query.pc = "clock" =>
            \A t \in aux_seen.touched : \E d \in query.touched : t <= d
  /\ AbstentionSawSettledPath

-----------------------------------------------------------------------------
(* Claims of the documentation that the code does not keep.                *)

(* TrackedPushed: "In the index and present on a remote branch.  Fully     *)
(* recoverable."                                                           *)
PushedIsOnTheRemote ==
  query.verdict = "TrackedPushed" /\ aux_user = "still" =>
    remote.path

(* UncommittedChange, "the working tree differs from HEAD at this path, or *)
(* git has never seen this content at all": such a path is vetoed.         *)
AbstainsOnlyOnHead ==
  query.verdict = "Abstain" /\ aux_user = "still" => worktree = HeadBlob
=============================================================================
