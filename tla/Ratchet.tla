------------------------------- MODULE Ratchet -------------------------------
(***************************************************************************)
(* The ratchet: the committed baseline file, the processes that check      *)
(* analyzer runs against it or rewrite it (judged ratchet [--update]), the *)
(* humans who review and edit it, the files its lines point at, and time.  *)
(* Sources: judged-ratchet/src/{baseline,diff,rot}.rs and                  *)
(* judged-cli/src/ratchet_cmd.rs.                                          *)
(*                                                                         *)
(* The file is the sequence of its entries plus one bit: "torn" says that  *)
(* some line does not parse.  A missing file loads as an empty one and is  *)
(* not told apart from it.  Of an entry the model keeps the join key and   *)
(* the deadline; first_seen, justification and symbol are carried by the   *)
(* same statement as the deadline, and the uri is a function of the join   *)
(* key, which hashes it.                                                   *)
(*                                                                         *)
(* A process is one run of the binary.  Its file operations are separate   *)
(* steps: it loads the baseline, reads the logs and decides, and for       *)
(* --update truncates the file and writes it again (std::fs::write is not  *)
(* atomic); the write may fail half way, and the process may be killed.    *)
(***************************************************************************)
EXTENDS RunHealth, Sequences, SequencesExt

CONSTANTS
  Procs,        \* processes that run the binary, one invocation after another
  Tools,        \* adapters whose logs are passed as --sarif
  Runs,         \* the runs a log may hold, a subset of Run
  Expected,     \* --expected-targets; 0 when the operator gave none
  Uris,         \* files that findings point at
  NoUri,        \* the uri of a project-level finding: ""
  UriOf,        \* the file each fingerprint is about
  NoDate,       \* expires: None
  BadDate,      \* an expires no one can evaluate, such as "next quarter"
  MaxTime,      \* bound on the clock
  MaxLines,     \* bound on the lines a human merge may leave
  Serial        \* TRUE: invocations and edits never overlap

ASSUME RatchetAssumption ==
  /\ IsFiniteSet(Fingerprints)
  /\ Runs \subseteq Run
  /\ Expected \in Nat
  /\ MaxTime \in Nat
  /\ MaxLines \in Nat
  /\ Serial \in BOOLEAN
  /\ Tools # {}
  /\ UriOf \in [Fingerprints -> Uris \cup {NoUri}]
  /\ NoUri \notin Uris
  /\ NoDate \notin Nat
  /\ BadDate \notin Nat
  /\ NoDate # BadDate

VARIABLES
  file,         \* the baseline on disk
  tree,         \* the uris that exist in the working tree
  clock,        \* now_rfc3339()
  proc,         \* what each process holds
  (*************************************************************************)
  (* History, read by the properties only.                                 *)
  (*************************************************************************)
  aux_deadline, \* the deadline a human last gave each fingerprint
  aux_dropped,  \* how a rewrite last removed a fingerprint it had loaded
  aux_cut,      \* the lines a save was writing when it was interrupted
  aux_vouched   \* fingerprints some run that did not crash has reported

env == <<tree, clock>>
aux == <<aux_deadline, aux_dropped, aux_cut, aux_vouched>>
vars == <<file, tree, clock, proc, aux>>

Date == Nat \cup {NoDate, BadDate}
Line == [fingerprint : Fingerprints, expires : Date]
File == [lines : Seq(Line), torn : BOOLEAN]

FingerprintsOf(lines) == {lines[i].fingerprint : i \in DOMAIN lines}

(* The first line with this fingerprint, the one Iterator::find returns.   *)
FirstIndex(lines, f) ==
  CHOOSE i \in DOMAIN lines :
     /\ lines[i].fingerprint = f
     /\ \A j \in DOMAIN lines : lines[j].fingerprint = f => i <= j

(* Mutant: a swapped field, the uri of the line for its deadline.          *)
UriForExpires(lines, f) ==
  IF f \in FingerprintsOf(lines) THEN UriOf[f] ELSE NoDate

ExpiresOf(lines, f) ==
  IF f \in FingerprintsOf(lines)
  THEN lines[FirstIndex(lines, f)].expires
  ELSE NoDate

-----------------------------------------------------------------------------
(* Rot and the diff.                                                       *)

(* Mutant: a date that cannot be evaluated never passes.                   *)
has_expired_if_dated(expires, now) == expires \in Nat /\ expires <= now

(* A date that cannot be evaluated counts as passed.                       *)
has_expired(expires, now) ==
  \/ expires = BadDate
  \/ expires \in Nat /\ expires <= now

referent_is_gone(f) == UriOf[f] # NoUri /\ UriOf[f] \notin tree

(* One reason at most per line, the most specific first.                   *)
detect_rot(line, results) ==
  IF referent_is_gone(line.fingerprint) THEN "ReferentGone"
  ELSE IF line.expires # NoDate /\ has_expired(line.expires, clock)
       THEN "Expired"
  ELSE IF line.fingerprint \notin results THEN "NeverMatched"
  ELSE "none"

is_rotten(lines, results) ==
  \E i \in DOMAIN lines : detect_rot(lines[i], results) # "none"

(* Mutant: an empty baseline is taken for a repository without one.        *)
new_findings_once_baselined(lines, results) ==
  IF lines = <<>> THEN {} ELSE results \ FingerprintsOf(lines)

new_findings(lines, results) == results \ FingerprintsOf(lines)

(* The order is the design: health, then rot, then new findings.  A        *)
(* degraded run still gets its verdict.                                    *)
ratchet(lines, run, expected) ==
  IF assess_run_health(run, expected) = "Failed" THEN "RefusedByMerge"
  ELSE IF is_rotten(lines, run.results) THEN "Rot"
  ELSE IF new_findings(lines, run.results) # {} THEN "NewFindings"
  ELSE "Clean"

Verdicts == {"none", "Clean", "NewFindings", "Rot", "RefusedByMerge",
             "Refused", "Updated", "Killed"}

exit_code(verdict) ==
  CASE verdict \in {"Clean", "Updated"}          -> 0
    [] verdict \in {"NewFindings", "Rot"}        -> 1
    [] verdict \in {"RefusedByMerge", "Refused"} -> 2
    [] OTHER                                     -> 9   \* no exit of its own

(* Mutant: the fresh entries of from_results, as they are.                 *)
rewrite_fresh(lines, order) ==
  [i \in DOMAIN order |-> [fingerprint |-> order[i], expires |-> NoDate]]

(* --update: one line per finding of the run, in the order the run gave    *)
(* them, carrying what the first line with its fingerprint said.           *)
rewrite(lines, order) ==
  [i \in DOMAIN order |->
     [fingerprint |-> order[i], expires |-> ExpiresOf(lines, order[i])]]

-----------------------------------------------------------------------------
(* Processes.                                                              *)

Idle(verdict, crashed) ==
  [pc |-> "idle", update |-> FALSE, base |-> <<>>, lines |-> <<>>,
   healthy |-> FALSE, verdict |-> verdict, crashed |-> crashed]

ProcState ==
  [pc : {"idle", "loaded", "saving", "truncated"}, update : BOOLEAN,
   base : Seq(Line), lines : Seq(Line), healthy : BOOLEAN,
   verdict : Verdicts, crashed : BOOLEAN]

(* Nothing else is running, when invocations are serialised.               *)
Alone == Serial => \A q \in Procs : proc[q].pc = "idle"

Exit(p, verdict, crashed) ==
  proc' = [proc EXCEPT ![p] = Idle(verdict, crashed)]

(* Baseline::load.  A malformed line refuses; nothing else does.           *)
Load(p, update) ==
  /\ proc[p].pc = "idle"
  /\ Alone
  /\ IF file.torn
     THEN Exit(p, "Refused", FALSE)
     ELSE proc' = [proc EXCEPT ![p] =
                     [Idle("none", FALSE) EXCEPT !.pc = "loaded",
                                                 !.update = update,
                                                 !.base = file.lines]]
  /\ UNCHANGED <<file, env, aux>>

(* load_runs: a log that cannot be read or parsed, or holds no run.        *)
SarifUnreadable(p) ==
  /\ proc[p].pc = "loaded"
  /\ Exit(p, "Refused", FALSE)
  /\ UNCHANGED <<file, env, aux>>

Crashed(runs) == \E t \in Tools : runs[t].invocations # {TRUE}

ExpectedTotal == Expected * Cardinality(Tools)

(* Mutant: the health of the merged run stands for that of the runs.       *)
RefusalsOfMerged(runs) ==
  IF assess_run_health(merge(runs, Tools), ExpectedTotal) = "Failed"
  THEN Tools ELSE {}

(* Gate 1 of execute: every run on its own, before they are merged.        *)
Refusals(runs) ==
  {t \in Tools : assess_run_health(runs[t], Expected) = "Failed"}

AllHealthy(runs) ==
  \A t \in Tools : assess_run_health(runs[t], Expected) = "Healthy"

RefuseRuns(p, runs) ==
  /\ proc[p].pc = "loaded"
  /\ Refusals(runs) # {}
  /\ Exit(p, "Refused", Crashed(runs))
  /\ UNCHANGED <<file, env, aux>>

Check(p, runs) ==
  /\ proc[p].pc = "loaded"
  /\ ~ proc[p].update
  /\ Refusals(runs) = {}
  /\ Exit(p, ratchet(proc[p].base, merge(runs, Tools), ExpectedTotal),
          Crashed(runs))
  /\ UNCHANGED <<file, env, aux>>

(* update() up to the save.  The order of the results is the tools'.       *)
Rewrite(p, runs) ==
  /\ proc[p].pc = "loaded"
  /\ proc[p].update
  /\ Refusals(runs) = {}
  /\ \E order \in SetToSeqs(merge(runs, Tools).results) :
        proc' = [proc EXCEPT ![p].pc = "saving",
                             ![p].lines = rewrite(proc[p].base, order),
                             ![p].healthy = AllHealthy(runs),
                             ![p].crashed = Crashed(runs)]
  /\ aux_vouched' = aux_vouched \cup
       IF Crashed(runs) THEN {} ELSE UNION {runs[t].results : t \in Tools}
  /\ UNCHANGED <<file, env, aux_deadline, aux_dropped, aux_cut>>

-----------------------------------------------------------------------------
(* Baseline::save: create the directory, truncate, write.                  *)

(* The directory or the file could not be opened for writing.              *)
SaveRefused(p) ==
  /\ proc[p].pc = "saving"
  /\ Exit(p, "Refused", proc[p].crashed)
  /\ UNCHANGED <<file, env, aux>>

Truncate(p) ==
  /\ proc[p].pc = "saving"
  /\ file' = [lines |-> <<>>, torn |-> FALSE]
  /\ proc' = [proc EXCEPT ![p].pc = "truncated"]
  /\ aux_cut' = <<>>
  /\ UNCHANGED <<env, aux_deadline, aux_dropped, aux_vouched>>

(* The written lines and what is left behind them, with or without a line  *)
(* cut at the seam.                                                        *)
Seams(lines, partial) ==
  {[lines |-> lines \o SubSeq(file.lines, s[1], Len(file.lines)),
    torn  |-> s[2]] :
      s \in (2 .. Len(file.lines) + 1) \X {partial, TRUE}}

(* What the file may hold once "lines", and if "partial" a piece of one    *)
(* more, were written at its start.  On the file this process truncated    *)
(* that is all.  If another process wrote meanwhile, what lies beyond the  *)
(* written bytes stays, and the seam may fall inside a line.               *)
Overwrite(lines, partial) ==
  IF file.lines = <<>>
  THEN {[lines |-> lines, torn |-> partial]}
  ELSE IF lines = <<>> /\ ~ partial THEN {file}
  ELSE Seams(lines, partial)

(* The fingerprints this process loaded that the file it leaves no longer  *)
(* carries: "pruned" by an update all of whose runs were healthy, "missed" *)
(* by one with a degraded run, "cut" by a save that was interrupted.       *)
Dropped(p, lines, how) ==
  [f \in Fingerprints |->
     IF f \in FingerprintsOf(proc[p].base) \ FingerprintsOf(lines)
     THEN how ELSE aux_dropped[f]]

WriteAll(p) ==
  /\ proc[p].pc = "truncated"
  /\ file' \in Overwrite(proc[p].lines, FALSE)
  /\ Exit(p, "Updated", proc[p].crashed)
  /\ aux_dropped' = Dropped(p, file'.lines, IF proc[p].healthy
                                            THEN "pruned" ELSE "missed")
  /\ aux_cut' = <<>>
  /\ UNCHANGED <<env, aux_deadline, aux_vouched>>

(* The file after a prefix of the bytes reached it.                        *)
PartialWrite(p) ==
  /\ \E n \in 0 .. Len(proc[p].lines), partial \in BOOLEAN :
        /\ partial => n < Len(proc[p].lines)
        /\ file' \in Overwrite(SubSeq(proc[p].lines, 1, n), partial)
  /\ aux_dropped' = Dropped(p, file'.lines, "cut")
  /\ aux_cut' = proc[p].lines
  /\ UNCHANGED <<env, aux_deadline, aux_vouched>>

(* write_all returned an error: the update exits through the refusal.      *)
WriteFails(p) ==
  /\ proc[p].pc = "truncated"
  /\ proc[p].lines # <<>>
  /\ PartialWrite(p)
  /\ Exit(p, "Refused", proc[p].crashed)

(* The process is killed.  Only a kill between truncation and the end of   *)
(* the write leaves a trace.                                               *)
Kill(p) ==
  /\ proc[p].pc # "idle"
  /\ IF proc[p].pc = "truncated"
     THEN PartialWrite(p)
     ELSE UNCHANGED <<file, env, aux>>
  /\ Exit(p, "Killed", proc[p].crashed)

-----------------------------------------------------------------------------
(* Humans, who review and merge the file, and the rest of the world.       *)

(* An edit of the file that concerns the lines of fingerprint f.           *)
HumanEdit(f, lines) ==
  /\ Alone
  /\ ~ file.torn
  /\ file' = [file EXCEPT !.lines = lines]
  /\ aux_deadline' = [aux_deadline EXCEPT ![f] = ExpiresOf(lines, f)]
  /\ aux_dropped' = [aux_dropped EXCEPT ![f] = "no"]
  /\ aux_cut' = <<>>
  /\ UNCHANGED <<env, proc, aux_vouched>>

SetDeadline(i, d) ==
  /\ i \in DOMAIN file.lines
  /\ file.lines[i].expires # d
  /\ HumanEdit(file.lines[i].fingerprint,
               [file.lines EXCEPT ![i].expires = d])

DeleteLine(i) ==
  /\ i \in DOMAIN file.lines
  /\ HumanEdit(file.lines[i].fingerprint, RemoveAt(file.lines, i))

(* A merge of two branches keeps both their lines for one finding.         *)
MergeLine(i, d) ==
  /\ i \in DOMAIN file.lines
  /\ Len(file.lines) < MaxLines
  /\ HumanEdit(file.lines[i].fingerprint,
               Append(file.lines, [file.lines[i] EXCEPT !.expires = d]))

(* Conflict markers come and go.                                           *)
Mangle ==
  /\ Alone
  /\ file' = [file EXCEPT !.torn = ~ file.torn]
  /\ aux_cut' = <<>>
  /\ UNCHANGED <<env, proc, aux_deadline, aux_dropped, aux_vouched>>

TouchTree(u) ==
  /\ tree' = IF u \in tree THEN tree \ {u} ELSE tree \cup {u}
  /\ UNCHANGED <<file, clock, proc, aux>>

Tick ==
  /\ clock < MaxTime
  /\ clock' = clock + 1
  /\ UNCHANGED <<file, tree, proc, aux>>

-----------------------------------------------------------------------------
Deadlines == 1 .. MaxTime \cup {BadDate}

Init ==
  /\ file = [lines |-> <<>>, torn |-> FALSE]
  /\ tree = Uris
  /\ clock = 0
  /\ proc = [p \in Procs |-> Idle("none", FALSE)]
  /\ aux_deadline = [f \in Fingerprints |-> NoDate]
  /\ aux_dropped = [f \in Fingerprints |-> "no"]
  /\ aux_cut = <<>>
  /\ aux_vouched = {}

Judged(p) ==
  \/ \E update \in BOOLEAN : Load(p, update)
  \/ SarifUnreadable(p)
  \/ \E runs \in [Tools -> Runs] :
        RefuseRuns(p, runs) \/ Check(p, runs) \/ Rewrite(p, runs)
  \/ SaveRefused(p)
  \/ Truncate(p)
  \/ WriteAll(p)
  \/ WriteFails(p)
  \/ Kill(p)

Human ==
  \/ \E i \in DOMAIN file.lines :
        \/ \E d \in Deadlines : SetDeadline(i, d)
        \/ DeleteLine(i)
        \/ \E d \in Deadlines \cup {NoDate} : MergeLine(i, d)
  \/ Mangle

World ==
  \/ \E u \in Uris : TouchTree(u)
  \/ Tick

Next == (\E p \in Procs : Judged(p)) \/ Human \/ World

Spec == Init /\ [][Next]_vars

-----------------------------------------------------------------------------
(* Properties.                                                             *)

(* The types of the file, of what the processes hold and of the history.   *)
TypeOK ==
  /\ file \in File
  /\ tree \subseteq Uris
  /\ clock \in Nat
  /\ proc \in [Procs -> ProcState]
  /\ aux_deadline \in [Fingerprints -> Date]
  /\ aux_dropped \in [Fingerprints -> {"no", "pruned", "missed", "cut"}]
  /\ aux_cut \in Seq(Line)
  /\ aux_vouched \subseteq Fingerprints

(* An invocation that read the log of an analyzer that died, or that never *)
(* said it succeeded, ends as a refusal: no verdict comes out of it and it *)
(* never gets to write the baseline, however healthy the other logs are    *)
(* (Gate 1 of execute runs before the merge and before --update).          *)
CrashedRunJudgesNothing ==
  \A p \in Procs : proc[p].crashed => proc[p].pc = "idle" /\ proc[p].verdict = "Refused"

(* Whatever overlaps, a fingerprint only ever gets onto the baseline after *)
(* a run that did not crash reported it: torn, truncated and overlapping   *)
(* writes lose accepted findings but never invent an amnesty.              *)
AmnestyIsVouched ==
  /\ FingerprintsOf(file.lines) \subseteq aux_vouched
  /\ \A p \in Procs : FingerprintsOf(proc[p].base) \subseteq aux_vouched

(* The verdict computed on the merged run never is a refusal: the pre-pass *)
(* over the single runs has already stopped every run that would cause one *)
(* (the comment in verdict_block of ratchet_cmd.rs).                       *)
MergeNeverRefuses == \A p \in Procs : proc[p].verdict # "RefusedByMerge"

(* The deadline a human gave a finding is the one on its line, through any *)
(* number of rewrites, failed writes and kills, for as long as no rewrite  *)
(* has removed that line.                                                  *)
DeadlineKept ==
  \A f \in FingerprintsOf(file.lines) :
     aux_dropped[f] = "no" => ExpiresOf(file.lines, f) = aux_deadline[f]

(* A check that exits 0 proves that no deadline a human set has            *)
(* passed: --update cannot turn a passed deadline green, and neither can   *)
(* an interrupted save, short of removing the line.                        *)
PassedDeadlineStaysRed ==
  [][\A p \in Procs :
       /\ proc[p].pc = "loaded" /\ ~ proc[p].update
       /\ proc'[p].pc = "idle" /\ exit_code(proc'[p].verdict) = 0
       =>
         \A f \in FingerprintsOf(proc[p].base) :
            aux_dropped[f] = "no" /\ aux_deadline[f] # NoDate
              => aux_deadline[f] # BadDate /\ aux_deadline[f] > clock]_vars

(* After a save that was interrupted, a log that reports at least what     *)
(* that save was accepting does not check clean, unless every line of it   *)
(* reached the file: the next check says that the baseline is damaged.     *)
InterruptedSaveIsLoud ==
  file.lines # aux_cut /\ aux_cut # <<>> /\ ~ file.torn =>
    \A run \in Runs :
       FingerprintsOf(aux_cut) \subseteq run.results
         => ratchet(file.lines, run, Expected) # "Clean"

-----------------------------------------------------------------------------
(* Refinement.  The list of accepted findings is the file's, except while  *)
(* a rewrite has truncated it, when it still is the one that was loaded.   *)

Writers == {p \in Procs : proc[p].pc = "truncated"}

AcceptedLines ==
  IF Writers = {} THEN file.lines ELSE proc[CHOOSE p \in Writers : TRUE].base

AmnestyOf(lines) == [f \in FingerprintsOf(lines) |-> ExpiresOf(lines, f)]

Abstract == INSTANCE Amnesty WITH
  amnesty <- AmnestyOf(AcceptedLines),
  vouched <- aux_vouched,
  saving  <- Writers # {}

(* As long as invocations and edits of the baseline do not overlap, the    *)
(* files and processes of the ratchet implement the list of amnesties:     *)
(* rewrites that fail or are killed half way included, judged ratchet      *)
(* drops findings or accepts reported ones, and never sets a deadline.     *)
RatchetKeepsAmnesties == Abstract!AmnestySpec

-----------------------------------------------------------------------------
(* Inductive strengthenings.  A process only ever holds and writes lines   *)
(* that were vouched for, and only a sound log gets past the pre-pass.     *)
VouchedInv ==
  /\ FingerprintsOf(file.lines) \subseteq aux_vouched
  /\ \A p \in Procs :
        /\ FingerprintsOf(proc[p].base) \subseteq aux_vouched
        /\ FingerprintsOf(proc[p].lines) \subseteq aux_vouched

(* Every line carries the deadline that "base" had for its fingerprint.    *)
Carries(lines, base) ==
  \A i \in DOMAIN lines :
     lines[i].expires = ExpiresOf(base, lines[i].fingerprint)

(* When nothing overlaps, one process at most is running, it holds what is *)
(* on disk until it truncates it, what it is about to write carries the    *)
(* deadlines of what it loaded, and the accepted lines carry the humans'.  *)
OneRunning ==
  \A p, q \in Procs : proc[p].pc # "idle" /\ proc[q].pc # "idle" => p = q

HoldsFile ==
  \A p \in Procs :
     /\ proc[p].pc \in {"loaded", "saving"}
          => file = [lines |-> proc[p].base, torn |-> FALSE]
     /\ proc[p].pc = "truncated" => file = [lines |-> <<>>, torn |-> FALSE]
     /\ Carries(proc[p].lines, proc[p].base)

DeadlinesAccepted ==
  \A f \in Fingerprints :
     aux_dropped[f] = "no" => ExpiresOf(AcceptedLines, f) = aux_deadline[f]

SerialInv == OneRunning /\ HoldsFile /\ DeadlinesAccepted

(* A rewrite has one line per finding, and what an interrupted one left on *)
(* disk, as long as nobody touched it, begins what it was writing.         *)
OneLineEach(lines) ==
  \A i, j \in DOMAIN lines : lines[i].fingerprint = lines[j].fingerprint => i = j

CutInv ==
  /\ \A p \in Procs : OneLineEach(proc[p].lines)
  /\ OneLineEach(aux_cut)
  /\ aux_cut # <<>> /\ ~ file.torn =>
       \E n \in 0 .. Len(aux_cut) : file.lines = SubSeq(aux_cut, 1, n)

-----------------------------------------------------------------------------
(* Claims of the documentation that the code does not keep.                *)

(* "--update will not extend a deadline a human set": the deadline on a    *)
(* line is the human's unless a rewrite from healthy runs removed the line *)
(* in between, which would say that the finding was fixed.                 *)
DegradedUpdateKeepsDeadline ==
  \A f \in FingerprintsOf(file.lines) :
     aux_dropped[f] \in {"no", "missed"}
       => ExpiresOf(file.lines, f) = aux_deadline[f]
=============================================================================
