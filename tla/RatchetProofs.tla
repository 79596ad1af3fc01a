---------------------------- MODULE RatchetProofs ----------------------------
(***************************************************************************)
(* Proofs about the ratchet, for every number of processes, adapters,      *)
(* findings, files and lines.                                              *)
(***************************************************************************)
EXTENDS Ratchet, RecursionFacts, FiniteSetTheorems, SequenceTheorems, TLAPS

-----------------------------------------------------------------------------
(* Lines.                                                                  *)

(* FirstIndex points at a line of the fingerprint, and no earlier one is.  *)
LEMMA FirstIndexIsFirst ==
  ASSUME NEW lines \in Seq(Line), NEW f \in FingerprintsOf(lines)
  PROVE  /\ FirstIndex(lines, f) \in DOMAIN lines
         /\ lines[FirstIndex(lines, f)].fingerprint = f
         /\ \A j \in DOMAIN lines :
               lines[j].fingerprint = f => FirstIndex(lines, f) <= j
<1> DEFINE T == {i \in DOMAIN lines : lines[i].fingerprint = f}
<1>1. T \subseteq Nat
  OBVIOUS
<1>2. T # {}
  BY DEF FingerprintsOf
<1>3. \E n \in T : \A m \in T : n <= m
  <2> HIDE DEF T
  <2> QED
    BY <1>1, <1>2, LeastNatural
<1> QED
  BY <1>3 DEF FirstIndex

(* The first line with a fingerprint decides its deadline.                 *)
LEMMA ExpiresOfFirst ==
  ASSUME NEW lines \in Seq(Line), NEW i \in DOMAIN lines,
         \A j \in DOMAIN lines :
            lines[j].fingerprint = lines[i].fingerprint => i <= j
  PROVE  ExpiresOf(lines, lines[i].fingerprint) = lines[i].expires
<1> DEFINE f == lines[i].fingerprint
<1>1. f \in FingerprintsOf(lines)
  BY DEF FingerprintsOf
<1>2. FirstIndex(lines, f) = i
  BY <1>1, FirstIndexIsFirst
<1> QED
  BY <1>1, <1>2 DEF ExpiresOf

(* A looked-up deadline is one, whatever the fingerprint.                  *)
LEMMA ExpiresOfType ==
  ASSUME NEW lines \in Seq(Line), NEW f
  PROVE  ExpiresOf(lines, f) \in Date
<1>1. CASE f \in FingerprintsOf(lines)
  <2>1. lines[FirstIndex(lines, f)] \in Line
    BY <1>1, FirstIndexIsFirst
  <2> QED
    BY <1>1, <2>1 DEF ExpiresOf, Line
<1>2. CASE f \notin FingerprintsOf(lines)
  BY <1>2 DEF ExpiresOf, Date
<1> QED
  BY <1>1, <1>2

(* The fingerprints on well-formed lines.                                  *)
LEMMA FingerprintsOfType ==
  ASSUME NEW lines \in Seq(Line)
  PROVE  FingerprintsOf(lines) \subseteq Fingerprints
<1>1. \A i \in DOMAIN lines : lines[i] \in Line
  OBVIOUS
<1> QED
  BY <1>1 DEF FingerprintsOf, Line

(* An empty file is well formed and accepts nothing.                       *)
LEMMA NoLines ==
  /\ <<>> \in Seq(Line)
  /\ FingerprintsOf(<<>>) = {}
BY DEF FingerprintsOf

(* What the ratchet looks up for a line is in the rewritten file too.      *)
LEMMA CarriedExpires ==
  ASSUME NEW lines \in Seq(Line), NEW base, Carries(lines, base),
         NEW f \in FingerprintsOf(lines)
  PROVE  ExpiresOf(lines, f) = ExpiresOf(base, f)
BY FirstIndexIsFirst DEF ExpiresOf, Carries

(* A prefix of lines that carry deadlines.                                 *)
LEMMA PrefixOfLines ==
  ASSUME NEW lines \in Seq(Line), NEW n \in 0 .. Len(lines)
  PROVE  /\ SubSeq(lines, 1, n) \in Seq(Line)
         /\ FingerprintsOf(SubSeq(lines, 1, n)) \subseteq FingerprintsOf(lines)
         /\ \A base : Carries(lines, base) => Carries(SubSeq(lines, 1, n), base)
<1> DEFINE pre == SubSeq(lines, 1, n)
<1>1. \A i \in 1 .. n : lines[i] \in Line
  OBVIOUS
<1>2. pre \in Seq(Line) /\ Len(pre) = n /\ \A i \in 1 .. n : pre[i] = lines[i]
  BY <1>1, SubSeqProperties
<1>3. DOMAIN pre = 1 .. n /\ 1 .. n \subseteq DOMAIN lines
  BY <1>2
<1>4. FingerprintsOf(pre) \subseteq FingerprintsOf(lines)
  BY <1>2, <1>3 DEF FingerprintsOf
<1>5. \A base : Carries(lines, base) => Carries(pre, base)
  BY <1>2, <1>3 DEF Carries
<1> QED
  BY <1>2, <1>4, <1>5

(* Lines written before other lines.                                       *)
LEMMA JoinedLines ==
  ASSUME NEW s \in Seq(Line), NEW t \in Seq(Line)
  PROVE  /\ s \o t \in Seq(Line)
         /\ FingerprintsOf(s \o t) = FingerprintsOf(s) \cup FingerprintsOf(t)
<1>1. /\ s \o t \in Seq(Line)
      /\ Len(s \o t) = Len(s) + Len(t)
      /\ \A i \in 1 .. Len(s) + Len(t) :
            (s \o t)[i] = IF i <= Len(s) THEN s[i] ELSE t[i - Len(s)]
  BY ConcatProperties
<1>2. \A i \in DOMAIN (s \o t) :
         (s \o t)[i].fingerprint \in FingerprintsOf(s) \cup FingerprintsOf(t)
  <2> TAKE i \in DOMAIN (s \o t)
  <2>1. CASE i <= Len(s)
    BY <1>1, <2>1 DEF FingerprintsOf
  <2>2. CASE ~ (i <= Len(s))
    <3>1. i - Len(s) \in DOMAIN t
      BY <1>1, <2>2
    <3>2. (s \o t)[i] = t[i - Len(s)]
      BY <1>1, <2>2
    <3> QED
      BY <3>1, <3>2 DEF FingerprintsOf
  <2> QED
    BY <2>1, <2>2
<1>3. \A i \in DOMAIN s : (s \o t)[i] = s[i] /\ i \in DOMAIN (s \o t)
  BY <1>1
<1>4. \A i \in DOMAIN t :
         /\ (s \o t)[i + Len(s)] = t[i]
         /\ i + Len(s) \in DOMAIN (s \o t)
  BY <1>1
<1> DEFINE st == s \o t
<1> HIDE DEF st
<1>5. FingerprintsOf(st) \subseteq FingerprintsOf(s) \cup FingerprintsOf(t)
  BY <1>2 DEF FingerprintsOf, st
<1>6. FingerprintsOf(s) \subseteq FingerprintsOf(st)
  BY <1>3, Zenon DEF FingerprintsOf, st
<1>7. FingerprintsOf(t) \subseteq FingerprintsOf(st)
  BY <1>4, Zenon DEF FingerprintsOf, st
<1> QED
  BY <1>1, <1>5, <1>6, <1>7 DEF st

(* The rewritten file: well formed, one line per finding of the run, each  *)
(* with the deadline the old file had for it.                              *)
LEMMA RewrittenLines ==
  ASSUME NEW base \in Seq(Line), NEW S \in SUBSET Fingerprints,
         NEW order \in SetToSeqs(S)
  PROVE  /\ rewrite(base, order) \in Seq(Line)
         /\ FingerprintsOf(rewrite(base, order)) \subseteq S
         /\ Carries(rewrite(base, order), base)
<1>1. Cardinality(S) \in Nat
  BY RatchetAssumption, FS_Subset, FS_CardinalityType
<1>2. order \in [1 .. Cardinality(S) -> S]
  BY DEF SetToSeqs
<1>3. \A i \in 1 .. Cardinality(S) :
         [fingerprint |-> order[i], expires |-> ExpiresOf(base, order[i])]
           \in Line
  BY <1>2, ExpiresOfType DEF Line
<1>4. rewrite(base, order) \in [1 .. Cardinality(S) -> Line]
  BY <1>2, <1>3 DEF rewrite
<1>5. rewrite(base, order) \in Seq(Line)
  BY <1>1, <1>4
<1>6. FingerprintsOf(rewrite(base, order)) \subseteq S
  BY <1>2 DEF FingerprintsOf, rewrite
<1>7. Carries(rewrite(base, order), base)
  BY <1>2 DEF Carries, rewrite
<1> QED
  BY <1>5, <1>6, <1>7

(* What may be on disk after a write: lines of the old file or of the new. *)
LEMMA OverwrittenFile ==
  ASSUME file \in File, NEW lines \in Seq(Line), NEW partial \in BOOLEAN,
         NEW new \in Overwrite(lines, partial)
  PROVE  /\ new \in File
         /\ FingerprintsOf(new.lines)
              \subseteq FingerprintsOf(lines) \cup FingerprintsOf(file.lines)
<1> DEFINE old == file.lines
<1>0. old \in Seq(Line) /\ file.torn \in BOOLEAN
  BY DEF File
<1>1. CASE old = <<>>
  BY <1>1 DEF Overwrite, File
<1>2. CASE old # <<>> /\ lines = <<>> /\ ~ partial
  BY <1>2 DEF Overwrite
<1>3. CASE old # <<>> /\ ~ (lines = <<>> /\ ~ partial)
  <2>0. new \in Seams(lines, partial)
    BY <1>3 DEF Overwrite
  <2>1. PICK j \in 2 .. Len(old) + 1, torn \in {partial, TRUE} :
           new = [lines |-> lines \o SubSeq(old, j, Len(old)),
                  torn  |-> torn]
    BY <2>0 DEF Seams
  <2> DEFINE rest == SubSeq(old, j, Len(old))
  <2>2. \A i \in j .. Len(old) : old[i] \in Line
    BY <1>0
  <2>3. /\ rest \in Seq(Line)
        /\ Len(rest) = IF j <= Len(old) THEN Len(old) - j + 1 ELSE 0
        /\ \A i \in 1 .. Len(old) - j + 1 : rest[i] = old[j + i - 1]
    BY <1>0, <2>2, SubSeqProperties
  <2>4. FingerprintsOf(rest) \subseteq FingerprintsOf(old)
    BY <1>0, <2>3 DEF FingerprintsOf
  <2>5. /\ lines \o rest \in Seq(Line)
        /\ FingerprintsOf(lines \o rest)
             = FingerprintsOf(lines) \cup FingerprintsOf(rest)
    BY <2>3, JoinedLines
  <2>7. new = [lines |-> lines \o rest, torn |-> torn]
    BY <2>1 DEF rest
  <2>9. new \in File
    BY <2>5, <2>7 DEF File
  <2> QED
    BY <2>4, <2>5, <2>7, <2>9
<1> QED
  BY <1>1, <1>2, <1>3

-----------------------------------------------------------------------------
(* Runs.                                                                   *)

(* The merged run reports findings, and only the runs' own.                *)
LEMMA MergedResults ==
  ASSUME NEW runs \in [Tools -> Runs]
  PROVE  /\ merge(runs, Tools).results = UNION {runs[t].results : t \in Tools}
         /\ merge(runs, Tools).results \subseteq Fingerprints
<1>1. \A t \in Tools : runs[t] \in Run
  BY RatchetAssumption
<1>2. \A t \in Tools : runs[t].results \subseteq Fingerprints
  BY <1>1 DEF Run
<1> QED
  BY <1>2 DEF merge

(* A pre-pass that refuses nothing has seen no crashed run.                *)
LEMMA PrePassStopsCrashes ==
  ASSUME NEW runs \in [Tools -> Runs], Refusals(runs) = {}
  PROVE  ~ Crashed(runs)
<1>1. \A t \in Tools : runs[t].invocations \in SUBSET BOOLEAN
  BY RatchetAssumption DEF Run
<1>2. \A t \in Tools : ~ HealthBitMissing(runs[t])
  BY DEF Refusals, assess_run_health
<1>3. \A t \in Tools : runs[t].invocations = {TRUE}
  BY <1>1, <1>2 DEF HealthBitMissing
<1> QED
  BY <1>3 DEF Crashed

(* Neither does the merged run then fail.                                  *)
LEMMA MergeOfSoundIsSound ==
  ASSUME NEW runs \in [Tools -> Runs], Refusals(runs) = {}, NEW expected
  PROVE  assess_run_health(merge(runs, Tools), expected) # "Failed"
<1>1. \A t \in Tools : runs[t].invocations = {TRUE}
  BY PrePassStopsCrashes DEF Crashed
<1>2. UNION {runs[t].invocations : t \in Tools} = {TRUE}
  BY <1>1, RatchetAssumption
<1>3. ~ HealthBitMissing(merge(runs, Tools))
  BY <1>2 DEF HealthBitMissing, merge
<1> QED
  BY <1>3 DEF assess_run_health

-----------------------------------------------------------------------------
(* Types.                                                                  *)

(* A process that has exited is well typed.                                *)
LEMMA IdleType ==
  ASSUME NEW verdict \in Verdicts, NEW crashed \in BOOLEAN
  PROVE  Idle(verdict, crashed) \in ProcState
BY NoLines DEF Idle, ProcState

(* The step by which a process exits keeps the processes well typed.       *)
LEMMA ExitType ==
  ASSUME NEW p \in Procs, proc \in [Procs -> ProcState],
         NEW verdict \in Verdicts, NEW crashed \in BOOLEAN,
         Exit(p, verdict, crashed)
  PROVE  proc' \in [Procs -> ProcState]
BY IdleType DEF Exit

(* The lines an interrupted write leaves are lines of the file or of the   *)
(* process that was writing, and nothing else changes type.                *)
LEMMA PartialWriteType ==
  ASSUME TypeOK, NEW p \in Procs, PartialWrite(p)
  PROVE  /\ file' \in File
         /\ aux_dropped' \in [Fingerprints -> {"no", "pruned", "missed", "cut"}]
         /\ aux_cut' \in Seq(Line)
         /\ FingerprintsOf(file'.lines)
              \subseteq FingerprintsOf(proc[p].lines) \cup FingerprintsOf(file.lines)
<1>1. proc[p].lines \in Seq(Line) /\ file \in File
  BY DEF TypeOK, ProcState
<1>2. PICK n \in 0 .. Len(proc[p].lines), partial \in BOOLEAN :
         file' \in Overwrite(SubSeq(proc[p].lines, 1, n), partial)
  BY DEF PartialWrite
<1>3. /\ SubSeq(proc[p].lines, 1, n) \in Seq(Line)
      /\ FingerprintsOf(SubSeq(proc[p].lines, 1, n))
           \subseteq FingerprintsOf(proc[p].lines)
  BY <1>1, PrefixOfLines
<1>4. /\ file' \in File
      /\ FingerprintsOf(file'.lines)
           \subseteq FingerprintsOf(SubSeq(proc[p].lines, 1, n))
                       \cup FingerprintsOf(file.lines)
  BY <1>1, <1>2, <1>3, OverwrittenFile
<1>5. /\ aux_dropped' \in [Fingerprints -> {"no", "pruned", "missed", "cut"}]
      /\ aux_cut' \in Seq(Line)
  BY <1>1 DEF PartialWrite, Dropped, TypeOK
<1> QED
  BY <1>3, <1>4, <1>5

(* A human edit of well-formed lines.                                      *)
LEMMA HumanEditType ==
  ASSUME TypeOK, NEW f \in Fingerprints, NEW lines \in Seq(Line),
         HumanEdit(f, lines)
  PROVE  TypeOK'
<1>1. file' \in File
  BY DEF TypeOK, HumanEdit, File
<1>2. aux_deadline' \in [Fingerprints -> Date]
  BY ExpiresOfType DEF TypeOK, HumanEdit
<1>3. aux_dropped' \in [Fingerprints -> {"no", "pruned", "missed", "cut"}]
  BY DEF TypeOK, HumanEdit
<1> QED
  BY <1>1, <1>2, <1>3, NoLines DEF TypeOK, HumanEdit, env

(* The edits a human makes leave well-formed lines, of the same findings.  *)
LEMMA SetDeadlineLines ==
  ASSUME NEW lines \in Seq(Line), NEW i \in DOMAIN lines, NEW d \in Date
  PROVE  /\ [lines EXCEPT ![i].expires = d] \in Seq(Line)
         /\ FingerprintsOf([lines EXCEPT ![i].expires = d])
              = FingerprintsOf(lines)
<1>1. lines[i] \in Line
  OBVIOUS
<1>2. [lines[i] EXCEPT !.expires = d] \in Line
  BY <1>1 DEF Line
<1>3. [lines EXCEPT ![i].expires = d] \in Seq(Line)
  BY <1>2
<1>4. \A j \in DOMAIN lines :
         [lines EXCEPT ![i].expires = d][j].fingerprint = lines[j].fingerprint
  BY <1>1 DEF Line
<1> QED
  BY <1>3, <1>4 DEF FingerprintsOf

(* Deleting a line adds no finding.                                        *)
LEMMA DeletedLines ==
  ASSUME NEW lines \in Seq(Line), NEW i \in DOMAIN lines
  PROVE  /\ RemoveAt(lines, i) \in Seq(Line)
         /\ FingerprintsOf(RemoveAt(lines, i)) \subseteq FingerprintsOf(lines)
<1> DEFINE pre  == SubSeq(lines, 1, i - 1)
           post == SubSeq(lines, i + 1, Len(lines))
<1>1. i - 1 \in 0 .. Len(lines) /\ i \in 1 .. Len(lines)
  OBVIOUS
<1>2. pre \in Seq(Line) /\ FingerprintsOf(pre) \subseteq FingerprintsOf(lines)
  BY <1>1, PrefixOfLines
<1>3. \A j \in i + 1 .. Len(lines) : lines[j] \in Line
  BY <1>1
<1>4. /\ post \in Seq(Line)
      /\ Len(post) = IF i + 1 <= Len(lines) THEN Len(lines) - i ELSE 0
      /\ \A j \in 1 .. Len(lines) - i : post[j] = lines[i + j]
  BY <1>1, <1>3, SubSeqProperties
<1>5. FingerprintsOf(post) \subseteq FingerprintsOf(lines)
  <2> SUFFICES ASSUME NEW j \in DOMAIN post
               PROVE  post[j].fingerprint \in FingerprintsOf(lines)
    BY DEF FingerprintsOf
  <2> HIDE DEF post
  <2>0. post \in Seq(Line) /\ j \in DOMAIN post
    BY <1>4
  <2>1. j \in 1 .. Len(lines) - i /\ i + j \in DOMAIN lines
    BY <1>1, <1>4, <2>0
  <2>2. post[j] = lines[i + j]
    BY ONLY <1>4, <2>1
  <2> QED
    BY <2>1, <2>2 DEF FingerprintsOf
<1>6. /\ pre \o post \in Seq(Line)
      /\ FingerprintsOf(pre \o post)
           = FingerprintsOf(pre) \cup FingerprintsOf(post)
  BY <1>2, <1>4, JoinedLines
<1> QED
  BY <1>2, <1>5, <1>6 DEF RemoveAt

(* A second line for a finding adds no finding.                            *)
LEMMA MergedLines ==
  ASSUME NEW lines \in Seq(Line), NEW i \in DOMAIN lines, NEW d \in Date
  PROVE  /\ Append(lines, [lines[i] EXCEPT !.expires = d]) \in Seq(Line)
         /\ FingerprintsOf(Append(lines, [lines[i] EXCEPT !.expires = d]))
              = FingerprintsOf(lines)
<1> DEFINE line == [lines[i] EXCEPT !.expires = d]
<1>1. lines[i] \in Line
  OBVIOUS
<1>2. line \in Line /\ line.fingerprint = lines[i].fingerprint
  BY <1>1 DEF Line
<1> HIDE DEF line
<1>3. Append(lines, line) \in Seq(Line)
  BY <1>2
<1>4. /\ DOMAIN Append(lines, line) = 1 .. Len(lines) + 1
      /\ \A j \in 1 .. Len(lines) : Append(lines, line)[j] = lines[j]
      /\ Append(lines, line)[Len(lines) + 1] = line
  BY <1>2
<1>5. FingerprintsOf(Append(lines, line)) = FingerprintsOf(lines)
  BY <1>2, <1>4 DEF FingerprintsOf
<1> QED
  BY <1>3, <1>5 DEF line

(* Every state of the ratchet is well typed: in particular no sequence of  *)
(* rewrites, interrupted writes and edits leaves a line without its parts. *)
THEOREM TypeCorrect == Spec => []TypeOK
<1>1. Init => TypeOK
  <2>1. [lines |-> <<>>, torn |-> FALSE] \in File
    BY NoLines DEF File
  <2>2. Idle("none", FALSE) \in ProcState
    BY IdleType DEF Verdicts
  <2>3. Init => proc \in [Procs -> ProcState]
    BY <2>2, Zenon DEF Init
  <2>4. Init => /\ file \in File
                /\ aux_deadline \in [Fingerprints -> Date]
    BY <2>1 DEF Init, Date
  <2>5. Init => /\ tree \subseteq Uris /\ clock \in Nat
                /\ aux_dropped \in [Fingerprints -> {"no", "pruned", "missed", "cut"}]
                /\ aux_cut \in Seq(Line) /\ aux_vouched \subseteq Fingerprints
    BY NoLines DEF Init
  <2> QED
    BY <2>3, <2>4, <2>5, Zenon DEF TypeOK
<1>2. TypeOK /\ [Next]_vars => TypeOK'
  <2> SUFFICES ASSUME TypeOK, [Next]_vars
               PROVE  TypeOK'
    OBVIOUS
  <2> USE DEF env, aux
  <2>0. /\ file \in File /\ file.lines \in Seq(Line) /\ file.torn \in BOOLEAN
        /\ \A p \in Procs : /\ proc[p] \in ProcState
                            /\ proc[p].base \in Seq(Line)
                            /\ proc[p].lines \in Seq(Line)
                            /\ proc[p].crashed \in BOOLEAN
    BY DEF TypeOK, File, ProcState
  <2>1. ASSUME NEW p \in Procs, NEW update \in BOOLEAN, Load(p, update)
        PROVE  TypeOK'
    <3>1. CASE file.torn
      BY <2>0, <2>1, <3>1, ExitType DEF Load, TypeOK, Verdicts
    <3>2. CASE ~ file.torn
      <4>1. [Idle("none", FALSE) EXCEPT !.pc = "loaded", !.update = update,
                                        !.base = file.lines] \in ProcState
        <5>1. Idle("none", FALSE) \in ProcState
          BY IdleType DEF Verdicts
        <5>2. update \in BOOLEAN
          OBVIOUS
        <5> QED
          BY ONLY <2>0, <5>1, <5>2 DEF ProcState
      <4> QED
        BY <2>1, <3>2, <4>1 DEF Load, TypeOK
    <3> QED
      BY <3>1, <3>2
  <2>2. ASSUME NEW p \in Procs, SarifUnreadable(p)
        PROVE  TypeOK'
    BY <2>2, ExitType DEF SarifUnreadable, TypeOK, Verdicts
  <2>3. ASSUME NEW p \in Procs, NEW runs \in [Tools -> Runs], RefuseRuns(p, runs)
        PROVE  TypeOK'
    <3>1. Crashed(runs) \in BOOLEAN
      BY DEF Crashed
    <3> QED
      BY <2>3, <3>1, ExitType DEF RefuseRuns, TypeOK, Verdicts
  <2>4. ASSUME NEW p \in Procs, NEW runs \in [Tools -> Runs], Check(p, runs)
        PROVE  TypeOK'
    <3>1. Crashed(runs) \in BOOLEAN
      BY DEF Crashed
    <3>2. ratchet(proc[p].base, merge(runs, Tools), ExpectedTotal) \in Verdicts
      BY DEF ratchet, Verdicts
    <3> QED
      BY <2>4, <3>1, <3>2, ExitType DEF Check, TypeOK
  <2>5. ASSUME NEW p \in Procs, NEW runs \in [Tools -> Runs], Rewrite(p, runs)
        PROVE  TypeOK'
    <3> DEFINE S == merge(runs, Tools).results
    <3>1. S \in SUBSET Fingerprints /\ S = UNION {runs[t].results : t \in Tools}
      BY MergedResults
    <3>2. Crashed(runs) \in BOOLEAN /\ AllHealthy(runs) \in BOOLEAN
      BY DEF Crashed, AllHealthy
    <3>3. PICK order \in SetToSeqs(S) :
            proc' = [proc EXCEPT ![p].pc = "saving",
                                 ![p].lines = rewrite(proc[p].base, order),
                                 ![p].healthy = AllHealthy(runs),
                                 ![p].crashed = Crashed(runs)]
      BY <2>5 DEF Rewrite
    <3>4. rewrite(proc[p].base, order) \in Seq(Line)
      BY <2>0, <3>1, RewrittenLines
    <3>5. proc' \in [Procs -> ProcState]
      <4> DEFINE healthy == AllHealthy(runs)
                 crashed == Crashed(runs)
                 lines   == rewrite(proc[p].base, order)
      <4>1. /\ healthy \in BOOLEAN /\ crashed \in BOOLEAN
            /\ lines \in Seq(Line)
            /\ proc' = [proc EXCEPT ![p].pc = "saving", ![p].lines = lines,
                                    ![p].healthy = healthy,
                                    ![p].crashed = crashed]
        BY <3>2, <3>3, <3>4
      <4> HIDE DEF healthy, crashed, lines
      <4>2. proc[p] \in ProcState /\ proc \in [Procs -> ProcState]
        BY DEF TypeOK
      <4>3. [proc[p] EXCEPT !.pc = "saving", !.lines = lines,
                            !.healthy = healthy, !.crashed = crashed]
              \in ProcState
        BY <4>1, <4>2 DEF ProcState
      <4> QED
        BY <4>1, <4>2, <4>3
    <3>6. aux_vouched' \subseteq Fingerprints
      BY <2>5, <3>1 DEF Rewrite, TypeOK
    <3> QED
      BY <2>5, <3>5, <3>6 DEF Rewrite, TypeOK
  <2>6. ASSUME NEW p \in Procs, SaveRefused(p)
        PROVE  TypeOK'
    BY <2>0, <2>6, ExitType DEF SaveRefused, TypeOK, Verdicts
  <2>7. ASSUME NEW p \in Procs, Truncate(p)
        PROVE  TypeOK'
    <3>1. file' \in File
      BY <2>7, NoLines DEF Truncate, File
    <3>2. proc' \in [Procs -> ProcState]
      <4>1. [proc[p] EXCEPT !.pc = "truncated"] \in ProcState
        <5>1. proc[p] \in ProcState
          BY <2>0
        <5> QED
          BY ONLY <5>1 DEF ProcState
      <4> QED
        BY <2>7, <4>1 DEF Truncate, TypeOK
    <3> QED
      BY <2>7, <3>1, <3>2, NoLines DEF Truncate, TypeOK
  <2>8. ASSUME NEW p \in Procs, WriteAll(p)
        PROVE  TypeOK'
    <3>1. file' \in File
      BY <2>0, <2>8, OverwrittenFile DEF WriteAll
    <3>2. proc' \in [Procs -> ProcState]
      BY <2>0, <2>8, ExitType DEF WriteAll, TypeOK, Verdicts
    <3>3. aux_dropped' \in [Fingerprints -> {"no", "pruned", "missed", "cut"}]
      BY <2>8 DEF WriteAll, Dropped, TypeOK
    <3> QED
      BY <2>8, <3>1, <3>2, <3>3, NoLines DEF WriteAll, TypeOK
  <2>9. ASSUME NEW p \in Procs, WriteFails(p)
        PROVE  TypeOK'
    <3>1. proc' \in [Procs -> ProcState]
      BY <2>0, <2>9, ExitType DEF WriteFails, TypeOK, Verdicts
    <3> QED
      BY <2>9, <3>1, PartialWriteType DEF WriteFails, PartialWrite, TypeOK
  <2>10. ASSUME NEW p \in Procs, Kill(p)
         PROVE  TypeOK'
    <3>1. proc' \in [Procs -> ProcState]
      BY <2>0, <2>10, ExitType DEF Kill, TypeOK, Verdicts
    <3>2. CASE proc[p].pc = "truncated"
      BY <2>10, <3>1, <3>2, PartialWriteType DEF Kill, PartialWrite, TypeOK
    <3>3. CASE proc[p].pc # "truncated"
      BY <2>10, <3>1, <3>3 DEF Kill, TypeOK
    <3> QED
      BY <3>2, <3>3
  <2>11. ASSUME Human
         PROVE  TypeOK'
    <3>0. \A i \in DOMAIN file.lines : file.lines[i].fingerprint \in Fingerprints
      BY <2>0, FingerprintsOfType DEF FingerprintsOf
    <3>1. \A d \in Deadlines \cup {NoDate} : d \in Date
      BY RatchetAssumption DEF Deadlines, Date
    <3>2. ASSUME NEW i \in DOMAIN file.lines, NEW d \in Deadlines,
                 SetDeadline(i, d)
          PROVE  TypeOK'
      BY <2>0, <3>0, <3>1, <3>2, SetDeadlineLines, HumanEditType DEF SetDeadline
    <3>3. ASSUME NEW i \in DOMAIN file.lines, DeleteLine(i)
          PROVE  TypeOK'
      BY <2>0, <3>0, <3>3, DeletedLines, HumanEditType DEF DeleteLine
    <3>4. ASSUME NEW i \in DOMAIN file.lines, NEW d \in Deadlines \cup {NoDate},
                 MergeLine(i, d)
          PROVE  TypeOK'
      BY <2>0, <3>0, <3>1, <3>4, MergedLines, HumanEditType DEF MergeLine
    <3>5. CASE Mangle
      <4>1. file' \in File
        BY <2>0, <3>5 DEF Mangle, File
      <4> QED
        BY <3>5, <4>1, NoLines DEF Mangle, TypeOK
    <3> QED
      BY <2>11, <3>2, <3>3, <3>4, <3>5 DEF Human
  <2>12. ASSUME World
         PROVE  TypeOK'
    BY <2>12 DEF World, TouchTree, Tick, TypeOK
  <2>13. CASE UNCHANGED vars
    BY <2>13 DEF vars, TypeOK
  <2> QED
    BY <2>1, <2>2, <2>3, <2>4, <2>5, <2>6, <2>7, <2>8, <2>9, <2>10, <2>11,
       <2>12, <2>13 DEF Next, Judged
<1> QED
  BY <1>1, <1>2, PTL DEF Spec

-----------------------------------------------------------------------------
(* Amnesties.                                                              *)

(* The lines a process is about to write, which are where the next file    *)
(* comes from, are vouched for like those on disk.                         *)
LEMMA VouchedInvariant == Spec => []VouchedInv
<1>1. Init => VouchedInv
  BY NoLines DEF Init, VouchedInv, Idle
<1>2. TypeOK /\ VouchedInv /\ [Next]_vars => VouchedInv'
  <2> SUFFICES ASSUME TypeOK, VouchedInv, [Next]_vars
               PROVE  VouchedInv'
    OBVIOUS
  <2> USE DEF env, aux
  <2>0. /\ file \in File /\ file.lines \in Seq(Line)
        /\ proc \in [Procs -> ProcState]
        /\ \A p \in Procs : /\ proc[p].base \in Seq(Line)
                            /\ proc[p].lines \in Seq(Line)
    BY DEF TypeOK, File, ProcState
  (* A process that exits forgets its lines.                               *)
  <2>a. ASSUME NEW p \in Procs, NEW verdict, NEW crashed,
               Exit(p, verdict, crashed), aux_vouched' = aux_vouched
        PROVE  \A q \in Procs :
                  /\ FingerprintsOf(proc'[q].base) \subseteq aux_vouched'
                  /\ FingerprintsOf(proc'[q].lines) \subseteq aux_vouched'
    <3>1. Idle(verdict, crashed).base = <<>> /\ Idle(verdict, crashed).lines = <<>>
      BY DEF Idle
    <3> QED
      BY <2>0, <2>a, <3>1, NoLines DEF Exit, VouchedInv
  (* A write leaves lines of the file and of the process that writes.      *)
  <2>b. ASSUME NEW p \in Procs, PartialWrite(p)
        PROVE  /\ FingerprintsOf(file'.lines) \subseteq aux_vouched'
               /\ aux_vouched' = aux_vouched
    BY <2>b, PartialWriteType DEF PartialWrite, VouchedInv
  (* An edit leaves the findings the file had, or fewer.                   *)
  <2>c. ASSUME NEW f, NEW lines, HumanEdit(f, lines),
               FingerprintsOf(lines) \subseteq FingerprintsOf(file.lines)
        PROVE  VouchedInv'
    <3>1. file'.lines = lines
      BY <2>0, <2>c DEF HumanEdit, File
    <3> QED
      BY <2>c, <3>1 DEF HumanEdit, VouchedInv
  <2>1. ASSUME NEW p \in Procs, NEW update \in BOOLEAN, Load(p, update)
        PROVE  VouchedInv'
    <3>1. CASE file.torn
      BY <2>1, <2>a, <3>1 DEF Load, VouchedInv
    <3>2. CASE ~ file.torn
      <4> DEFINE held == [Idle("none", FALSE) EXCEPT !.pc = "loaded",
                            !.update = update, !.base = file.lines]
      <4>1. held.base = file.lines /\ held.lines = <<>>
        BY DEF Idle
      <4>2. proc' = [proc EXCEPT ![p] = held] /\ UNCHANGED <<file, aux_vouched>>
        BY <2>1, <3>2 DEF Load
      <4> HIDE DEF held
      <4> QED
        BY <2>0, <4>1, <4>2, NoLines DEF VouchedInv
    <3> QED
      BY <3>1, <3>2
  <2>2. ASSUME NEW p \in Procs, SarifUnreadable(p)
        PROVE  VouchedInv'
    BY <2>2, <2>a DEF SarifUnreadable, VouchedInv
  <2>3. ASSUME NEW p \in Procs, NEW runs \in [Tools -> Runs], RefuseRuns(p, runs)
        PROVE  VouchedInv'
    BY <2>3, <2>a DEF RefuseRuns, VouchedInv
  <2>4. ASSUME NEW p \in Procs, NEW runs \in [Tools -> Runs], Check(p, runs)
        PROVE  VouchedInv'
    BY <2>4, <2>a DEF Check, VouchedInv
  <2>5. ASSUME NEW p \in Procs, NEW runs \in [Tools -> Runs], Rewrite(p, runs)
        PROVE  VouchedInv'
    <3> DEFINE S == merge(runs, Tools).results
    <3>1. S \in SUBSET Fingerprints /\ S = UNION {runs[t].results : t \in Tools}
      BY MergedResults
    <3>2. ~ Crashed(runs)
      BY <2>5, PrePassStopsCrashes DEF Rewrite
    <3>3. aux_vouched' = aux_vouched \cup S /\ file' = file
      BY <2>5, <3>1, <3>2 DEF Rewrite
    <3>4. PICK order \in SetToSeqs(S) :
            proc' = [proc EXCEPT ![p].pc = "saving",
                                 ![p].lines = rewrite(proc[p].base, order),
                                 ![p].healthy = AllHealthy(runs),
                                 ![p].crashed = Crashed(runs)]
      BY <2>5 DEF Rewrite
    <3>5. FingerprintsOf(rewrite(proc[p].base, order)) \subseteq S
      BY <2>0, <3>1, RewrittenLines
    <3> DEFINE lines == rewrite(proc[p].base, order)
    <3>6. /\ proc'[p].lines = lines /\ proc'[p].base = proc[p].base
          /\ \A q \in Procs \ {p} : proc'[q] = proc[q]
      BY <2>0, <3>4 DEF ProcState
    <3> HIDE DEF lines, S
    <3>7. FingerprintsOf(lines) \subseteq S
      BY <3>5 DEF lines, S
    <3> QED
      BY <3>3, <3>6, <3>7 DEF VouchedInv
  <2>6. ASSUME NEW p \in Procs, SaveRefused(p)
        PROVE  VouchedInv'
    BY <2>6, <2>a DEF SaveRefused, VouchedInv
  <2>7. ASSUME NEW p \in Procs, Truncate(p)
        PROVE  VouchedInv'
    <3>1. \A q \in Procs : /\ proc'[q].base = proc[q].base
                           /\ proc'[q].lines = proc[q].lines
      BY <2>0, <2>7 DEF Truncate, ProcState
    <3>2. file'.lines = <<>>
      BY <2>7 DEF Truncate
    <3> QED
      BY <2>7, <3>1, <3>2, NoLines DEF Truncate, VouchedInv
  <2>8. ASSUME NEW p \in Procs, WriteAll(p)
        PROVE  VouchedInv'
    <3>1. FingerprintsOf(file'.lines)
            \subseteq FingerprintsOf(proc[p].lines) \cup FingerprintsOf(file.lines)
      BY <2>0, <2>8, OverwrittenFile DEF WriteAll
    <3> QED
      BY <2>8, <2>a, <3>1 DEF WriteAll, VouchedInv
  <2>9. ASSUME NEW p \in Procs, WriteFails(p)
        PROVE  VouchedInv'
    BY <2>9, <2>a, <2>b DEF WriteFails, VouchedInv
  <2>10. ASSUME NEW p \in Procs, Kill(p)
         PROVE  VouchedInv'
    <3>1. FingerprintsOf(file'.lines) \subseteq aux_vouched'
      BY <2>10, <2>b DEF Kill, VouchedInv
    <3>2. aux_vouched' = aux_vouched
      BY <2>10, <2>b DEF Kill
    <3> QED
      BY <2>10, <2>a, <3>1, <3>2 DEF Kill, VouchedInv
  <2>11. ASSUME Human
         PROVE  VouchedInv'
    <3>1. \A d \in Deadlines \cup {NoDate} : d \in Date
      BY RatchetAssumption DEF Deadlines, Date
    <3>2. ASSUME NEW i \in DOMAIN file.lines, NEW d \in Deadlines,
                 SetDeadline(i, d)
          PROVE  VouchedInv'
      BY <2>0, <2>c, <3>1, <3>2, SetDeadlineLines DEF SetDeadline
    <3>3. ASSUME NEW i \in DOMAIN file.lines, DeleteLine(i)
          PROVE  VouchedInv'
      BY <2>0, <2>c, <3>3, DeletedLines DEF DeleteLine
    <3>4. ASSUME NEW i \in DOMAIN file.lines, NEW d \in Deadlines \cup {NoDate},
                 MergeLine(i, d)
          PROVE  VouchedInv'
      BY <2>0, <2>c, <3>1, <3>4, MergedLines DEF MergeLine
    <3>5. CASE Mangle
      BY <2>0, <3>5 DEF Mangle, VouchedInv, File
    <3> QED
      BY <2>11, <3>2, <3>3, <3>4, <3>5 DEF Human
  <2>12. ASSUME World
         PROVE  VouchedInv'
    BY <2>12 DEF World, TouchTree, Tick, VouchedInv
  <2>13. CASE UNCHANGED vars
    BY <2>13 DEF vars, VouchedInv
  <2> QED
    BY <2>1, <2>2, <2>3, <2>4, <2>5, <2>6, <2>7, <2>8, <2>9, <2>10, <2>11,
       <2>12, <2>13 DEF Next, Judged
<1> QED
  BY <1>1, <1>2, TypeCorrect, PTL DEF Spec

(* Whatever overlaps, with any number of processes, logs and human edits,  *)
(* only what a run that did not crash has reported is ever on the baseline *)
(* (AmnestyIsVouched).                                                     *)
THEOREM AmnestyCorrect == Spec => []AmnestyIsVouched
<1>1. VouchedInv => AmnestyIsVouched
  BY DEF VouchedInv, AmnestyIsVouched
<1> QED
  BY <1>1, VouchedInvariant, PTL

-----------------------------------------------------------------------------
(* Verdicts.                                                               *)

(* The pre-pass of execute is enough, whatever the number of logs: from an *)
(* invocation that read the log of a crashed analyzer comes nothing but a  *)
(* refusal (CrashedRunJudgesNothing), and the run merged from logs that    *)
(* got through cannot fail (MergeNeverRefuses).                            *)
THEOREM VerdictsCorrect == Spec => [](CrashedRunJudgesNothing /\ MergeNeverRefuses)
<1> DEFINE Inv == CrashedRunJudgesNothing /\ MergeNeverRefuses
<1>1. Init => Inv
  BY DEF Init, CrashedRunJudgesNothing, MergeNeverRefuses, Idle
<1>2. TypeOK /\ Inv /\ [Next]_vars => Inv'
  <2> SUFFICES ASSUME TypeOK, Inv, [Next]_vars
               PROVE  Inv'
    OBVIOUS
  <2> USE DEF CrashedRunJudgesNothing, MergeNeverRefuses
  <2>0. proc \in [Procs -> ProcState]
    BY DEF TypeOK
  (* A process exits with a verdict of its own, or as a refusal.           *)
  <2>a. ASSUME NEW p \in Procs, NEW verdict, NEW crashed,
               Exit(p, verdict, crashed),
               verdict # "RefusedByMerge", crashed => verdict = "Refused"
        PROVE  Inv'
    <3>1. /\ Idle(verdict, crashed).pc = "idle"
          /\ Idle(verdict, crashed).verdict = verdict
          /\ Idle(verdict, crashed).crashed = crashed
      BY DEF Idle
    <3> QED
      BY <2>0, <2>a, <3>1 DEF Exit
  <2>b. ASSUME NEW p \in Procs, proc[p].pc # "idle"
        PROVE  ~ proc[p].crashed
    BY <2>b
  <2>1. ASSUME NEW p \in Procs, NEW update \in BOOLEAN, Load(p, update)
        PROVE  Inv'
    <3>1. CASE file.torn
      BY <2>1, <2>a, <3>1 DEF Load
    <3>2. CASE ~ file.torn
      <4>1. /\ ~ proc'[p].crashed
            /\ proc'[p].verdict = "none"
            /\ \A q \in Procs \ {p} : proc'[q] = proc[q]
        BY <2>0, <2>1, <3>2 DEF Load, Idle
      <4> QED
        BY <4>1
    <3> QED
      BY <3>1, <3>2
  <2>2. ASSUME NEW p \in Procs, SarifUnreadable(p)
        PROVE  Inv'
    BY <2>2, <2>a DEF SarifUnreadable
  <2>3. ASSUME NEW p \in Procs, NEW runs \in [Tools -> Runs], RefuseRuns(p, runs)
        PROVE  Inv'
    BY <2>3, <2>a DEF RefuseRuns
  <2>4. ASSUME NEW p \in Procs, NEW runs \in [Tools -> Runs], Check(p, runs)
        PROVE  Inv'
    <3>1. ~ Crashed(runs)
      BY <2>4, PrePassStopsCrashes DEF Check
    <3>2. ratchet(proc[p].base, merge(runs, Tools), ExpectedTotal)
            # "RefusedByMerge"
      BY <2>4, MergeOfSoundIsSound DEF Check, ratchet
    <3> QED
      BY <2>4, <2>a, <3>1, <3>2 DEF Check
  <2>5. ASSUME NEW p \in Procs, NEW runs \in [Tools -> Runs], Rewrite(p, runs)
        PROVE  Inv'
    <3>1. ~ Crashed(runs)
      BY <2>5, PrePassStopsCrashes DEF Rewrite
    <3>2. /\ proc'[p].crashed = Crashed(runs)
          /\ proc'[p].verdict = proc[p].verdict
          /\ \A q \in Procs \ {p} : proc'[q] = proc[q]
      BY <2>0, <2>5 DEF Rewrite, ProcState
    <3> QED
      BY <3>1, <3>2
  <2>6. ASSUME NEW p \in Procs, SaveRefused(p)
        PROVE  Inv'
    BY <2>6, <2>a DEF SaveRefused
  <2>7. ASSUME NEW p \in Procs, Truncate(p)
        PROVE  Inv'
    <3>1. \A q \in Procs : /\ proc'[q].verdict = proc[q].verdict
                           /\ proc'[q].crashed = proc[q].crashed
                           /\ q # p => proc'[q] = proc[q]
      BY <2>0, <2>7 DEF Truncate, ProcState
    <3>2. ~ proc[p].crashed
      BY <2>7, <2>b DEF Truncate
    <3> QED
      BY <3>1, <3>2
  <2>8. ASSUME NEW p \in Procs, WriteAll(p)
        PROVE  Inv'
    BY <2>8, <2>a, <2>b DEF WriteAll
  <2>9. ASSUME NEW p \in Procs, WriteFails(p)
        PROVE  Inv'
    BY <2>9, <2>a DEF WriteFails
  <2>10. ASSUME NEW p \in Procs, Kill(p)
         PROVE  Inv'
    BY <2>10, <2>a, <2>b DEF Kill
  <2>11. ASSUME UNCHANGED proc
         PROVE  Inv'
    BY <2>11
  <2>12. Human \/ World \/ UNCHANGED vars => UNCHANGED proc
    BY DEF Human, SetDeadline, DeleteLine, MergeLine, HumanEdit, Mangle,
           World, TouchTree, Tick, vars
  <2> QED
    BY <2>1, <2>2, <2>3, <2>4, <2>5, <2>6, <2>7, <2>8, <2>9, <2>10, <2>11,
       <2>12 DEF Next, Judged
<1> QED
  BY <1>1, <1>2, TypeCorrect, PTL DEF Spec

(* The run merged from logs that got through never fails                   *)
(* (MergeNeverRefuses).                                                    *)
THEOREM MergeCorrect == Spec => []MergeNeverRefuses
BY VerdictsCorrect, PTL

-----------------------------------------------------------------------------
(* Deadlines, when invocations and edits do not overlap.                   *)

(* An edit of the lines of one fingerprint leaves the deadlines of all     *)
(* the others.                                                             *)
LEMMA SetDeadlineExpires ==
  ASSUME NEW lines \in Seq(Line), NEW i \in DOMAIN lines, NEW d \in Date,
         NEW g, g # lines[i].fingerprint
  PROVE  ExpiresOf([lines EXCEPT ![i].expires = d], g) = ExpiresOf(lines, g)
<1> DEFINE new == [lines EXCEPT ![i].expires = d]
<1>1. /\ new \in Seq(Line) /\ DOMAIN new = DOMAIN lines
      /\ FingerprintsOf(new) = FingerprintsOf(lines)
  BY SetDeadlineLines
<1>2. \A j \in DOMAIN lines : lines[j] \in Line
  OBVIOUS
<1>3. \A j \in DOMAIN lines :
         /\ new[j].fingerprint = lines[j].fingerprint
         /\ j # i => new[j] = lines[j]
  BY <1>2 DEF Line
<1> HIDE DEF new
<1>4. CASE g \in FingerprintsOf(lines)
  <2> DEFINE k == FirstIndex(lines, g)
  <2>1. /\ k \in DOMAIN lines /\ lines[k].fingerprint = g
        /\ \A j \in DOMAIN lines : lines[j].fingerprint = g => k <= j
    BY <1>4, FirstIndexIsFirst
  <2> HIDE DEF k
  <2>2. k # i
    BY <2>1
  <2>3. /\ k \in DOMAIN new /\ new[k] = lines[k]
        /\ \A j \in DOMAIN new : new[j].fingerprint = g => k <= j
    BY <1>1, <1>3, <2>1, <2>2
  <2>4. ExpiresOf(new, g) = new[k].expires
    BY <1>1, <2>1, <2>3, ExpiresOfFirst
  <2>5. ExpiresOf(lines, g) = lines[k].expires
    BY <2>1, ExpiresOfFirst
  <2> QED
    BY <2>3, <2>4, <2>5 DEF new
<1>5. CASE g \notin FingerprintsOf(lines)
  BY <1>1, <1>5 DEF ExpiresOf, new
<1> QED
  BY <1>4, <1>5

(* A line added for one finding leaves the deadlines of the others.        *)
LEMMA MergedExpires ==
  ASSUME NEW lines \in Seq(Line), NEW line \in Line,
         NEW g, g # line.fingerprint
  PROVE  ExpiresOf(Append(lines, line), g) = ExpiresOf(lines, g)
<1> DEFINE new == Append(lines, line)
<1>1. /\ new \in Seq(Line)
      /\ DOMAIN new = 1 .. Len(lines) + 1 /\ DOMAIN lines = 1 .. Len(lines)
      /\ \A j \in DOMAIN lines : j \in DOMAIN new /\ new[j] = lines[j]
      /\ new[Len(lines) + 1] = line
  OBVIOUS
<1> HIDE DEF new
<1>2. \A j \in DOMAIN new :
         new[j].fingerprint = g => j \in DOMAIN lines /\ new[j] = lines[j]
  BY <1>1
<1>3. CASE g \in FingerprintsOf(lines)
  <2> DEFINE k == FirstIndex(lines, g)
  <2>1. /\ k \in DOMAIN lines /\ lines[k].fingerprint = g
        /\ \A j \in DOMAIN lines : lines[j].fingerprint = g => k <= j
    BY <1>3, FirstIndexIsFirst
  <2> HIDE DEF k
  <2>2. /\ k \in DOMAIN new /\ new[k] = lines[k]
        /\ \A j \in DOMAIN new : new[j].fingerprint = g => k <= j
    BY <1>1, <1>2, <2>1
  <2>3. ExpiresOf(new, g) = new[k].expires
    BY <1>1, <2>1, <2>2, ExpiresOfFirst
  <2>4. ExpiresOf(lines, g) = lines[k].expires
    BY <2>1, ExpiresOfFirst
  <2> QED
    BY <2>2, <2>3, <2>4 DEF new
<1>4. CASE g \notin FingerprintsOf(lines)
  <2>1. g \notin FingerprintsOf(new)
    BY <1>2, <1>4 DEF FingerprintsOf
  <2> QED
    BY <1>4, <2>1 DEF ExpiresOf, new
<1> QED
  BY <1>3, <1>4

(* A line deleted leaves the other findings accepted, with their deadlines. *)
LEMMA DeletedExpires ==
  ASSUME NEW lines \in Seq(Line), NEW i \in DOMAIN lines,
         NEW g, g # lines[i].fingerprint
  PROVE  /\ ExpiresOf(RemoveAt(lines, i), g) = ExpiresOf(lines, g)
         /\ g \in FingerprintsOf(lines)
              => g \in FingerprintsOf(RemoveAt(lines, i))
<1> DEFINE new  == RemoveAt(lines, i)
           pre  == SubSeq(lines, 1, i - 1)
           post == SubSeq(lines, i + 1, Len(lines))
           n    == Len(lines)
<1>0. new \in Seq(Line)
  BY DeletedLines
<1>1. n \in Nat /\ i \in 1 .. n /\ DOMAIN lines = 1 .. n
  OBVIOUS
<1>2. /\ pre \in Seq(Line) /\ Len(pre) = i - 1
      /\ \A j \in 1 .. i - 1 : pre[j] = lines[j]
  <2>1. \A j \in 1 .. i - 1 : lines[j] \in Line
    BY <1>1
  <2> QED
    BY <1>1, <2>1, SubSeqProperties
<1>3. /\ post \in Seq(Line) /\ Len(post) = n - i
      /\ \A j \in 1 .. n - i : post[j] = lines[i + j]
  <2>1. \A j \in i + 1 .. n : lines[j] \in Line
    BY <1>1
  <2> QED
    BY <1>1, <2>1, SubSeqProperties
<1>4. new = pre \o post
  BY DEF RemoveAt
<1> HIDE DEF new, pre, post, n
<1>5. /\ Len(new) = n - 1 /\ DOMAIN new = 1 .. n - 1
      /\ \A j \in 1 .. n - 1 : new[j] = IF j <= i - 1 THEN pre[j]
                                        ELSE post[j - (i - 1)]
  <2>1. /\ Len(new) = Len(pre) + Len(post)
        /\ \A j \in 1 .. Len(pre) + Len(post) :
              new[j] = IF j <= Len(pre) THEN pre[j] ELSE post[j - Len(pre)]
    BY <1>2, <1>3, <1>4, ConcatProperties
  <2>2. Len(pre) + Len(post) = n - 1
    BY <1>1, <1>2, <1>3
  <2> QED
    BY <1>0, <1>2, <2>1, <2>2
<1>6. \A j \in 1 .. i - 1 : new[j] = lines[j]
  BY <1>1, <1>2, <1>5
<1>7. \A j \in i .. n - 1 : new[j] = lines[j + 1]
  <2> TAKE j \in i .. n - 1
  <2> DEFINE r == j - (i - 1)
  <2>1. new[j] = post[r] /\ r \in 1 .. n - i /\ i + r = j + 1
    BY <1>1, <1>5
  <2> HIDE DEF r
  <2> QED
    BY <1>3, <2>1
<1>8. CASE g \in FingerprintsOf(lines)
  <2> DEFINE k == FirstIndex(lines, g)
  <2>1. /\ k \in DOMAIN lines /\ lines[k].fingerprint = g
        /\ \A j \in DOMAIN lines : lines[j].fingerprint = g => k <= j
    BY <1>8, FirstIndexIsFirst
  <2> HIDE DEF k
  <2>2. k # i
    BY <2>1
  <2> DEFINE m == IF k < i THEN k ELSE k - 1
  <2>3. m \in DOMAIN new /\ new[m] = lines[k]
    <3>1. CASE k < i
      BY <1>1, <1>5, <1>6, <2>1, <3>1
    <3>2. CASE ~ (k < i)
      <4>1. k - 1 \in i .. n - 1 /\ (k - 1) + 1 = k
        BY <1>1, <2>1, <2>2, <3>2
      <4>2. new[k - 1] = lines[(k - 1) + 1]
        BY <1>7, <4>1
      <4> QED
        BY <1>1, <1>5, <3>2, <4>1, <4>2
    <3> QED
      BY <3>1, <3>2
  <2>4. \A j \in DOMAIN new : new[j].fingerprint = g => m <= j
    <3> SUFFICES ASSUME NEW j \in DOMAIN new, new[j].fingerprint = g
                 PROVE  m <= j
      OBVIOUS
    <3>1. CASE j <= i - 1
      <4>1. j \in DOMAIN lines /\ lines[j].fingerprint = g
        BY <1>1, <1>5, <1>6, <3>1
      <4> QED
        BY <1>1, <2>1, <4>1
    <3>2. CASE ~ (j <= i - 1)
      <4>1. j + 1 \in DOMAIN lines /\ lines[j + 1].fingerprint = g
        BY <1>1, <1>5, <1>7, <3>2
      <4> QED
        BY <1>1, <1>5, <2>1, <2>2, <3>2, <4>1
    <3> QED
      BY <3>1, <3>2
  <2> HIDE DEF m
  <2>5. ExpiresOf(new, g) = new[m].expires
    BY <1>0, <2>1, <2>3, <2>4, ExpiresOfFirst
  <2>6. ExpiresOf(lines, g) = lines[k].expires
    BY <2>1, ExpiresOfFirst
  <2>7. g \in FingerprintsOf(new)
    BY <2>1, <2>3 DEF FingerprintsOf
  <2> QED
    BY <2>3, <2>5, <2>6, <2>7 DEF new
<1>9. CASE g \notin FingerprintsOf(lines)
  <2>1. g \notin FingerprintsOf(new)
    BY <1>9, DeletedLines DEF new
  <2> QED
    BY <1>9, <2>1 DEF ExpiresOf, new
<1> QED
  BY <1>8, <1>9

(* While a process loads, decides or rewrites, no other one does, and the  *)
(* accepted lines are its own while the file is truncated.                 *)
LEMMA OnlyWriter ==
  ASSUME OneRunning, NEW p \in Procs
  PROVE  /\ proc[p].pc = "truncated" => AcceptedLines = proc[p].base
         /\ proc[p].pc \in {"loaded", "saving"} => AcceptedLines = file.lines
<1>1. CASE proc[p].pc = "truncated"
  <2>1. Writers = {p}
    BY <1>1 DEF OneRunning, Writers
  <2> QED
    BY <1>1, <2>1 DEF AcceptedLines
<1>2. CASE proc[p].pc \in {"loaded", "saving"}
  <2>1. Writers = {}
    BY <1>2 DEF OneRunning, Writers
  <2> QED
    BY <1>2, <2>1 DEF AcceptedLines
<1> QED
  BY <1>1, <1>2

(* With nothing running, the accepted lines are the file's.                *)
LEMMA NoWriter ==
  ASSUME \A q \in Procs : proc[q].pc = "idle"
  PROVE  AcceptedLines = file.lines
BY DEF AcceptedLines, Writers

(* The only process that was running exits: nothing runs any more.         *)
LEMMA ExitLeavesNone ==
  ASSUME OneRunning, HoldsFile, proc \in [Procs -> ProcState], NEW p \in Procs,
         \A q \in Procs \ {p} : proc[q].pc = "idle",
         NEW verdict, NEW crashed, Exit(p, verdict, crashed)
  PROVE  OneRunning' /\ HoldsFile' /\ AcceptedLines' = file'.lines
<1>1. /\ Idle(verdict, crashed).pc = "idle"
      /\ Idle(verdict, crashed).lines = <<>>
  BY DEF Idle
<1>2. \A q \in Procs : /\ proc'[q].pc = "idle"
                       /\ Carries(proc'[q].lines, proc'[q].base)
  <2> SUFFICES ASSUME NEW q \in Procs
               PROVE  /\ proc'[q].pc = "idle"
                      /\ Carries(proc'[q].lines, proc'[q].base)
    OBVIOUS
  <2>1. CASE q = p
    BY <1>1, <2>1 DEF Exit, Carries
  <2>2. CASE q # p
    BY <2>2 DEF Exit, HoldsFile
  <2> QED
    BY <2>1, <2>2
<1> QED
  BY <1>2 DEF OneRunning, HoldsFile, AcceptedLines, Writers

(* The file a save leaves, all of it or a prefix and perhaps a torn line,  *)
(* keeps the deadlines of the lines that were loaded.                      *)
LEMMA WrittenDeadlines ==
  ASSUME TypeOK, SerialInv, NEW p \in Procs, proc[p].pc = "truncated",
         NEW lines \in Seq(Line), Carries(lines, proc[p].base),
         NEW partial \in BOOLEAN, file' \in Overwrite(lines, partial),
         NEW how, how # "no", aux_dropped' = Dropped(p, file'.lines, how),
         aux_deadline' = aux_deadline
  PROVE  \A f \in Fingerprints :
            aux_dropped'[f] = "no"
              => ExpiresOf(file'.lines, f) = aux_deadline'[f]
<1>1. file = [lines |-> <<>>, torn |-> FALSE]
  BY DEF SerialInv, HoldsFile
<1>2. file'.lines = lines
  BY <1>1 DEF Overwrite
<1> SUFFICES ASSUME NEW f \in Fingerprints, aux_dropped'[f] = "no"
             PROVE  ExpiresOf(lines, f) = aux_deadline[f]
  BY <1>2
<1>3. ~ (f \in FingerprintsOf(proc[p].base) \ FingerprintsOf(lines))
      /\ aux_dropped[f] = "no"
  BY <1>2 DEF Dropped
<1>4. ExpiresOf(proc[p].base, f) = aux_deadline[f]
  BY <1>3, OnlyWriter DEF SerialInv, DeadlinesAccepted
<1>5. CASE f \in FingerprintsOf(lines)
  BY <1>4, <1>5, CarriedExpires
<1>6. CASE f \notin FingerprintsOf(lines)
  BY <1>3, <1>4, <1>6 DEF ExpiresOf
<1> QED
  BY <1>5, <1>6

(* The same for a save of which a prefix reached the file.                 *)
LEMMA InterruptedDeadlines ==
  ASSUME TypeOK, SerialInv, NEW p \in Procs, proc[p].pc = "truncated",
         PartialWrite(p)
  PROVE  \A f \in Fingerprints :
            aux_dropped'[f] = "no"
              => ExpiresOf(file'.lines, f) = aux_deadline'[f]
<1>1. proc[p].lines \in Seq(Line) /\ Carries(proc[p].lines, proc[p].base)
  BY DEF TypeOK, ProcState, SerialInv, HoldsFile
<1>2. PICK n \in 0 .. Len(proc[p].lines), partial \in BOOLEAN :
         file' \in Overwrite(SubSeq(proc[p].lines, 1, n), partial)
  BY DEF PartialWrite
<1> DEFINE written == SubSeq(proc[p].lines, 1, n)
<1>3. written \in Seq(Line) /\ Carries(written, proc[p].base)
  BY <1>1, PrefixOfLines
<1>4. aux_dropped' = Dropped(p, file'.lines, "cut") /\ aux_deadline' = aux_deadline
  BY DEF PartialWrite
<1> HIDE DEF written
<1> QED
  BY <1>2, <1>3, <1>4, WrittenDeadlines DEF written

(* An edit by a human, when nothing runs.                                  *)
LEMMA EditedDeadlines ==
  ASSUME TypeOK, SerialInv, \A q \in Procs : proc[q].pc = "idle",
         NEW f \in Fingerprints, NEW lines, HumanEdit(f, lines),
         \A g \in Fingerprints \ {f} :
            ExpiresOf(lines, g) = ExpiresOf(file.lines, g)
  PROVE  SerialInv'
<1>1. file'.lines = lines /\ proc' = proc
  BY DEF HumanEdit, TypeOK, File
<1>2. OneRunning' /\ HoldsFile'
  BY <1>1 DEF SerialInv, OneRunning, HoldsFile
<1>3. AcceptedLines' = lines /\ AcceptedLines = file.lines
  BY <1>1, NoWriter DEF AcceptedLines, Writers
<1>4. DeadlinesAccepted'
  <2> SUFFICES ASSUME NEW g \in Fingerprints, aux_dropped'[g] = "no"
               PROVE  ExpiresOf(lines, g) = aux_deadline'[g]
    BY <1>3 DEF DeadlinesAccepted
  <2>1. CASE g = f
    BY <2>1 DEF HumanEdit, TypeOK
  <2>2. CASE g # f
    <3>1. aux_dropped[g] = "no" /\ aux_deadline'[g] = aux_deadline[g]
      BY <2>2 DEF HumanEdit, TypeOK
    <3> QED
      BY <1>3, <2>2, <3>1 DEF SerialInv, DeadlinesAccepted
  <2> QED
    BY <2>1, <2>2
<1> QED
  BY <1>2, <1>4 DEF SerialInv

(* Nothing but an update and its save changes the file, and nothing but a  *)
(* human edit changes a deadline.                                          *)
LEMMA SerialStep ==
  ASSUME Serial, TypeOK, SerialInv, [Next]_vars
  PROVE  SerialInv'
<1> USE DEF env, aux
<1>0. /\ file \in File /\ file.lines \in Seq(Line)
      /\ proc \in [Procs -> ProcState]
      /\ \A p \in Procs : proc[p].base \in Seq(Line) /\ proc[p].lines \in Seq(Line)
  BY DEF TypeOK, File, ProcState
(* With one process running, its exit leaves none; if the exit touches no  *)
(* file, the invariant goes on.                                            *)
<1>a. ASSUME NEW p \in Procs, proc[p].pc # "idle",
             NEW verdict, NEW crashed, Exit(p, verdict, crashed)
      PROVE  OneRunning' /\ HoldsFile' /\ AcceptedLines' = file'.lines
  <2>1. \A q \in Procs \ {p} : proc[q].pc = "idle"
    BY <1>a DEF SerialInv, OneRunning
  <2> QED
    BY <1>0, <1>a, <2>1, ExitLeavesNone DEF SerialInv
<1>b. ASSUME NEW p \in Procs, proc[p].pc \in {"loaded", "saving"},
             NEW verdict, NEW crashed, Exit(p, verdict, crashed),
             UNCHANGED <<file, aux>>
      PROVE  SerialInv'
  <2>1. OneRunning' /\ HoldsFile' /\ AcceptedLines' = file'.lines
    BY <1>a, <1>b
  <2>2. AcceptedLines' = AcceptedLines
    BY <1>b, <2>1, OnlyWriter DEF SerialInv
  <2>3. DeadlinesAccepted'
    BY <1>b, <2>2 DEF SerialInv, DeadlinesAccepted
  <2> QED
    BY <2>1, <2>3 DEF SerialInv
<1>c. ASSUME Alone
      PROVE  \A q \in Procs : proc[q].pc = "idle"
  BY <1>c DEF Alone
<1>1. ASSUME NEW p \in Procs, NEW update \in BOOLEAN, Load(p, update)
      PROVE  SerialInv'
  <2>0. /\ \A q \in Procs : proc[q].pc = "idle"
        /\ UNCHANGED <<file, aux>>
    BY <1>1, <1>c DEF Load
  <2>1. AcceptedLines = file.lines
    BY <2>0, NoWriter
  <2>2. CASE file.torn
    <3>1. OneRunning' /\ HoldsFile' /\ AcceptedLines' = file'.lines
      BY <1>0, <1>1, <2>0, <2>2, ExitLeavesNone DEF Load, SerialInv
    <3>2. DeadlinesAccepted'
      BY <2>0, <2>1, <3>1 DEF SerialInv, DeadlinesAccepted
    <3> QED
      BY <3>1, <3>2 DEF SerialInv
  <2>3. CASE ~ file.torn
    <3> DEFINE held == [Idle("none", FALSE) EXCEPT !.pc = "loaded",
                          !.update = update, !.base = file.lines]
    <3>1. held.pc = "loaded" /\ held.base = file.lines /\ held.lines = <<>>
      BY DEF Idle
    <3>2. proc' = [proc EXCEPT ![p] = held]
      BY <1>1, <2>3 DEF Load
    <3>3. file = [lines |-> file.lines, torn |-> FALSE]
      BY <1>0, <2>3 DEF File
    <3> HIDE DEF held
    <3>4. /\ proc'[p] = held
          /\ \A q \in Procs \ {p} : proc'[q] = proc[q] /\ proc'[q].pc = "idle"
      BY <1>0, <2>0, <3>2
    <3>5. OneRunning'
      BY <3>4 DEF OneRunning
    <3>6. HoldsFile'
      <4>1. Carries(held.lines, held.base)
        BY <3>1 DEF Carries
      <4> QED
        BY <2>0, <3>1, <3>3, <3>4, <4>1 DEF HoldsFile, SerialInv
    <3>7. AcceptedLines' = AcceptedLines
      <4>1. Writers' = {}
        BY <3>1, <3>4 DEF Writers
      <4> QED
        BY <2>0, <2>1, <4>1 DEF AcceptedLines
    <3>8. DeadlinesAccepted'
      BY <2>0, <3>7 DEF SerialInv, DeadlinesAccepted
    <3> QED
      BY <3>5, <3>6, <3>8 DEF SerialInv
  <2> QED
    BY <2>2, <2>3
<1>2. ASSUME NEW p \in Procs, SarifUnreadable(p)
      PROVE  SerialInv'
  BY <1>2, <1>b DEF SarifUnreadable
<1>3. ASSUME NEW p \in Procs, NEW runs \in [Tools -> Runs], RefuseRuns(p, runs)
      PROVE  SerialInv'
  BY <1>3, <1>b DEF RefuseRuns
<1>4. ASSUME NEW p \in Procs, NEW runs \in [Tools -> Runs], Check(p, runs)
      PROVE  SerialInv'
  BY <1>4, <1>b DEF Check
<1>5. ASSUME NEW p \in Procs, NEW runs \in [Tools -> Runs], Rewrite(p, runs)
      PROVE  SerialInv'
  <2> DEFINE S == merge(runs, Tools).results
  <2>1. S \in SUBSET Fingerprints
    BY MergedResults
  <2>2. PICK order \in SetToSeqs(S) :
          proc' = [proc EXCEPT ![p].pc = "saving",
                               ![p].lines = rewrite(proc[p].base, order),
                               ![p].healthy = AllHealthy(runs),
                               ![p].crashed = Crashed(runs)]
    BY <1>5 DEF Rewrite
  <2>3. Carries(rewrite(proc[p].base, order), proc[p].base)
    BY <1>0, <2>1, RewrittenLines
  <2>4. /\ proc'[p].pc = "saving" /\ proc'[p].base = proc[p].base
        /\ Carries(proc'[p].lines, proc'[p].base)
        /\ \A q \in Procs \ {p} : proc'[q] = proc[q]
    BY <1>0, <2>2, <2>3 DEF ProcState
  <2>5. proc[p].pc = "loaded" /\ file' = file
        /\ aux_deadline' = aux_deadline /\ aux_dropped' = aux_dropped
    BY <1>5 DEF Rewrite
  <2>6. OneRunning'
    BY <2>4, <2>5 DEF SerialInv, OneRunning
  <2>7. HoldsFile'
    BY <2>4, <2>5 DEF SerialInv, HoldsFile
  <2>8. AcceptedLines' = AcceptedLines
    <3>1. Writers' = {} /\ Writers = {}
      BY <2>4, <2>5 DEF Writers, SerialInv, OneRunning
    <3> QED
      BY <2>5, <3>1 DEF AcceptedLines
  <2>9. DeadlinesAccepted'
    BY <2>5, <2>8 DEF SerialInv, DeadlinesAccepted
  <2> QED
    BY <2>6, <2>7, <2>9 DEF SerialInv
<1>6. ASSUME NEW p \in Procs, SaveRefused(p)
      PROVE  SerialInv'
  BY <1>6, <1>b DEF SaveRefused
<1>7. ASSUME NEW p \in Procs, Truncate(p)
      PROVE  SerialInv'
  <2>1. /\ proc'[p].pc = "truncated"
        /\ proc'[p].base = proc[p].base /\ proc'[p].lines = proc[p].lines
        /\ \A q \in Procs \ {p} : proc'[q] = proc[q]
    BY <1>0, <1>7 DEF Truncate, ProcState
  <2>2. /\ proc[p].pc = "saving" /\ file' = [lines |-> <<>>, torn |-> FALSE]
        /\ aux_deadline' = aux_deadline /\ aux_dropped' = aux_dropped
    BY <1>7 DEF Truncate
  <2>3. \A q \in Procs \ {p} : proc[q].pc = "idle"
    BY <2>2 DEF SerialInv, OneRunning
  <2>4. OneRunning' /\ HoldsFile'
    BY <2>1, <2>2, <2>3 DEF SerialInv, OneRunning, HoldsFile
  <2>5. AcceptedLines' = AcceptedLines
    <3>1. AcceptedLines = proc[p].base
      BY <2>2, OnlyWriter DEF SerialInv, HoldsFile
    <3>2. Writers' = {p}
      BY <2>1, <2>3 DEF Writers
    <3>3. AcceptedLines' = proc'[p].base
      BY <3>2 DEF AcceptedLines
    <3> QED
      BY <2>1, <3>1, <3>3
  <2>6. DeadlinesAccepted'
    BY <2>2, <2>5 DEF SerialInv, DeadlinesAccepted
  <2> QED
    BY <2>4, <2>6 DEF SerialInv
<1>8. ASSUME NEW p \in Procs, WriteAll(p)
      PROVE  SerialInv'
  <2>1. OneRunning' /\ HoldsFile' /\ AcceptedLines' = file'.lines
    BY <1>8, <1>a DEF WriteAll
  <2>2. PICK how \in {"pruned", "missed"} :
          aux_dropped' = Dropped(p, file'.lines, how)
    BY <1>8 DEF WriteAll
  <2>3. DeadlinesAccepted'
    BY <1>0, <1>8, <2>1, <2>2, WrittenDeadlines
       DEF WriteAll, DeadlinesAccepted, SerialInv, HoldsFile
  <2> QED
    BY <2>1, <2>3 DEF SerialInv
<1>9. ASSUME NEW p \in Procs, WriteFails(p)
      PROVE  SerialInv'
  <2>1. OneRunning' /\ HoldsFile' /\ AcceptedLines' = file'.lines
    BY <1>9, <1>a DEF WriteFails
  <2>2. DeadlinesAccepted'
    BY <1>9, <2>1, InterruptedDeadlines DEF WriteFails, DeadlinesAccepted
  <2> QED
    BY <2>1, <2>2 DEF SerialInv
<1>10. ASSUME NEW p \in Procs, Kill(p)
       PROVE  SerialInv'
  <2>1. CASE proc[p].pc = "truncated"
    <3>1. OneRunning' /\ HoldsFile' /\ AcceptedLines' = file'.lines
      BY <1>10, <1>a DEF Kill
    <3>2. DeadlinesAccepted'
      BY <1>10, <2>1, <3>1, InterruptedDeadlines DEF Kill, DeadlinesAccepted
    <3> QED
      BY <3>1, <3>2 DEF SerialInv
  <2>2. CASE proc[p].pc # "truncated"
    <3>1. proc[p].pc \in {"loaded", "saving"}
      BY <1>0, <1>10, <2>2 DEF Kill, ProcState
    <3> QED
      BY <1>10, <1>b, <2>2, <3>1 DEF Kill
  <2> QED
    BY <2>1, <2>2
<1>11. ASSUME Human
       PROVE  SerialInv'
  <2>0. \A i \in DOMAIN file.lines : file.lines[i].fingerprint \in Fingerprints
    BY <1>0, FingerprintsOfType DEF FingerprintsOf
  <2>1. \A d \in Deadlines \cup {NoDate} : d \in Date
    BY RatchetAssumption DEF Deadlines, Date
  <2>2. ASSUME NEW i \in DOMAIN file.lines, NEW d \in Deadlines, SetDeadline(i, d)
        PROVE  SerialInv'
    <3>1. \A g \in Fingerprints \ {file.lines[i].fingerprint} :
             ExpiresOf([file.lines EXCEPT ![i].expires = d], g)
               = ExpiresOf(file.lines, g)
      BY <1>0, <2>1, SetDeadlineExpires
    <3>2. \A q \in Procs : proc[q].pc = "idle"
      BY <1>c, <2>2 DEF SetDeadline, HumanEdit
    <3> QED
      BY <2>0, <2>2, <3>1, <3>2, EditedDeadlines DEF SetDeadline
  <2>3. ASSUME NEW i \in DOMAIN file.lines, DeleteLine(i)
        PROVE  SerialInv'
    <3>1. \A g \in Fingerprints \ {file.lines[i].fingerprint} :
             ExpiresOf(RemoveAt(file.lines, i), g) = ExpiresOf(file.lines, g)
      BY <1>0, DeletedExpires
    <3>2. \A q \in Procs : proc[q].pc = "idle"
      BY <1>c, <2>3 DEF DeleteLine, HumanEdit
    <3> QED
      BY <2>0, <2>3, <3>1, <3>2, EditedDeadlines DEF DeleteLine
  <2>4. ASSUME NEW i \in DOMAIN file.lines, NEW d \in Deadlines \cup {NoDate},
               MergeLine(i, d)
        PROVE  SerialInv'
    <3> DEFINE line == [file.lines[i] EXCEPT !.expires = d]
    <3>0. file.lines[i] \in Line
      BY <1>0
    <3>1. line \in Line /\ line.fingerprint = file.lines[i].fingerprint
      BY <2>1, <3>0 DEF Line
    <3> HIDE DEF line
    <3>2. \A g \in Fingerprints \ {file.lines[i].fingerprint} :
             ExpiresOf(Append(file.lines, line), g) = ExpiresOf(file.lines, g)
      BY <1>0, <3>1, MergedExpires
    <3>3. \A q \in Procs : proc[q].pc = "idle"
      BY <1>c, <2>4 DEF MergeLine, HumanEdit
    <3> QED
      BY <2>0, <2>4, <3>2, <3>3, EditedDeadlines DEF MergeLine, line
  <2>5. CASE Mangle
    <3>1. \A q \in Procs : proc[q].pc = "idle"
      BY <1>c, <2>5 DEF Mangle
    <3>2. /\ file'.lines = file.lines /\ proc' = proc
          /\ aux_deadline' = aux_deadline /\ aux_dropped' = aux_dropped
      BY <1>0, <2>5 DEF Mangle, File
    <3>3. AcceptedLines' = AcceptedLines
      BY <3>1, <3>2 DEF AcceptedLines, Writers
    <3> QED
      BY <3>1, <3>2, <3>3
         DEF SerialInv, OneRunning, HoldsFile, DeadlinesAccepted
  <2> QED
    BY <1>11, <2>2, <2>3, <2>4, <2>5 DEF Human
<1>12. ASSUME UNCHANGED <<file, proc, aux>>
       PROVE  SerialInv'
  BY <1>12 DEF SerialInv, OneRunning, HoldsFile, DeadlinesAccepted,
               AcceptedLines, Writers
<1>13. World \/ UNCHANGED vars => UNCHANGED <<file, proc, aux>>
  BY DEF World, TouchTree, Tick, vars
<1> QED
  BY <1>1, <1>2, <1>3, <1>4, <1>5, <1>6, <1>7, <1>8, <1>9, <1>10, <1>11,
     <1>12, <1>13 DEF Next, Judged

(* SerialInv holds as long as invocations and edits do not overlap.        *)
LEMMA SerialInvariant ==
  ASSUME Serial
  PROVE  Spec => []SerialInv
<1>1. Init => SerialInv
  BY NoLines DEF Init, SerialInv, OneRunning, HoldsFile, DeadlinesAccepted,
                 AcceptedLines, Writers, Idle, Carries, ExpiresOf
<1>2. TypeOK /\ SerialInv /\ [Next]_vars => SerialInv'
  BY SerialStep
<1> QED
  BY <1>1, <1>2, TypeCorrect, PTL DEF Spec

(* The deadline on a line is the one a human last gave it, through any     *)
(* number of updates, failed saves and kills and for any number of lines,  *)
(* as long as nothing overlaps and no rewrite removed it (DeadlineKept).   *)
THEOREM DeadlinesCorrect ==
  ASSUME Serial
  PROVE  Spec => []DeadlineKept
<1>1. SerialInv /\ TypeOK => DeadlineKept
  <2> SUFFICES ASSUME SerialInv, TypeOK, NEW f \in FingerprintsOf(file.lines),
                      aux_dropped[f] = "no"
               PROVE  ExpiresOf(file.lines, f) = aux_deadline[f]
    BY DEF DeadlineKept
  <2>1. f \in Fingerprints
    BY FingerprintsOfType DEF TypeOK, File
  <2>2. \A p \in Procs : proc[p].pc # "truncated"
    BY NoLines DEF SerialInv, HoldsFile
  <2>3. AcceptedLines = file.lines
    BY <2>2 DEF AcceptedLines, Writers
  <2> QED
    BY <2>1, <2>3 DEF SerialInv, DeadlinesAccepted
<1> QED
  BY <1>1, SerialInvariant, TypeCorrect, PTL

(* A step by which a check ends exits 0 only if no accepted deadline has   *)
(* passed.                                                                 *)
LEMMA CleanCheck ==
  ASSUME TypeOK, SerialInv, NEW p \in Procs, NEW runs \in [Tools -> Runs],
         Check(p, runs), exit_code(proc'[p].verdict) = 0,
         NEW f \in FingerprintsOf(proc[p].base),
         aux_dropped[f] = "no", aux_deadline[f] # NoDate
  PROVE  aux_deadline[f] # BadDate /\ aux_deadline[f] > clock
<1> DEFINE base == proc[p].base
           verdict == ratchet(base, merge(runs, Tools), ExpectedTotal)
<1>1. base \in Seq(Line) /\ clock \in Nat /\ proc \in [Procs -> ProcState]
  BY DEF TypeOK, ProcState
<1>2. f \in Fingerprints
  BY <1>1, FingerprintsOfType
<1>3. aux_deadline[f] \in Date
  BY <1>2 DEF TypeOK
<1>4. ExpiresOf(base, f) = aux_deadline[f]
  <2>1. AcceptedLines = base
    BY OnlyWriter DEF Check, SerialInv, HoldsFile
  <2> QED
    BY <1>2, <2>1 DEF SerialInv, DeadlinesAccepted
<1>5. verdict = "Clean"
  <2>1. proc'[p].verdict = verdict
    BY <1>1 DEF Check, Exit, Idle
  <2>2. verdict \in {"RefusedByMerge", "Rot", "NewFindings", "Clean"}
    BY DEF ratchet
  <2> HIDE DEF verdict
  <2> QED
    BY <2>1, <2>2 DEF exit_code
<1>6. ~ is_rotten(base, merge(runs, Tools).results)
  BY <1>5 DEF ratchet
<1> DEFINE i == FirstIndex(base, f)
<1>7. i \in DOMAIN base /\ base[i].expires = aux_deadline[f]
  BY <1>1, <1>4, FirstIndexIsFirst DEF ExpiresOf
<1>8. detect_rot(base[i], merge(runs, Tools).results) = "none"
  BY <1>6, <1>7 DEF is_rotten
<1>9. ~ has_expired(aux_deadline[f], clock)
  BY <1>7, <1>8 DEF detect_rot
<1> QED
  BY <1>1, <1>3, <1>9 DEF has_expired, Date

(* Without overlap, a check exits 0 only while every deadline a human set  *)
(* is in the future (PassedDeadlineStaysRed): no update, failed save or    *)
(* kill turns a passed one green.                                          *)
THEOREM DeadlinesStayRed ==
  ASSUME Serial
  PROVE  Spec => PassedDeadlineStaysRed
<1> DEFINE ExitsGreen(p) ==
      /\ proc[p].pc = "loaded" /\ ~ proc[p].update
      /\ proc'[p].pc = "idle" /\ exit_code(proc'[p].verdict) = 0
    NoneHasPassed(p) ==
      \A f \in FingerprintsOf(proc[p].base) :
         aux_dropped[f] = "no" /\ aux_deadline[f] # NoDate
           => aux_deadline[f] # BadDate /\ aux_deadline[f] > clock
<1>1. ASSUME TypeOK, SerialInv, [Next]_vars
      PROVE  \A p \in Procs : ExitsGreen(p) => NoneHasPassed(p)
  <2> SUFFICES ASSUME NEW p \in Procs, ExitsGreen(p)
               PROVE  NoneHasPassed(p)
    OBVIOUS
  <2>0. proc \in [Procs -> ProcState] /\ proc'[p] # proc[p]
    BY <1>1 DEF TypeOK
  <2>1. PICK q \in Procs : Judged(q)
    BY <1>1, <2>0
       DEF Next, Human, SetDeadline, DeleteLine, MergeLine, HumanEdit, Mangle,
           World, TouchTree, Tick, vars
  <2>2. q = p
    BY <2>0, <2>1
       DEF Judged, Load, SarifUnreadable, RefuseRuns, Check, Rewrite,
           SaveRefused, Truncate, WriteAll, WriteFails, Kill, Exit
  <2>3. PICK runs \in [Tools -> Runs] : Check(p, runs)
    <3>1. ASSUME NEW verdict, NEW crashed, Exit(p, verdict, crashed)
          PROVE  proc'[p].verdict = verdict
      BY <2>0, <3>1 DEF Exit, Idle
    <3>2. exit_code("Refused") # 0 /\ exit_code("Killed") # 0
      BY DEF exit_code
    <3>3. \A update \in BOOLEAN : ~ Load(p, update)
      BY DEF Load
    <3>4. ~ SarifUnreadable(p) /\ ~ Kill(p)
      BY <3>1, <3>2 DEF SarifUnreadable, Kill
    <3>5. \A runs \in [Tools -> Runs] : ~ RefuseRuns(p, runs) /\ ~ Rewrite(p, runs)
      BY <3>1, <3>2 DEF RefuseRuns, Rewrite
    <3>6. ~ SaveRefused(p) /\ ~ Truncate(p) /\ ~ WriteAll(p) /\ ~ WriteFails(p)
      BY DEF SaveRefused, Truncate, WriteAll, WriteFails
    <3> QED
      BY <2>1, <2>2, <3>3, <3>4, <3>5, <3>6 DEF Judged
  <2> QED
    BY <1>1, <2>3, CleanCheck
<1> QED
  BY <1>1, SerialInvariant, TypeCorrect, PTL DEF Spec, PassedDeadlineStaysRed

-----------------------------------------------------------------------------
(* Interrupted saves.                                                      *)

(* A rewrite has one line for each finding of the run.                     *)
LEMMA RewriteHasOneLineEach ==
  ASSUME NEW base, NEW S, NEW order \in SetToSeqs(S)
  PROVE  OneLineEach(rewrite(base, order))
<1>1. \A i, j \in DOMAIN order : order[i] = order[j] => i = j
  BY DEF SetToSeqs
<1>2. /\ DOMAIN rewrite(base, order) = DOMAIN order
      /\ \A i \in DOMAIN order : rewrite(base, order)[i].fingerprint = order[i]
  BY DEF rewrite
<1> QED
  BY <1>1, <1>2 DEF OneLineEach

LEMMA CutStep == TypeOK /\ SerialInv /\ CutInv /\ [Next]_vars => CutInv'
<1> SUFFICES ASSUME TypeOK, SerialInv, CutInv, [Next]_vars
             PROVE  CutInv'
  OBVIOUS
<1>0. proc \in [Procs -> ProcState] /\ OneLineEach(<<>>)
  BY DEF TypeOK, OneLineEach
(* Steps that leave the file as it is and write no lines.                  *)
<1>a. ASSUME UNCHANGED <<file, aux_cut>>,
             \A p \in Procs : proc'[p].lines \in {proc[p].lines, <<>>}
      PROVE  CutInv'
  BY <1>0, <1>a DEF CutInv
(* Steps that end the interruption.                                        *)
<1>b. ASSUME aux_cut' = <<>>,
             \A p \in Procs : proc'[p].lines \in {proc[p].lines, <<>>}
      PROVE  CutInv'
  BY <1>0, <1>b DEF CutInv
<1>c. ASSUME NEW p \in Procs, NEW verdict, NEW crashed, Exit(p, verdict, crashed)
      PROVE  \A q \in Procs : proc'[q].lines \in {proc[q].lines, <<>>}
  BY <1>0, <1>c DEF Exit, Idle
<1>1. ASSUME NEW p \in Procs, NEW update \in BOOLEAN, Load(p, update)
      PROVE  CutInv'
  <2>1. \A q \in Procs : proc'[q].lines \in {proc[q].lines, <<>>}
    <3>1. CASE file.torn
      BY <1>1, <1>c, <3>1 DEF Load
    <3>2. CASE ~ file.torn
      BY <1>0, <1>1, <3>2 DEF Load, Idle
    <3> QED
      BY <3>1, <3>2
  <2> QED
    BY <1>1, <1>a, <2>1 DEF Load, aux
<1>2. ASSUME NEW p \in Procs, SarifUnreadable(p) \/ SaveRefused(p)
      PROVE  CutInv'
  BY <1>2, <1>a, <1>c DEF SarifUnreadable, SaveRefused, aux
<1>3. ASSUME NEW p \in Procs, NEW runs \in [Tools -> Runs],
             RefuseRuns(p, runs) \/ Check(p, runs)
      PROVE  CutInv'
  BY <1>3, <1>a, <1>c DEF RefuseRuns, Check, aux
<1>4. ASSUME NEW p \in Procs, NEW runs \in [Tools -> Runs], Rewrite(p, runs)
      PROVE  CutInv'
  <2>1. PICK order \in SetToSeqs(merge(runs, Tools).results) :
          proc' = [proc EXCEPT ![p].pc = "saving",
                               ![p].lines = rewrite(proc[p].base, order),
                               ![p].healthy = AllHealthy(runs),
                               ![p].crashed = Crashed(runs)]
    BY <1>4 DEF Rewrite
  <2>2. OneLineEach(rewrite(proc[p].base, order))
    BY RewriteHasOneLineEach
  <2>3. \A q \in Procs : proc'[q].lines = IF q = p THEN rewrite(proc[p].base, order)
                                                   ELSE proc[q].lines
    BY <1>0, <2>1 DEF ProcState
  <2>4. \A q \in Procs : OneLineEach(proc'[q].lines)
    BY <2>2, <2>3 DEF CutInv
  <2> QED
    BY <1>4, <2>4 DEF CutInv, Rewrite
<1>5. ASSUME NEW p \in Procs, Truncate(p)
      PROVE  CutInv'
  BY <1>0, <1>5, <1>b DEF Truncate, ProcState
<1>6. ASSUME NEW p \in Procs, WriteAll(p)
      PROVE  CutInv'
  BY <1>6, <1>b, <1>c DEF WriteAll
<1>7. ASSUME NEW p \in Procs, proc[p].pc = "truncated", PartialWrite(p),
             NEW verdict, NEW crashed, Exit(p, verdict, crashed)
      PROVE  CutInv'
  <2> DEFINE lines == proc[p].lines
  <2>1. PICK n \in 0 .. Len(lines), partial \in BOOLEAN :
          file' \in Overwrite(SubSeq(lines, 1, n), partial)
    BY <1>7 DEF PartialWrite
  <2>2. file.lines = <<>>
    BY <1>7 DEF SerialInv, HoldsFile
  <2>3. file'.lines = SubSeq(lines, 1, n) /\ aux_cut' = lines
    BY <1>7, <2>1, <2>2 DEF Overwrite, PartialWrite
  <2>4. OneLineEach(lines) /\ \A q \in Procs : OneLineEach(proc'[q].lines)
    BY <1>0, <1>7, <1>c DEF CutInv
  <2> QED
    BY <2>3, <2>4 DEF CutInv
<1>8. ASSUME NEW p \in Procs, WriteFails(p) PROVE CutInv'
  BY <1>7, <1>8 DEF WriteFails
<1>9. ASSUME NEW p \in Procs, Kill(p) PROVE CutInv'
  <2>1. CASE proc[p].pc = "truncated"
    BY <1>7, <1>9, <2>1 DEF Kill
  <2>2. CASE proc[p].pc # "truncated"
    BY <1>9, <1>a, <1>c, <2>2 DEF Kill, aux
  <2> QED
    BY <2>1, <2>2
<1>10. ASSUME Human PROVE CutInv'
  <2>1. aux_cut' = <<>> /\ proc' = proc
    BY <1>10 DEF Human, SetDeadline, DeleteLine, MergeLine, HumanEdit, Mangle
  <2> QED
    BY <1>b, <2>1
<1>11. ASSUME World \/ UNCHANGED vars PROVE CutInv'
  <2>1. UNCHANGED <<file, aux_cut, proc>>
    BY <1>11 DEF World, TouchTree, Tick, vars, aux
  <2> QED
    BY <1>a, <2>1
<1> QED
  BY <1>1, <1>2, <1>3, <1>4, <1>5, <1>6, <1>8, <1>9, <1>10, <1>11 DEF Next, Judged

(* Without overlap, what an interrupted save left does not check clean     *)
(* against a log with the findings it was accepting, unless every line had *)
(* been written (InterruptedSaveIsLoud).                                   *)
THEOREM InterruptedIsLoud ==
  ASSUME Serial
  PROVE  Spec => []InterruptedSaveIsLoud
<1>1. Init => CutInv
  BY DEF Init, CutInv, Idle, OneLineEach
<1>2. TypeOK /\ CutInv => InterruptedSaveIsLoud
  <2> SUFFICES ASSUME TypeOK, CutInv,
                      file.lines # aux_cut, aux_cut # <<>>, ~ file.torn,
                      NEW run \in Runs, FingerprintsOf(aux_cut) \subseteq run.results,
                      ratchet(file.lines, run, Expected) = "Clean"
               PROVE  FALSE
    BY DEF InterruptedSaveIsLoud
  <2>1. aux_cut \in Seq(Line)
    BY DEF TypeOK
  <2>2. PICK n \in 0 .. Len(aux_cut) : file.lines = SubSeq(aux_cut, 1, n)
    BY DEF CutInv
  <2>3. n < Len(aux_cut)
    <3> DEFINE pre == SubSeq(aux_cut, 1, Len(aux_cut))
    <3>0. \A i \in 1 .. Len(aux_cut) : aux_cut[i] \in Line
      BY <2>1
    <3>a. /\ pre \in Seq(Line) /\ Len(pre) = Len(aux_cut)
          /\ \A i \in 1 .. Len(aux_cut) : pre[i] = aux_cut[i]
      BY <2>1, <3>0, SubSeqProperties
    <3>1. pre = aux_cut
      <4> HIDE DEF pre
      <4> QED
        BY <2>1, <3>a, SeqEqual
    <3>2. n # Len(aux_cut)
      BY <2>2, <3>1, Zenon
    <3>3. Len(aux_cut) \in Nat
      BY <2>1
    <3> QED
      BY <3>2, <3>3
  <2>4. /\ Len(file.lines) = n
        /\ \A i \in 1 .. n : file.lines[i] = aux_cut[i]
        /\ DOMAIN file.lines = 1 .. n
    <3>1. \A i \in 1 .. n : aux_cut[i] \in Line
      BY <2>1
    <3> QED
      BY <2>1, <2>2, <3>1, SubSeqProperties
  <2> DEFINE f == aux_cut[n + 1].fingerprint
  <2>5. n + 1 \in DOMAIN aux_cut
    BY <2>1, <2>3
  <2>6. f \notin FingerprintsOf(file.lines)
    <3>1. ASSUME NEW i \in 1 .. n, aux_cut[i].fingerprint = f PROVE FALSE
      BY <2>1, <2>5, <3>1 DEF CutInv, OneLineEach
    <3> QED
      BY <2>4, <3>1 DEF FingerprintsOf
  <2>7. f \in run.results
    BY <2>5 DEF FingerprintsOf
  <2>8. new_findings(file.lines, run.results) = {}
    BY DEF ratchet
  <2> QED
    BY <2>6, <2>7, <2>8 DEF new_findings
<1> QED
  BY <1>1, <1>2, CutStep, SerialInvariant, TypeCorrect, PTL DEF Spec

-----------------------------------------------------------------------------
(* Refinement.                                                             *)

(* Steps that leave the accepted lines alone.                              *)
LEMMA SameAmnesties ==
  ASSUME AcceptedLines' = AcceptedLines, Writers' = Writers,
         aux_vouched' = aux_vouched
  PROVE  UNCHANGED <<AmnestyOf(AcceptedLines), aux_vouched, Writers # {}>>
OBVIOUS

(* The end of a save, complete or not, is the end of a rewrite.            *)
LEMMA SaveEndsRewrite ==
  ASSUME TypeOK, SerialInv, VouchedInv, NEW p \in Procs,
         proc[p].pc = "truncated", NEW lines \in Seq(Line),
         Carries(lines, proc[p].base), NEW partial \in BOOLEAN,
         file' \in Overwrite(lines, partial),
         FingerprintsOf(lines) \subseteq aux_vouched,
         AcceptedLines' = file'.lines, Writers' = {},
         aux_vouched' = aux_vouched
  PROVE  Abstract!AmnestyNext
<1> DEFINE base == proc[p].base
           kept == FingerprintsOf(lines)
<1>1. file = [lines |-> <<>>, torn |-> FALSE]
  BY DEF SerialInv, HoldsFile
<1>2. file'.lines = lines
  BY <1>1 DEF Overwrite
<1>3. AcceptedLines = base /\ Writers # {}
  BY OnlyWriter DEF SerialInv, Writers
<1>4. AmnestyOf(lines) = [f \in kept |-> IF f \in FingerprintsOf(base)
                                         THEN AmnestyOf(base)[f] ELSE NoDate]
  <2>1. \A f \in kept : ExpiresOf(lines, f) = ExpiresOf(base, f)
    BY CarriedExpires
  <2>2. \A f \in kept : ExpiresOf(base, f) = IF f \in FingerprintsOf(base)
                                              THEN AmnestyOf(base)[f] ELSE NoDate
    BY DEF AmnestyOf, ExpiresOf
  <2> QED
    BY <2>1, <2>2 DEF AmnestyOf
<1>5. DOMAIN AmnestyOf(base) = FingerprintsOf(base)
  BY DEF AmnestyOf
<1>6. kept \in SUBSET Fingerprints
  BY FingerprintsOfType
<1>7. Abstract!EndRewrite(kept)
  BY <1>2, <1>3, <1>4, <1>5 DEF Abstract!EndRewrite
<1> QED
  BY <1>6, <1>7 DEF Abstract!AmnestyNext

(* So is the end of a save that failed or was killed half way.             *)
LEMMA InterruptionEndsRewrite ==
  ASSUME TypeOK, SerialInv, VouchedInv, NEW p \in Procs,
         proc[p].pc = "truncated", PartialWrite(p),
         AcceptedLines' = file'.lines, Writers' = {}
  PROVE  Abstract!AmnestyNext
<1>1. proc[p].lines \in Seq(Line) /\ Carries(proc[p].lines, proc[p].base)
  BY DEF TypeOK, ProcState, SerialInv, HoldsFile
<1>2. PICK n \in 0 .. Len(proc[p].lines), partial \in BOOLEAN :
         file' \in Overwrite(SubSeq(proc[p].lines, 1, n), partial)
  BY DEF PartialWrite
<1> DEFINE written == SubSeq(proc[p].lines, 1, n)
<1>3. /\ written \in Seq(Line) /\ Carries(written, proc[p].base)
      /\ FingerprintsOf(written) \subseteq aux_vouched
  BY <1>1, PrefixOfLines DEF VouchedInv
<1>4. aux_vouched' = aux_vouched
  BY DEF PartialWrite
<1> HIDE DEF written
<1> QED
  BY <1>2, <1>3, <1>4, SaveEndsRewrite DEF written

(* An edit is a decision about the finding whose lines it concerns.        *)
LEMMA EditDecides ==
  ASSUME TypeOK, \A q \in Procs : proc[q].pc = "idle",
         NEW f \in FingerprintsOf(file.lines), NEW lines \in Seq(Line),
         HumanEdit(f, lines),
         FingerprintsOf(file.lines) \ {f} \subseteq FingerprintsOf(lines),
         FingerprintsOf(lines) \subseteq FingerprintsOf(file.lines),
         \A g \in Fingerprints \ {f} :
            ExpiresOf(lines, g) = ExpiresOf(file.lines, g)
  PROVE  Abstract!AmnestyNext
<1> DEFINE old == AmnestyOf(file.lines)
           new == AmnestyOf(lines)
<1>0. FingerprintsOf(file.lines) \subseteq Fingerprints
  BY FingerprintsOfType DEF TypeOK, File
<1>1. file'.lines = lines /\ proc' = proc /\ aux_vouched' = aux_vouched
  BY DEF HumanEdit, TypeOK, File
<1>2. /\ AcceptedLines = file.lines /\ AcceptedLines' = lines
      /\ Writers = {} /\ Writers' = {}
  BY <1>1 DEF AcceptedLines, Writers
<1>3. /\ old = [g \in FingerprintsOf(file.lines) |-> ExpiresOf(file.lines, g)]
      /\ new = [g \in FingerprintsOf(lines) |-> ExpiresOf(lines, g)]
  BY DEF AmnestyOf
<1>4. new[f] \in Date \/ f \notin FingerprintsOf(lines)
  BY <1>3, ExpiresOfType
<1> HIDE DEF old, new
<1>5. CASE f \in FingerprintsOf(lines)
  <2>1. new = [old EXCEPT ![f] = new[f]]
    BY <1>0, <1>3, <1>5
  <2>2. f \in DOMAIN old /\ f \in DOMAIN new /\ new[f] \in Date
    BY <1>3, <1>4, <1>5
  <2> QED
    BY <1>0, <1>1, <1>2, <2>1, <2>2
       DEF Abstract!AmnestyNext, Abstract!Decide, Abstract!Dates, Date, old, new
<1>6. CASE f \notin FingerprintsOf(lines)
  <2>1. new = [g \in DOMAIN old \ {f} |-> old[g]]
    BY <1>0, <1>3, <1>6
  <2>2. f \in DOMAIN old
    BY <1>3
  <2> QED
    BY <1>0, <1>1, <1>2, <2>1, <2>2
       DEF Abstract!AmnestyNext, Abstract!Decide, old, new
<1> QED
  BY <1>5, <1>6

(* Every step is a step of the list of amnesties or leaves it alone.       *)
LEMMA RefinementStep ==
  ASSUME Serial, TypeOK, SerialInv, VouchedInv, TypeOK', SerialInv', [Next]_vars
  PROVE  \/ Abstract!AmnestyNext
         \/ UNCHANGED <<AmnestyOf(AcceptedLines), aux_vouched, Writers # {}>>
<1> USE DEF env, aux
<1>0. /\ file \in File /\ file.lines \in Seq(Line)
      /\ proc \in [Procs -> ProcState]
      /\ \A p \in Procs : proc[p].base \in Seq(Line) /\ proc[p].lines \in Seq(Line)
  BY DEF TypeOK, File, ProcState
<1> DEFINE Stutter ==
      UNCHANGED <<AmnestyOf(AcceptedLines), aux_vouched, Writers # {}>>
(* The only process that was running has exited.                           *)
<1>a. ASSUME NEW p \in Procs, proc[p].pc # "idle",
             NEW verdict, NEW crashed, Exit(p, verdict, crashed)
      PROVE  Writers' = {} /\ AcceptedLines' = file'.lines
  <2>1. \A q \in Procs : proc'[q].pc = "idle"
    BY <1>0, <1>a DEF SerialInv, OneRunning, Exit, Idle
  <2> QED
    BY <2>1 DEF Writers, AcceptedLines
<1>b. ASSUME NEW p \in Procs, proc[p].pc \in {"loaded", "saving"},
             NEW verdict, NEW crashed, Exit(p, verdict, crashed),
             UNCHANGED <<file, aux>>
      PROVE  Stutter
  <2>1. Writers' = {} /\ AcceptedLines' = file'.lines
    BY <1>a, <1>b
  <2>2. Writers = {} /\ AcceptedLines = file.lines
    BY <1>b DEF Writers, AcceptedLines, SerialInv, OneRunning
  <2> QED
    BY <1>b, <2>1, <2>2, SameAmnesties
<1>c. ASSUME Alone
      PROVE  \A q \in Procs : proc[q].pc = "idle"
  BY <1>c DEF Alone
<1>1. ASSUME NEW p \in Procs, NEW update \in BOOLEAN, Load(p, update)
      PROVE  Stutter
  <2>1. \A q \in Procs : proc[q].pc = "idle"
    BY <1>1, <1>c DEF Load
  <2>2. proc'[p].pc # "truncated" /\ \A q \in Procs \ {p} : proc'[q] = proc[q]
    <3> DEFINE held == [Idle("none", FALSE) EXCEPT !.pc = "loaded",
                          !.update = update, !.base = file.lines]
               gone == Idle("Refused", FALSE)
    <3>1. held.pc = "loaded" /\ gone.pc = "idle"
      BY DEF Idle
    <3>2. proc' = [proc EXCEPT ![p] = held] \/ proc' = [proc EXCEPT ![p] = gone]
      BY <1>1 DEF Load, Exit
    <3> HIDE DEF held, gone
    <3> QED
      BY <1>0, <3>1, <3>2
  <2>3. Writers = {} /\ Writers' = {}
    BY <2>1, <2>2 DEF Writers
  <2> QED
    BY <1>1, <2>3 DEF Load, AcceptedLines
<1>2. ASSUME NEW p \in Procs, SarifUnreadable(p)
      PROVE  Stutter
  BY <1>2, <1>b DEF SarifUnreadable
<1>3. ASSUME NEW p \in Procs, NEW runs \in [Tools -> Runs], RefuseRuns(p, runs)
      PROVE  Stutter
  BY <1>3, <1>b DEF RefuseRuns
<1>4. ASSUME NEW p \in Procs, NEW runs \in [Tools -> Runs], Check(p, runs)
      PROVE  Stutter
  BY <1>4, <1>b DEF Check
<1>5. ASSUME NEW p \in Procs, NEW runs \in [Tools -> Runs], Rewrite(p, runs)
      PROVE  Abstract!AmnestyNext
  <2>1. proc[p].pc = "loaded" /\ file' = file /\ aux_vouched \subseteq aux_vouched'
    BY <1>5 DEF Rewrite
  <2>2. proc'[p].pc = "saving" /\ \A q \in Procs \ {p} : proc'[q] = proc[q]
    BY <1>0, <1>5 DEF Rewrite, ProcState
  <2>3. Writers = {} /\ Writers' = {}
    BY <2>1, <2>2 DEF Writers, SerialInv, OneRunning
  <2>4. AcceptedLines' = AcceptedLines
    BY <2>1, <2>3 DEF AcceptedLines
  <2>5. aux_vouched' \in SUBSET Fingerprints
    BY DEF TypeOK
  <2> QED
    BY <2>1, <2>3, <2>4, <2>5 DEF Abstract!AmnestyNext, Abstract!Vouch
<1>6. ASSUME NEW p \in Procs, SaveRefused(p)
      PROVE  Stutter
  BY <1>6, <1>b DEF SaveRefused
<1>7. ASSUME NEW p \in Procs, Truncate(p)
      PROVE  Abstract!AmnestyNext
  <2>1. /\ proc[p].pc = "saving" /\ proc'[p].pc = "truncated"
        /\ proc'[p].base = proc[p].base
    BY <1>0, <1>7 DEF Truncate, ProcState
  <2>2. AcceptedLines = proc[p].base
    BY <2>1, OnlyWriter DEF SerialInv, HoldsFile
  <2>3. AcceptedLines' = proc'[p].base
    <3>1. Writers' = {p}
      BY <2>1 DEF Writers, SerialInv, OneRunning
    <3> QED
      BY <3>1 DEF AcceptedLines
  <2>4. Writers = {} /\ Writers' # {}
    BY <2>1 DEF Writers, SerialInv, OneRunning
  <2>5. aux_vouched' = aux_vouched
    BY <1>7 DEF Truncate
  <2> QED
    BY <2>1, <2>2, <2>3, <2>4, <2>5
       DEF Abstract!AmnestyNext, Abstract!BeginRewrite
<1>8. ASSUME NEW p \in Procs, WriteAll(p)
      PROVE  Abstract!AmnestyNext
  <2>1. Writers' = {} /\ AcceptedLines' = file'.lines
    BY <1>8, <1>a DEF WriteAll
  <2>2. /\ Carries(proc[p].lines, proc[p].base)
        /\ FingerprintsOf(proc[p].lines) \subseteq aux_vouched
    BY DEF SerialInv, HoldsFile, VouchedInv
  <2> QED
    BY <1>0, <1>8, <2>1, <2>2, SaveEndsRewrite DEF WriteAll
<1>9. ASSUME NEW p \in Procs, WriteFails(p)
      PROVE  Abstract!AmnestyNext
  <2>1. Writers' = {} /\ AcceptedLines' = file'.lines
    BY <1>9, <1>a DEF WriteFails
  <2> QED
    BY <1>9, <2>1, InterruptionEndsRewrite DEF WriteFails
<1>10. ASSUME NEW p \in Procs, Kill(p)
       PROVE  Abstract!AmnestyNext \/ Stutter
  <2>1. CASE proc[p].pc = "truncated"
    <3>1. Writers' = {} /\ AcceptedLines' = file'.lines
      BY <1>10, <1>a DEF Kill
    <3> QED
      BY <1>10, <2>1, <3>1, InterruptionEndsRewrite DEF Kill
  <2>2. CASE proc[p].pc # "truncated"
    <3>1. proc[p].pc \in {"loaded", "saving"}
      BY <1>0, <1>10, <2>2 DEF Kill, ProcState
    <3> QED
      BY <1>10, <1>b, <2>2, <3>1 DEF Kill
  <2> QED
    BY <2>1, <2>2
<1>11. ASSUME Human
       PROVE  Abstract!AmnestyNext \/ Stutter
  <2>0. \A i \in DOMAIN file.lines :
           file.lines[i].fingerprint \in FingerprintsOf(file.lines)
    BY DEF FingerprintsOf
  <2>1. \A d \in Deadlines \cup {NoDate} : d \in Date
    BY RatchetAssumption DEF Deadlines, Date
  <2>2. ASSUME NEW i \in DOMAIN file.lines, NEW d \in Deadlines, SetDeadline(i, d)
        PROVE  Abstract!AmnestyNext
    <3> DEFINE lines == [file.lines EXCEPT ![i].expires = d]
    <3>1. lines \in Seq(Line) /\ FingerprintsOf(lines) = FingerprintsOf(file.lines)
      BY <1>0, <2>1, SetDeadlineLines
    <3>2. \A g \in Fingerprints \ {file.lines[i].fingerprint} :
             ExpiresOf(lines, g) = ExpiresOf(file.lines, g)
      BY <1>0, <2>1, SetDeadlineExpires
    <3>3. \A q \in Procs : proc[q].pc = "idle"
      BY <1>c, <2>2 DEF SetDeadline, HumanEdit
    <3>4. HumanEdit(file.lines[i].fingerprint, lines)
      BY <2>2 DEF SetDeadline
    <3> HIDE DEF lines
    <3> QED
      BY <2>0, <3>1, <3>2, <3>3, <3>4, EditDecides
  <2>3. ASSUME NEW i \in DOMAIN file.lines, DeleteLine(i)
        PROVE  Abstract!AmnestyNext
    <3> DEFINE lines == RemoveAt(file.lines, i)
               f     == file.lines[i].fingerprint
    <3>1. /\ lines \in Seq(Line)
          /\ FingerprintsOf(lines) \subseteq FingerprintsOf(file.lines)
      BY <1>0, DeletedLines
    <3>2. \A g : g # f =>
             /\ ExpiresOf(lines, g) = ExpiresOf(file.lines, g)
             /\ g \in FingerprintsOf(file.lines) => g \in FingerprintsOf(lines)
      BY <1>0, DeletedExpires
    <3>3. \A q \in Procs : proc[q].pc = "idle"
      BY <1>c, <2>3 DEF DeleteLine, HumanEdit
    <3>4. HumanEdit(f, lines) /\ f \in FingerprintsOf(file.lines)
      BY <2>0, <2>3 DEF DeleteLine
    <3> HIDE DEF lines, f
    <3> QED
      BY <3>1, <3>2, <3>3, <3>4, EditDecides
  <2>4. ASSUME NEW i \in DOMAIN file.lines, NEW d \in Deadlines \cup {NoDate},
               MergeLine(i, d)
        PROVE  Abstract!AmnestyNext
    <3> DEFINE line  == [file.lines[i] EXCEPT !.expires = d]
               f     == file.lines[i].fingerprint
    <3>0. file.lines[i] \in Line
      BY <1>0
    <3>1. line \in Line /\ line.fingerprint = f
      BY <2>1, <3>0 DEF Line
    <3>2. /\ Append(file.lines, line) \in Seq(Line)
          /\ FingerprintsOf(Append(file.lines, line)) = FingerprintsOf(file.lines)
      BY <1>0, <2>1, MergedLines
    <3>3. HumanEdit(f, Append(file.lines, line)) /\ f \in FingerprintsOf(file.lines)
      BY <2>0, <2>4 DEF MergeLine
    <3> HIDE DEF line, f
    <3>4. \A g \in Fingerprints \ {f} :
             ExpiresOf(Append(file.lines, line), g) = ExpiresOf(file.lines, g)
      BY <1>0, <3>1, MergedExpires
    <3>5. \A q \in Procs : proc[q].pc = "idle"
      BY <1>c, <3>3 DEF HumanEdit
    <3> QED
      BY <3>2, <3>3, <3>4, <3>5, EditDecides
  <2>5. CASE Mangle
    <3>1. \A q \in Procs : proc[q].pc = "idle"
      BY <1>c, <2>5 DEF Mangle
    <3>2. file'.lines = file.lines /\ proc' = proc /\ aux_vouched' = aux_vouched
      BY <1>0, <2>5 DEF Mangle, File
    <3>3. Writers = {} /\ Writers' = {}
      BY <3>1, <3>2 DEF Writers
    <3> QED
      BY <3>2, <3>3 DEF AcceptedLines
  <2> QED
    BY <1>11, <2>2, <2>3, <2>4, <2>5 DEF Human
<1>12. ASSUME UNCHANGED <<file, proc, aux>>
       PROVE  Stutter
  BY <1>12 DEF AcceptedLines, Writers
<1>13. World \/ UNCHANGED vars => UNCHANGED <<file, proc, aux>>
  BY DEF World, TouchTree, Tick, vars
<1> QED
  BY <1>1, <1>2, <1>3, <1>4, <1>5, <1>6, <1>7, <1>8, <1>9, <1>10, <1>11,
     <1>12, <1>13 DEF Next, Judged

(* Without overlap the file, with its truncations, torn writes and edits,  *)
(* and the processes implement the list of amnesties                       *)
(* (RatchetKeepsAmnesties): what judged ratchet does to the baseline is to *)
(* drop findings or to accept reported ones, and the deadlines are the     *)
(* humans'.                                                                *)
THEOREM Refinement ==
  ASSUME Serial
  PROVE  Spec => RatchetKeepsAmnesties
<1>1. Init => Abstract!AmnestyInit
  <2> SUFFICES ASSUME Init
               PROVE  Abstract!AmnestyInit
    OBVIOUS
  <2>1. Writers = {} /\ AcceptedLines = <<>>
    BY DEF Init, Writers, AcceptedLines, Idle
  <2>2. AmnestyOf(<<>>) = [f \in {} |-> NoDate]
    BY NoLines DEF AmnestyOf
  <2> QED
    BY <2>1, <2>2 DEF Init, Abstract!AmnestyInit
<1>2. Serial /\ TypeOK /\ SerialInv /\ VouchedInv /\ TypeOK' /\ SerialInv'
        /\ [Next]_vars
        => [Abstract!AmnestyNext]_(Abstract!amnestyVars)
  BY RefinementStep DEF Abstract!amnestyVars
<1> QED
  BY <1>1, <1>2, SerialInvariant, VouchedInvariant, TypeCorrect, PTL
     DEF Spec, RatchetKeepsAmnesties, Abstract!AmnestySpec
=============================================================================
