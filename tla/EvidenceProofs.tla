---------------------------- MODULE EvidenceProofs ----------------------------
(***************************************************************************)
(* Proofs about coverage artifacts: what the reader knows after each line  *)
(* that CI has written, and what the layer makes of it.  And about         *)
(* fingerprints: what normalize_message makes of a message, item by item,  *)
(* so that a finding is known by its fingerprint in every world.           *)
(***************************************************************************)
EXTENDS Coverage, Fingerprint, RecursionFacts, SequenceTheorems

(* The solvers do not know a text from its pieces when both are at hand,   *)
(* so the pieces get names.                                                *)
Separator == ","
One == "1"
Two == "2"
Dash == "-"

Files == DOMAIN SourceFiles
FunctionsIn(i) == FunctionsOf[SourceFiles[i]]
Key(i) == normalize_source(SourceFiles[i])
Fn(i, j) == <<SourceFiles[i], FunctionsIn(i)[j]>>

(* The lines of a block: TN, SF, one FN and one FNDA each, DA, the end.    *)
FnLine(j) == 2 + j
FndaLine(i, j) == 2 + Len(FunctionsIn(i)) + j
DaLine(i) == 2 * Len(FunctionsIn(i)) + 3
EndLine(i) == 2 * Len(FunctionsIn(i)) + 4

(* How often a function was entered, as far as the artifact has been told  *)
(* when CI is at c.                                                        *)
Told(c, i, j) == c.file > i \/ (c.file = i /\ c.line > FndaLine(i, j))
SoFar(c) ==
  [i \in Files |-> [j \in DOMAIN FunctionsIn(i) |->
     c.seen[Fn(i, j)] + IF Told(c, i, j) THEN c.counts[Fn(i, j)] ELSE 0]]

Numbers(total) == \A i \in Files : \A j \in DOMAIN FunctionsIn(i) : total[i][j] \in Nat

CallsIn(coverage, key, name) ==
  IF key \in DOMAIN coverage /\ name \in DOMAIN coverage[key].calls
    THEN coverage[key].calls[name] ELSE 0

(* A record of a file: of its functions and its one line, and no other.    *)
Plain(record) == record = [source |-> record.source, calls |-> record.calls, lines |-> record.lines]
RecordOf(record, i) ==
  /\ Plain(record)
  /\ DOMAIN record.calls \subseteq Range(FunctionsIn(i))
  /\ \A n \in DOMAIN record.calls : record.calls[n] \in Nat
  /\ DOMAIN record.lines \subseteq {<<One>>}
  /\ \A l \in DOMAIN record.lines : record.lines[l] \in Nat

Full(record, i) ==
  DOMAIN record.calls = Range(FunctionsIn(i)) /\ DOMAIN record.lines = {<<One>>}

(* What is known agrees with what was entered, as long as nothing wraps.   *)
Exact(coverage, total) ==
  \A i \in Files :
    /\ \A j \in DOMAIN FunctionsIn(i) :
         total[i][j] <= CountMax => CallsIn(coverage, Key(i), FunctionsIn(i)[j]) = total[i][j]
    /\ Key(i) \in DOMAIN coverage =>
         \A l \in DOMAIN coverage[Key(i)].lines :
           coverage[Key(i)].lines[l] > 0 => \E j \in DOMAIN FunctionsIn(i) : total[i][j] > 0

Records(coverage) ==
  /\ DOMAIN coverage \subseteq {Key(i) : i \in Files}
  /\ \A i \in Files : Key(i) \in DOMAIN coverage => RecordOf(coverage[Key(i)], i)

(* The reader never stumbles over what CI writes, and each record that is  *)
(* not open is full, unless a machine died in it and another one followed. *)
Sound(acc, torn) ==
  /\ acc = [bad |-> acc.bad, open |-> acc.open, records |-> acc.records] /\ acc.bad = FALSE
  /\ Records(acc.records)
  /\ \A i \in Files :
       Key(i) \in DOMAIN acc.records \ acc.open /\ SourceFiles[i] \notin torn => Full(acc.records[Key(i)], i)

(* It is where CI is.                                                      *)
Abreast(c, acc) ==
  /\ acc.open = IF c.file # 0 /\ c.line > 2 THEN {Key(c.file)} ELSE {normalize_source(f) : f \in c.cut}
  /\ c.file # 0 /\ c.line > 2 =>
       /\ Key(c.file) \in DOMAIN acc.records
       /\ \A j \in DOMAIN FunctionsIn(c.file) :
            c.line > FnLine(j) =>
              FunctionsIn(c.file)[j] \in DOMAIN acc.records[Key(c.file)].calls
       /\ c.line > DaLine(c.file) => <<One>> \in DOMAIN acc.records[Key(c.file)].lines
  /\ Exact(acc.records, SoFar(c))

CiRecord(c) ==
  c = [runs |-> c.runs, file |-> c.file, line |-> c.line, dialect |-> c.dialect, counts |-> c.counts,
       entered |-> c.entered, seen |-> c.seen, cut |-> c.cut, torn |-> c.torn]

WriterShape(c) ==
  /\ CiRecord(c)
  /\ c.file \in 0 .. Len(SourceFiles)
  /\ c.file # 0 => c.line \in 1 .. EndLine(c.file) /\ c.dialect \in Dialects
  /\ c.cut \in SUBSET Range(SourceFiles) /\ (c.file # 0 /\ c.line > 2 => c.cut = {})
  /\ c.counts \in [Functions0 -> 0 .. 7]
  /\ c.entered \in [Functions0 -> Nat] /\ c.seen \in [Functions0 -> Nat]

(* The lines of the runs before this one say base: all that the runs said  *)
(* that came to their end, and nothing that no run entered.                *)
Between(c, base) ==
  /\ base \in [Functions0 -> Nat]
  /\ \A fn \in Functions0 :
       /\ c.seen[fn] <= base[fn]
       /\ base[fn] + (IF c.file # 0 THEN c.counts[fn] ELSE 0) <= c.entered[fn]
Since(c, base) == [c EXCEPT !.seen = base]
Agrees(c, base, art) ==
  /\ Between(c, base)
  /\ \A lines \in art : Sound(parsed(lines), c.torn) /\ Abreast(Since(c, base), parsed(lines))

WriterGood(c, art) ==
  /\ WriterShape(c)
  /\ \A lines \in art : lines \in Seq(Range(lines))
  /\ \E base : Agrees(c, base, art)
WriterInv == WriterGood(ci, artifact)

(* What the layer believes, when it has come so far.                       *)
Bounded(c, total) ==
  \A i \in Files : \A j \in DOMAIN FunctionsIn(i) :
    /\ c.entered[Fn(i, j)] \in Nat /\ c.seen[Fn(i, j)] \in Nat
    /\ c.seen[Fn(i, j)] <= total[i][j] /\ total[i][j] <= c.entered[Fn(i, j)]

LayerGood(l) ==
  /\ l = [pc |-> l.pc, claims |-> l.claims, gap |-> l.gap, coverage |-> l.coverage,
          rescued |-> l.rescued, survived |-> l.survived, ci |-> l.ci]
  /\ Records(l.coverage)
  /\ \A i \in Files :
       Key(i) \in DOMAIN l.coverage /\ SourceFiles[i] \notin l.ci.torn => Full(l.coverage[Key(i)], i)
  /\ l.pc \notin {"run", "load"} /\ l.gap = "none" =>
       \E total : Numbers(total) /\ Bounded(l.ci, total) /\ Exact(l.coverage, total)
  /\ l.pc = "done" /\ l.gap = "none" =>
       l.rescued = {claim \in Range(l.claims) : ran(l.coverage, claim)}
LayerInv == LayerGood(layer)

-----------------------------------------------------------------------------
(* The constants, by the places of files and functions.                    *)
LEMMA Named ==
  /\ Len(SourceFiles) \in Nat \ {0} /\ Files = 1 .. Len(SourceFiles)
  /\ \A i \in Files :
       /\ IsText(SourceFiles[i])
       /\ Len(FunctionsIn(i)) \in Nat
       /\ DOMAIN FunctionsIn(i) = 1 .. Len(FunctionsIn(i))
       /\ \A j \in DOMAIN FunctionsIn(i) :
            /\ IsText(FunctionsIn(i)[j])
            /\ FunctionsIn(i)[j] \in Range(FunctionsIn(i))
            /\ Fn(i, j) \in Functions0
            /\ \A n \in DOMAIN FunctionsIn(i) : FunctionsIn(i)[j] = FunctionsIn(i)[n] => j = n
       /\ \A n \in Files : Key(i) = Key(n) => i = n
<1>1. SourceFiles \in Seq(Range(SourceFiles)) /\ SourceFiles # <<>>
  BY CoverageAssumption
<1>2. Len(SourceFiles) \in Nat \ {0} /\ Files = 1 .. Len(SourceFiles)
  BY <1>1, EmptySeq DEF Files
<1>3. ASSUME NEW i \in Files
      PROVE  /\ IsText(SourceFiles[i])
             /\ SourceFiles[i] \in Range(SourceFiles)
             /\ Len(FunctionsIn(i)) \in Nat
             /\ DOMAIN FunctionsIn(i) = 1 .. Len(FunctionsIn(i))
             /\ \A n \in Files : Key(i) = Key(n) => i = n
  <2>1. SourceFiles[i] \in Range(SourceFiles)
    BY <1>1 DEF Files, Range
  <2>2. IsText(SourceFiles[i])
    BY <2>1, CoverageAssumption
  <2>3. FunctionsIn(i) \in Seq(Range(FunctionsIn(i)))
    BY <2>1, CoverageAssumption DEF FunctionsIn
  <2>4. \A n \in Files : Key(i) = Key(n) => i = n
    BY CoverageAssumption DEF Files, Key
  <2>5. Len(FunctionsIn(i)) \in Nat /\ DOMAIN FunctionsIn(i) = 1 .. Len(FunctionsIn(i))
    BY <2>3
  <2> QED
    BY <2>1, <2>2, <2>4, <2>5
<1>4. ASSUME NEW i \in Files, NEW j \in DOMAIN FunctionsIn(i)
      PROVE  /\ IsText(FunctionsIn(i)[j])
             /\ FunctionsIn(i)[j] \in Range(FunctionsIn(i))
             /\ Fn(i, j) \in Functions0
             /\ \A n \in DOMAIN FunctionsIn(i) : FunctionsIn(i)[j] = FunctionsIn(i)[n] => j = n
  <2>1. FunctionsIn(i)[j] \in Range(FunctionsIn(i))
    BY DEF Range
  <2>2. IsText(FunctionsIn(i)[j])
    BY <1>3, <2>1, CoverageAssumption DEF FunctionsIn
  <2>3. Fn(i, j) \in Functions0
    BY <1>3, <2>1 DEF Fn, Functions0, FunctionsIn
  <2>4. \A n \in DOMAIN FunctionsIn(i) : FunctionsIn(i)[j] = FunctionsIn(i)[n] => j = n
    BY <1>3, CoverageAssumption DEF FunctionsIn
  <2> QED
    BY <2>1, <2>2, <2>3, <2>4
<1> QED
  BY <1>2, <1>3, <1>4

(* The reader reads line by line.                                          *)
Reads0(after, lines, m) ==
  after = [n \in 0 .. m |-> IF n = 0 THEN NoRecords ELSE parse_line(after[n - 1], lines[n])]

LEMMA ParsedBySteps ==
  ASSUME NEW S, NEW lines \in Seq(S)
  PROVE  \E after : /\ after[0] = NoRecords
                    /\ \A n \in 1 .. Len(lines) : after[n] = parse_line(after[n - 1], lines[n])
                    /\ parsed(lines) = after[Len(lines)]
<1> DEFINE N == Len(lines)
           T == {m \in 0 .. N : \E f : Reads0(f, lines, m)}
           after == CHOOSE f : Reads0(f, lines, N)
<1>1. N \in Nat
  OBVIOUS
<1>2. parsed(lines) = after[N]
  BY DEF parsed, Reads0
<1>3. 0 \in T
  <2>1. Reads0([n \in 0 .. 0 |-> NoRecords], lines, 0)
    BY DEF Reads0
  <2> QED
    BY <1>1, <2>1
<1>4. ASSUME NEW m \in 0 .. N - 1, m \in T
      PROVE  m + 1 \in T
  <2>1. PICK f : Reads0(f, lines, m)
    BY <1>4
  <2> DEFINE g == [n \in 0 .. m + 1 |-> IF n = m + 1 THEN parse_line(f[m], lines[m + 1]) ELSE f[n]]
  <2>2. /\ \A n \in 0 .. m : f[n] = IF n = 0 THEN NoRecords ELSE parse_line(f[n - 1], lines[n])
        /\ m \in 0 .. m
    BY <2>1, <1>1 DEF Reads0
  <2>3. ASSUME NEW n \in 0 .. m + 1
        PROVE  g[n] = IF n = 0 THEN NoRecords ELSE parse_line(g[n - 1], lines[n])
    <3>1. CASE n = m + 1
      <4>1. m + 1 # 0 /\ (m + 1) - 1 = m /\ m # m + 1 /\ m \in 0 .. m + 1 /\ m + 1 \in 0 .. m + 1
        BY <1>1
      <4>2. g[m + 1] = parse_line(f[m], lines[m + 1]) /\ g[m] = f[m]
        BY <4>1
      <4> HIDE DEF g
      <4> QED
        BY <3>1, <4>1, <4>2
    <3>2. CASE n # m + 1
      <4>1. n \in 0 .. m /\ (n # 0 => n - 1 \in 0 .. m + 1 /\ n - 1 # m + 1)
        BY <1>1, <3>2
      <4>2. g[n] = f[n] /\ (n # 0 => g[n - 1] = f[n - 1])
        BY <3>2, <4>1
      <4> HIDE DEF g
      <4> QED
        BY <2>2, <4>1, <4>2
    <3> QED
      BY <3>1, <3>2
  <2>4. Reads0(g, lines, m + 1)
    <3>1. g = [n \in 0 .. m + 1 |-> g[n]]
      OBVIOUS
    <3> HIDE DEF g
    <3> QED
      BY <2>3, <3>1 DEF Reads0
  <2> QED
    BY <1>1, <2>4
<1>5. N \in T
  <2>1. \A m \in 0 .. N - 1 : m \in T => m + 1 \in T
    BY <1>4
  <2> HIDE DEF T, N
  <2>2. \A m \in 0 .. N : m \in T
    BY <1>1, <1>3, <2>1, Upwards
  <2> QED
    BY <1>1, <2>2, Steps
<1>6. Reads0(after, lines, N)
  BY <1>5
<1> HIDE DEF after
<1>7. after[0] = NoRecords /\ \A n \in 1 .. N : after[n] = parse_line(after[n - 1], lines[n])
  BY <1>1, <1>6, Steps DEF Reads0
<1> QED
  BY <1>2, <1>7

LEMMA ParsedNothing == parsed(<<>>) = NoRecords
<1>1. <<>> \in Seq({}) /\ Len(<<>>) = 0
  OBVIOUS
<1> QED
  BY <1>1, ParsedBySteps

LEMMA ParsedOneMore ==
  ASSUME NEW S, NEW lines \in Seq(S), NEW x \in S
  PROVE  parsed(Append(lines, x)) = parse_line(parsed(lines), x)
<1> DEFINE N == Len(lines)
           more == Append(lines, x)
<1>1. N \in Nat /\ more \in Seq(S) /\ Len(more) = N + 1
  OBVIOUS
<1>2. more[N + 1] = x /\ \A n \in 1 .. N : more[n] = lines[n]
  OBVIOUS
<1>3. PICK f : /\ f[0] = NoRecords
               /\ \A n \in 1 .. N : f[n] = parse_line(f[n - 1], lines[n])
               /\ parsed(lines) = f[N]
  BY ParsedBySteps
<1> HIDE DEF more
<1>4. PICK g : /\ g[0] = NoRecords
               /\ \A n \in 1 .. Len(more) : g[n] = parse_line(g[n - 1], more[n])
               /\ parsed(more) = g[Len(more)]
  BY <1>1, ParsedBySteps
<1> DEFINE T == {n \in 0 .. N : f[n] = g[n]}
<1>5. 0 \in T
  BY <1>1, <1>3, <1>4
<1>6. ASSUME NEW n \in 0 .. N - 1, n \in T
      PROVE  n + 1 \in T
  <2>1. n + 1 \in 1 .. N /\ n + 1 \in 1 .. Len(more) /\ (n + 1) - 1 = n /\ n + 1 \in 0 .. N
    BY <1>1
  <2>2. f[n] = g[n]
    BY <1>6
  <2>3. f[n + 1] = parse_line(f[n], lines[n + 1]) /\ g[n + 1] = parse_line(g[n], more[n + 1])
    BY <1>3, <1>4, <2>1
  <2> QED
    BY <1>2, <2>1, <2>2, <2>3
<1>7. N \in T
  <2>1. \A n \in 0 .. N - 1 : n \in T => n + 1 \in T
    BY <1>6
  <2> HIDE DEF T, N
  <2>2. \A n \in 0 .. N : n \in T
    BY <1>1, <1>5, <2>1, Upwards
  <2> QED
    BY <1>1, <2>2, Steps
<1>8. N + 1 \in 1 .. Len(more) /\ (N + 1) - 1 = N
  BY <1>1
<1> QED
  BY <1>1, <1>2, <1>3, <1>4, <1>7, <1>8 DEF more

-----------------------------------------------------------------------------
(* What CI writes.                                                         *)
LEMMA Joined ==
  ASSUME NEW S, NEW a \in Seq(S), NEW b \in Seq(S)
  PROVE  /\ a \o b \in Seq(S)
         /\ Len(a \o b) = Len(a) + Len(b)
         /\ \A n \in 1 .. Len(a) : (a \o b)[n] = a[n]
  OBVIOUS

LEMMA JoinedSecond ==
  ASSUME NEW S, NEW a \in Seq(S), NEW b \in Seq(S), NEW n \in 1 .. Len(b)
  PROVE  (a \o b)[Len(a) + n] = b[n]
  OBVIOUS

LEMMA FourParts ==
  ASSUME NEW S, NEW a \in Seq(S), NEW b \in Seq(S), NEW c \in Seq(S), NEW d \in Seq(S),
         NEW w, w = a \o b \o c \o d
  PROVE  /\ Len(w) = Len(a) + Len(b) + Len(c) + Len(d)
         /\ \A n \in 1 .. Len(a) : w[n] = a[n]
         /\ \A n \in 1 .. Len(b) : w[Len(a) + n] = b[n]
         /\ \A n \in 1 .. Len(c) : w[Len(a) + Len(b) + n] = c[n]
         /\ \A n \in 1 .. Len(d) : w[Len(a) + Len(b) + Len(c) + n] = d[n]
<1> DEFINE e == a \o b
           f == e \o c
           g == f \o d
<1>0. PICK A \in Nat, B \in Nat, C \in Nat, D \in Nat :
        A = Len(a) /\ B = Len(b) /\ C = Len(c) /\ D = Len(d)
  OBVIOUS
<1>1. /\ e \in Seq(S)
      /\ Len(e) = Len(a) + Len(b)
      /\ \A n \in 1 .. Len(a) : e[n] = a[n]
      /\ \A n \in 1 .. Len(b) : e[Len(a) + n] = b[n]
  <2>1. e \in Seq(S) /\ Len(e) = Len(a) + Len(b) /\ \A n \in 1 .. Len(a) : e[n] = a[n]
    BY Joined
  <2>2. ASSUME NEW n \in 1 .. Len(b) PROVE e[Len(a) + n] = b[n]
    BY JoinedSecond
  <2> QED
    BY <2>1, <2>2
<1>a. e \in Seq(S)
  BY <1>1
<1> HIDE DEF e
<1>2. /\ f \in Seq(S)
      /\ Len(f) = Len(e) + Len(c)
      /\ \A n \in 1 .. Len(e) : f[n] = e[n]
      /\ \A n \in 1 .. Len(c) : f[Len(e) + n] = c[n]
  <2>1. f \in Seq(S) /\ Len(f) = Len(e) + Len(c) /\ \A n \in 1 .. Len(e) : f[n] = e[n]
    BY <1>a, Joined
  <2>2. ASSUME NEW n \in 1 .. Len(c) PROVE f[Len(e) + n] = c[n]
    BY <1>a, JoinedSecond
  <2> QED
    BY <2>1, <2>2
<1>b. f \in Seq(S)
  BY <1>2
<1> HIDE DEF f
<1>3. /\ g \in Seq(S)
      /\ Len(g) = Len(f) + Len(d)
      /\ \A n \in 1 .. Len(f) : g[n] = f[n]
      /\ \A n \in 1 .. Len(d) : g[Len(f) + n] = d[n]
  <2>1. g \in Seq(S) /\ Len(g) = Len(f) + Len(d) /\ \A n \in 1 .. Len(f) : g[n] = f[n]
    BY <1>b, Joined
  <2>2. ASSUME NEW n \in 1 .. Len(d) PROVE g[Len(f) + n] = d[n]
    BY <1>b, JoinedSecond
  <2> QED
    BY <2>1, <2>2
<1> HIDE DEF g
<1>4. Len(e) = A + B /\ Len(f) = A + B + C
  BY <1>0, <1>1, <1>2
<1>5. \A n \in 1 .. A : g[n] = a[n]
  BY <1>0, <1>1, <1>2, <1>3, <1>4
<1>6. \A n \in 1 .. B : g[A + n] = b[n]
  <2> TAKE n \in 1 .. B
  <2>1. A + n \in 1 .. A + B /\ A + n \in 1 .. A + B + C
    OBVIOUS
  <2>2. g[A + n] = f[A + n] /\ f[A + n] = e[A + n] /\ e[A + n] = b[n]
    BY <1>0, <1>1, <1>2, <1>3, <1>4, <2>1
  <2> QED
    BY <2>2
<1>7. \A n \in 1 .. C : g[A + B + n] = c[n]
  <2> TAKE n \in 1 .. C
  <2>1. A + B + n \in 1 .. A + B + C
    OBVIOUS
  <2>2. g[A + B + n] = f[A + B + n] /\ f[A + B + n] = c[n]
    BY <1>0, <1>2, <1>3, <1>4, <2>1
  <2> QED
    BY <2>2
<1>8. \A n \in 1 .. D : g[A + B + C + n] = d[n]
  BY <1>0, <1>3, <1>4
<1>9. Len(g) = A + B + C + D
  BY <1>0, <1>3, <1>4
<1> QED
  BY <1>0, <1>5, <1>6, <1>7, <1>8, <1>9 DEF e, f, g

Entered(i, counts) == \E n \in Range(FunctionsIn(i)) : counts[<<SourceFiles[i], n>>] > 0
FnOf(i, j, dialect) == Line("FN", FnPrefix(dialect) \o FunctionsIn(i)[j])
FndaOf(i, j, counts) == Line("FNDA", <<Spelled(counts[Fn(i, j)]), ",">> \o FunctionsIn(i)[j])
DaOf(i, counts) == Line("DA", <<"1", ",", IF Entered(i, counts) THEN "1" ELSE "-">>)

LEMMA Spelling ==
  \A n \in 0 .. 7 : NumberOf(Spelled(n)) = n /\ IsNumber(<<Spelled(n)>>) /\ Spelled(n) # ","
<1> TAKE n \in 0 .. 7
<1>1. /\ Digits[1] = "0" /\ Digits[2] = "1" /\ Digits[3] = "2" /\ Digits[4] = "3"
      /\ Digits[5] = "4" /\ Digits[6] = "5" /\ Digits[7] = "6" /\ Digits[8] = "7"
      /\ DOMAIN Digits = 1 .. 8
  BY DEF Digits
<1>2. n \in {0, 1, 2, 3, 4, 5, 6, 7}
  OBVIOUS
<1>3. Spelled(n) # ","
  <2>1. Digits[n + 1] \in {"0", "1", "2", "3", "4", "5", "6", "7"}
    BY <1>1, <1>2
  <2> QED
    BY <2>1 DEF Spelled
<1>4. \A m \in 0 .. 7 : Digits[m + 1] = Digits[n + 1] => m = n
  <2> TAKE m \in 0 .. 7
  <2>1. m \in {0, 1, 2, 3, 4, 5, 6, 7}
    OBVIOUS
  <2> QED
    BY <1>1, <1>2, <2>1
<1>5. NumberOf(Spelled(n)) = n
  BY <1>4 DEF NumberOf, Spelled
<1>6. Spelled(n) \in Range(Digits)
  <2>1. n + 1 \in DOMAIN Digits
    BY <1>1
  <2> QED
    BY <2>1 DEF Range, Spelled
<1>7. Len(<<Spelled(n)>>) = 1 /\ Head(<<Spelled(n)>>) = Spelled(n)
  OBVIOUS
<1> QED
  BY <1>3, <1>5, <1>6, <1>7 DEF IsNumber

LEMMA BlockLines ==
  ASSUME NEW i \in Files, NEW counts, NEW dialect
  PROVE  LET block == Block(SourceFiles[i], counts, dialect)
         IN  /\ Len(block) = EndLine(i)
             /\ block[1] = Line("TN", <<>>) /\ block[2] = Line("SF", SourceFiles[i])
             /\ \A j \in DOMAIN FunctionsIn(i) :
                  /\ block[FnLine(j)] = FnOf(i, j, dialect)
                  /\ block[FndaLine(i, j)] = FndaOf(i, j, counts)
             /\ block[DaLine(i)] = DaOf(i, counts) /\ block[EndLine(i)] = End
<1> DEFINE L == Len(FunctionsIn(i))
           tn == Line("TN", <<>>)
           sf == Line("SF", SourceFiles[i])
           da == DaOf(i, counts)
           S == {tn, sf, da, End} \cup {FnOf(i, k, dialect) : k \in 1 .. L}
                  \cup {FndaOf(i, k, counts) : k \in 1 .. L}
           a == <<tn, sf>>
           b == [k \in 1 .. L |-> FnOf(i, k, dialect)]
           c == [k \in 1 .. L |-> FndaOf(i, k, counts)]
           d == <<da, End>>
<1>1. L \in Nat /\ DOMAIN FunctionsIn(i) = 1 .. L
  BY Named
<1>2. Block(SourceFiles[i], counts, dialect) = a \o b \o c \o d
  BY <1>1 DEF Block, FnOf, FndaOf, DaOf, Entered, FunctionsIn, Fn
<1>3. /\ tn \in S /\ sf \in S /\ da \in S /\ End \in S
      /\ \A k \in 1 .. L : FnOf(i, k, dialect) \in S /\ FndaOf(i, k, counts) \in S
  OBVIOUS
<1> HIDE DEF S, tn, sf, da, L
<1>4. a \in Seq(S) /\ Len(a) = 2 /\ a[1] = tn /\ a[2] = sf
  BY <1>3
<1>5. d \in Seq(S) /\ Len(d) = 2 /\ d[1] = da /\ d[2] = End
  BY <1>3
<1>6. b \in Seq(S) /\ Len(b) = L /\ c \in Seq(S) /\ Len(c) = L
  BY <1>1, <1>3
<1>7. \A k \in 1 .. L : b[k] = FnOf(i, k, dialect) /\ c[k] = FndaOf(i, k, counts)
  OBVIOUS
<1> HIDE DEF a, b, c, d
<1> DEFINE whole == Block(SourceFiles[i], counts, dialect)
<1> HIDE DEF whole
<1>8. /\ Len(whole) = 2 + L + L + 2
      /\ \A n \in 1 .. 2 : whole[n] = a[n]
      /\ \A n \in 1 .. L : whole[2 + n] = b[n]
      /\ \A n \in 1 .. L : whole[2 + L + n] = c[n]
      /\ \A n \in 1 .. 2 : whole[2 + L + L + n] = d[n]
  <2>1. a \in Seq(S) /\ b \in Seq(S) /\ c \in Seq(S) /\ d \in Seq(S)
    BY <1>4, <1>5, <1>6
  <2>2. L \in Nat /\ 2 \in Nat /\ Len(a) = 2 /\ Len(b) = L /\ Len(c) = L /\ Len(d) = 2
    BY <1>1, <1>4, <1>5, <1>6
  <2>3. /\ Len(whole) = Len(a) + Len(b) + Len(c) + Len(d)
        /\ \A n \in 1 .. Len(a) : whole[n] = a[n]
        /\ \A n \in 1 .. Len(b) : whole[Len(a) + n] = b[n]
        /\ \A n \in 1 .. Len(c) : whole[Len(a) + Len(b) + n] = c[n]
        /\ \A n \in 1 .. Len(d) : whole[Len(a) + Len(b) + Len(c) + n] = d[n]
    BY <1>2, <2>1, FourParts DEF whole
  <2> QED
    BY <2>2, <2>3
<1>9. /\ DaLine(i) = 2 + L + L + 1 /\ EndLine(i) = 2 + L + L + 2
      /\ \A j \in 1 .. L : FnLine(j) = 2 + j /\ FndaLine(i, j) = 2 + L + j
  BY <1>1 DEF DaLine, EndLine, FnLine, FndaLine, L
<1>10. 1 \in 1 .. 2 /\ 2 \in 1 .. 2
  OBVIOUS
<1>11. Len(whole) = EndLine(i)
  BY <1>8, <1>9
<1>12. whole[1] = tn /\ whole[2] = sf
  BY <1>4, <1>8, <1>10
<1>13. \A j \in 1 .. L : whole[FnLine(j)] = FnOf(i, j, dialect) /\ whole[FndaLine(i, j)] = FndaOf(i, j, counts)
  BY <1>7, <1>8, <1>9
<1>14. whole[DaLine(i)] = da /\ whole[EndLine(i)] = End
  BY <1>5, <1>8, <1>9, <1>10
<1> QED
  BY <1>1, <1>2, <1>11, <1>12, <1>13, <1>14 DEF whole, tn, sf, da

(* Each number of a line is that of one of these.                          *)
(* Line n of a block, read from its place.                                 *)
BlockReads(i, counts, dialect, n, line) ==
  /\ n = 1 => line = Line("TN", <<>>)
  /\ n = 2 => line = Line("SF", SourceFiles[i])
  /\ \A j \in DOMAIN FunctionsIn(i) :
       /\ n = FnLine(j) => line = FnOf(i, j, dialect)
       /\ n = FndaLine(i, j) => line = FndaOf(i, j, counts)
  /\ n = DaLine(i) => line = DaOf(i, counts)
  /\ n = EndLine(i) => line = End

LEMMA BlockRead ==
  ASSUME NEW i \in Files, NEW counts, NEW dialect, NEW n
  PROVE  BlockReads(i, counts, dialect, n, Block(SourceFiles[i], counts, dialect)[n])
<1> DEFINE block == Block(SourceFiles[i], counts, dialect)
<1>1. block[1] = Line("TN", <<>>) /\ block[2] = Line("SF", SourceFiles[i])
  BY BlockLines
<1>2. \A j \in DOMAIN FunctionsIn(i) :
        block[FnLine(j)] = FnOf(i, j, dialect) /\ block[FndaLine(i, j)] = FndaOf(i, j, counts)
  BY BlockLines
<1>3. block[DaLine(i)] = DaOf(i, counts) /\ block[EndLine(i)] = End
  BY BlockLines
<1> HIDE DEF block
<1>4. PICK line : line = block[n]
  OBVIOUS
<1>5. n = 1 => line = Line("TN", <<>>)
  BY <1>1, <1>4
<1>6. n = 2 => line = Line("SF", SourceFiles[i])
  BY <1>1, <1>4
<1>7. ASSUME NEW j \in DOMAIN FunctionsIn(i)
      PROVE  /\ n = FnLine(j) => line = FnOf(i, j, dialect)
             /\ n = FndaLine(i, j) => line = FndaOf(i, j, counts)
  BY <1>2, <1>4
<1>8. (n = DaLine(i) => line = DaOf(i, counts)) /\ (n = EndLine(i) => line = End)
  BY <1>3, <1>4
<1>9. BlockReads(i, counts, dialect, n, line)
  BY <1>5, <1>6, <1>7, <1>8 DEF BlockReads
<1> QED
  BY <1>4, <1>9 DEF block

LEMMA LineNumbers ==
  ASSUME NEW i \in Files, NEW n \in 1 .. EndLine(i)
  PROVE  \/ n = 1 \/ n = 2 \/ n = DaLine(i) \/ n = EndLine(i)
         \/ \E j \in DOMAIN FunctionsIn(i) : n = FnLine(j) \/ n = FndaLine(i, j)
<1> DEFINE L == Len(FunctionsIn(i))
<1>1. L \in Nat /\ DOMAIN FunctionsIn(i) = 1 .. L
  BY Named
<1>2. n \in 1 .. 2 * L + 4
  BY DEF EndLine
<1> HIDE DEF L
<1>3. CASE n \in 3 .. 2 + L
  <2>1. n - 2 \in 1 .. L /\ n = 2 + (n - 2)
    BY <1>1, <1>3
  <2> QED
    BY <1>1, <2>1 DEF FnLine
<1>4. CASE n \in 3 + L .. 2 + L + L
  <2>1. n - 2 - L \in 1 .. L /\ n = 2 + L + (n - 2 - L)
    BY <1>1, <1>4
  <2> QED
    BY <1>1, <2>1 DEF FndaLine, L
<1>5. CASE n \in {1, 2, 2 * L + 3, 2 * L + 4}
  BY <1>5 DEF DaLine, EndLine, L
<1>6. n \in 3 .. 2 + L \/ n \in 3 + L .. 2 + L + L \/ n \in {1, 2, 2 * L + 3, 2 * L + 4}
  BY <1>1, <1>2
<1> QED
  BY <1>3, <1>4, <1>5, <1>6

-----------------------------------------------------------------------------
(* What the reader makes of a line.                                        *)
LEMMA CommaAt ==
  ASSUME NEW S, NEW s \in Seq(S), NEW n \in 1 .. Len(s), s[n] = Separator,
         \A m \in 1 .. Len(s) : m < n => s[m] # Separator
  PROVE  Comma(s) = n
<1> DEFINE I == {m \in 1 .. Len(s) : s[m] = Separator}
<1>1. n \in I /\ Len(s) \in Nat
  OBVIOUS
<1>2. I \subseteq Int
  BY <1>1
<1>3. ASSUME NEW m \in I PROVE n <= m
  <2>1. m \in 1 .. Len(s) /\ s[m] = Separator
    OBVIOUS
  <2>2. ~ m < n
    BY <2>1
  <2> QED
    BY <1>1, <2>1, <2>2
<1>4. Comma(s) = IF I # {} THEN Min(I) ELSE 0
  BY DEF Comma, SelectInSeq, Separator
<1> HIDE DEF I
<1> QED
  BY <1>1, <1>2, <1>3, <1>4, MinIs

LEMMA Pair ==
  ASSUME NEW S, NEW x \in S, NEW y \in S
  PROVE  <<x, y>> \in Seq(S) /\ Len(<<x, y>>) = 2 /\ <<x, y>>[1] = x /\ <<x, y>>[2] = y
OBVIOUS

LEMMA OneAndOne ==
  ASSUME NEW x, NEW y
  PROVE  <<x>> \o <<y>> = <<x, y>> /\ Head(<<x>>) = x
<1> DEFINE S == {x, y}
           u == <<x>> \o <<y>>
<1>0. <<x>> \in Seq(S) /\ <<y>> \in Seq(S) /\ <<x, y>> \in Seq(S)
  OBVIOUS
<1>1. <<x>> \o <<y>> = <<x, y>>
  <2>1. u \in Seq(S) /\ Len(u) = 2
    BY <1>0
  <2>2. u[1] = x /\ u[2] = y
    BY <1>0
  <2> HIDE DEF u
  <2>3. Len(<<x, y>>) = 2 /\ <<x, y>>[1] = x /\ <<x, y>>[2] = y
    OBVIOUS
  <2>4. u = <<x, y>>
    BY <1>0, <2>1, <2>2, <2>3
  <2> QED
    BY <2>4 DEF u
<1>2. Head(<<x>>) = x
  OBVIOUS
<1> QED
  BY <1>1, <1>2

LEMMA Wider ==
  ASSUME NEW S, NEW t \in Seq(S), NEW U, S \subseteq U
  PROVE  t \in Seq(U)
OBVIOUS

LEMMA OfItsRange ==
  ASSUME NEW S, NEW s \in Seq(S)
  PROVE  s \in Seq(Range(s))
<1> DEFINE R == Range(s)
<1>1. \A n \in DOMAIN s : s[n] \in R
  BY DEF Range
<1> HIDE DEF R
<1>2. s \in Seq(R)
  BY <1>1
<1> QED
  BY <1>2 DEF R

LEMMA BehindComma ==
  ASSUME NEW x, x # Separator, NEW t, t \in Seq(Range(t)),
         NEW v, v = <<x, Separator>> \o t
  PROVE  /\ v \in Seq(Range(v)) /\ Comma(v) = 2
         /\ BeforeComma(v) = <<x>> /\ AfterComma(v) = t /\ Head(v) = x
<1> DEFINE S == Range(t) \cup {x, Separator}
           h == <<x, Separator>>
<1>1. t \in Seq(S)
  BY Wider
<1>2. h \in Seq(S) /\ Len(h) = 2 /\ h[1] = x /\ h[2] = Separator
  BY Pair
<1> HIDE DEF S, h
<1>3. PICK N \in Nat : N = Len(t)
  BY <1>1
<1>4. /\ v \in Seq(S)
      /\ Len(v) = 2 + N
      /\ \A n \in 1 .. 2 : v[n] = h[n]
  BY <1>1, <1>2, <1>3, Joined DEF h
<1>5. \A n \in 1 .. N : v[2 + n] = t[n]
  <2> TAKE n \in 1 .. N
  <2>0. n \in 1 .. Len(t) /\ h \in Seq(S)
    BY <1>2, <1>3
  <2>1. (h \o t)[Len(h) + n] = t[n]
    BY <1>1, <2>0, JoinedSecond
  <2> QED
    BY <1>2, <2>1 DEF h
<1>6. v[1] = x /\ v[2] = Separator
  BY <1>2, <1>4
<1>7. Comma(v) = 2
  <2>1. 2 \in 1 .. Len(v) /\ \A m \in 1 .. Len(v) : m < 2 => m = 1
    BY <1>4
  <2>2. \A m \in 1 .. Len(v) : m < 2 => v[m] # Separator
    BY <1>6, <2>1
  <2> QED
    BY <1>4, <1>6, <2>1, <2>2, CommaAt
<1>8. BeforeComma(v) = <<x>>
  <2>1. BeforeComma(v) = SubSeq(v, 1, 1)
    BY <1>7 DEF BeforeComma
  <2>2. Len(SubSeq(v, 1, 1)) = 1 /\ SubSeq(v, 1, 1) \in Seq(S) /\ SubSeq(v, 1, 1)[1] = v[1]
    BY <1>4
  <2> QED
    BY <1>6, <2>1, <2>2
<1>9. AfterComma(v) = t
  <2>1. AfterComma(v) = SubSeq(v, 3, 2 + N)
    BY <1>4, <1>7 DEF AfterComma
  <2> DEFINE u == SubSeq(v, 3, 2 + N)
  <2>2. u \in Seq(S) /\ Len(u) = N
    BY <1>4
  <2>3. ASSUME NEW n \in 1 .. N PROVE u[n] = t[n]
    <3>1. u[n] = v[2 + n]
      BY <1>4
    <3> QED
      BY <1>5, <3>1
  <2> HIDE DEF u
  <2>4. u = t
    BY <1>1, <1>3, <2>2, <2>3
  <2> QED
    BY <2>1, <2>4 DEF u
<1>10. Head(v) = x
  BY <1>4, <1>6
<1>11. v \in Seq(Range(v))
  BY <1>4, OfItsRange
<1> QED
  BY <1>7, <1>8, <1>9, <1>10, <1>11

LEMMA DigitOne ==
  /\ IsNumber(<<One>>) /\ IsNumber(<<Two>>) /\ NumberOf(One) = 1 /\ ~ IsNumber(<<Dash>>)
  /\ One # Separator /\ Two # Separator /\ Dash # Separator /\ One # Dash
<1>1. One = Spelled(1) /\ Two = Spelled(2)
  BY DEF Spelled, Digits, One, Two
<1>2. Dash \notin Range(Digits)
  <2> SUFFICES ASSUME NEW n \in DOMAIN Digits, Digits[n] = Dash PROVE FALSE
    BY DEF Range
  <2>1. n \in {1, 2, 3, 4, 5, 6, 7, 8}
    BY DEF Digits
  <2>2. Digits[n] \in {"0", "1", "2", "3", "4", "5", "6", "7"}
    BY <2>1 DEF Digits
  <2> QED
    BY <2>2 DEF Dash
<1>3. Head(<<Dash>>) = Dash
  OBVIOUS
<1>4. One # Separator /\ Two # Separator /\ Dash # Separator /\ One # Dash
  BY DEF One, Two, Dash, Separator
<1>5. 1 \in 0 .. 7 /\ 2 \in 0 .. 7
  OBVIOUS
<1>6. ~ IsNumber(<<Dash>>)
  BY <1>2, <1>3 DEF IsNumber
<1> QED
  BY <1>1, <1>4, <1>5, <1>6, Spelling

Entry(name, count) == [name |-> name, count |-> count]

LEMMA SaidOfFn ==
  ASSUME NEW i \in Files, NEW j \in DOMAIN FunctionsIn(i), NEW dialect
  PROVE  Said(FnOf(i, j, dialect)) = {Entry(FunctionsIn(i)[j], 0)}
<1> DEFINE name == FunctionsIn(i)[j]
           v == FnPrefix(dialect) \o name
<1>1. /\ name \in Seq(Range(name)) /\ name # <<>>
      /\ Comma(name) = 0 \/ ~ IsNumber(BeforeComma(name))
  <2>1. SourceFiles[i] \in Range(SourceFiles) /\ name \in Range(FunctionsOf[SourceFiles[i]])
    BY Named DEF Range, Files, FunctionsIn
  <2> HIDE DEF name
  <2> QED
    BY <2>1, CoverageAssumption DEF IsText
<1>2. FnOf(i, j, dialect).key = "FN" /\ FnOf(i, j, dialect).value = v
  BY DEF FnOf, Line
<1>3. Said(FnOf(i, j, dialect)) = parse_fn(v)
  BY <1>2 DEF Said
<1> HIDE DEF name
<1>4. CASE dialect # 2
  <2>1. v = <<One, Separator>> \o name
    BY <1>4 DEF FnPrefix, One, Separator
  <2> HIDE DEF v
  <2>2. Comma(v) = 2 /\ BeforeComma(v) = <<One>> /\ AfterComma(v) = name
    BY <1>1, <2>1, BehindComma, DigitOne
  <2>3. parse_fn(v) = {[name |-> n, count |-> 0] : n \in {name} \ {<<>>}}
    BY <1>1, <2>2, DigitOne DEF parse_fn
  <2> QED
    BY <1>1, <1>3, <2>3 DEF Entry, name
<1>5. CASE dialect = 2
  <2> DEFINE rest == <<Two, Separator>> \o name
  <2>1. rest \in Seq(Range(rest)) /\ Comma(rest) = 2 /\ BeforeComma(rest) = <<Two>> /\ AfterComma(rest) = name
    BY <1>1, BehindComma, DigitOne
  <2>2. v = <<One, Separator>> \o rest
    <3>1. v = <<One, Separator, Two, Separator>> \o name
      BY <1>5 DEF FnPrefix, One, Two, Separator
    <3> DEFINE S == Range(name) \cup {One, Two, Separator}
    <3>2. name \in Seq(S)
      BY <1>1, Wider
    <3>3. <<One, Separator>> \in Seq(S) /\ <<Two, Separator>> \in Seq(S)
      BY Pair
    <3>4. <<One, Separator, Two, Separator>> = <<One, Separator>> \o <<Two, Separator>>
      OBVIOUS
    <3> HIDE DEF S, v
    <3>5. (<<One, Separator>> \o <<Two, Separator>>) \o name = <<One, Separator>> \o (<<Two, Separator>> \o name)
      BY <3>2, <3>3, ConcatAssociative
    <3> QED
      BY <3>1, <3>4, <3>5
  <2> HIDE DEF v, rest
  <2>3. Comma(v) = 2 /\ BeforeComma(v) = <<One>> /\ AfterComma(v) = rest
    BY <2>1, <2>2, BehindComma, DigitOne
  <2>4. parse_fn(v) = {[name |-> name, count |-> 0]}
    BY <1>1, <2>1, <2>3, DigitOne DEF parse_fn
  <2> QED
    BY <1>3, <2>4 DEF Entry, name
<1> QED
  BY <1>4, <1>5

LEMMA SaidOfFnda ==
  ASSUME NEW i \in Files, NEW j \in DOMAIN FunctionsIn(i), NEW counts,
         counts[Fn(i, j)] \in 0 .. 7
  PROVE  Said(FndaOf(i, j, counts)) = {Entry(FunctionsIn(i)[j], counts[Fn(i, j)])}
<1> DEFINE name == FunctionsIn(i)[j]
           x == Spelled(counts[Fn(i, j)])
           v == <<x, Separator>> \o name
<1>1. name \in Seq(Range(name)) /\ name # <<>>
  BY Named DEF IsText
<1>2. x # Separator /\ NumberOf(x) = counts[Fn(i, j)] /\ IsNumber(<<x>>)
  BY Spelling DEF Separator
<1>3. FndaOf(i, j, counts).key = "FNDA" /\ FndaOf(i, j, counts).value = v
  BY DEF FndaOf, Line, Separator
<1>4. Said(FndaOf(i, j, counts)) = parse_counted(v)
  BY <1>3 DEF Said
<1> HIDE DEF name, x
<1>5. Comma(v) = 2 /\ BeforeComma(v) = <<x>> /\ AfterComma(v) = name /\ Head(v) = x
  BY <1>1, <1>2, BehindComma
<1> HIDE DEF v
<1>6. parse_counted(v) = {[name |-> n, count |-> NumberOf(x)] : n \in {name} \ {<<>>}}
  BY <1>2, <1>5 DEF parse_counted
<1>7. parse_counted(v) = {[name |-> name, count |-> NumberOf(x)]}
  BY <1>1, <1>6
<1> QED
  BY <1>2, <1>4, <1>7 DEF Entry, name

LEMMA SaidOfDa ==
  ASSUME NEW i \in Files, NEW counts
  PROVE  Said(DaOf(i, counts)) = {Entry(<<One>>, IF Entered(i, counts) THEN 1 ELSE 0)}
<1> DEFINE x == IF Entered(i, counts) THEN One ELSE Dash
           v == <<One, Separator, x>>
           rest == <<x, Separator>>
<1>1. DaOf(i, counts).key = "DA" /\ DaOf(i, counts).value = v
  BY DEF DaOf, Line, One, Dash, Separator
<1>2. Said(DaOf(i, counts)) = parse_da(v)
  BY <1>1 DEF Said
<1>3. x # Separator
  BY DigitOne
<1> HIDE DEF x
<1>4. Comma(v) = 2 /\ BeforeComma(v) = <<One>> /\ AfterComma(v) = <<x>>
  <2>1. v = <<One, Separator>> \o <<x>>
    OBVIOUS
  <2>2. <<x>> \in Seq({x})
    OBVIOUS
  <2>3. <<x>> \in Seq(Range(<<x>>))
    BY <2>2, OfItsRange
  <2> HIDE DEF v
  <2> QED
    BY <2>1, <2>3, BehindComma, DigitOne
<1>5. BeforeComma(rest) = <<x>>
  <2>1. rest = <<x, Separator>> \o <<>> /\ <<>> \in Seq(Range(<<>>))
    OBVIOUS
  <2> HIDE DEF rest
  <2> QED
    BY <1>3, <2>1, BehindComma
<1>6. <<x>> \o <<Separator>> = rest /\ Head(<<x>>) = x
  BY OneAndOne
<1> HIDE DEF v, rest
<1>7. parse_da(v) = IF <<x>> = <<Dash>> THEN {Entry(<<One>>, 0)}
                    ELSE IF IsNumber(<<x>>) THEN {Entry(<<One>>, NumberOf(x))} ELSE {}
  <2>1. AfterComma(v) \o <<",">> = rest
    BY <1>4, <1>6 DEF Separator
  <2>2. parse_da(v) = IF Comma(v) = 0 \/ ~ IsNumber(BeforeComma(v)) THEN {}
                      ELSE IF BeforeComma(rest) = <<"-">> THEN {Entry(BeforeComma(v), 0)}
                      ELSE IF IsNumber(BeforeComma(rest))
                             THEN {Entry(BeforeComma(v), NumberOf(Head(BeforeComma(rest))))}
                      ELSE {}
    BY <2>1 DEF parse_da, Entry
  <2> QED
    BY <1>4, <1>5, <1>6, <2>2, DigitOne DEF Dash
<1>8. CASE Entered(i, counts)
  <2>1. x = One /\ <<x>> # <<Dash>>
    BY <1>8, DigitOne DEF x
  <2> QED
    BY <1>2, <1>7, <1>8, <2>1, DigitOne
<1>9. CASE ~ Entered(i, counts)
  <2>1. x = Dash
    BY <1>9 DEF x
  <2> QED
    BY <1>2, <1>7, <1>9, <2>1
<1> QED
  BY <1>8, <1>9

(* Counts of a name, added up.                                             *)
Wrapped(a, b) == (a + b) % (CountMax + 1)

LEMMA AddedDomain ==
  ASSUME NEW counts, NEW name, NEW n
  PROVE  DOMAIN Added(counts, name, n) = DOMAIN counts \cup {name}
BY DEF Added

LEMMA AddedOld ==
  ASSUME NEW counts, NEW name \in DOMAIN counts, NEW n
  PROVE  Added(counts, name, n)[name] = Wrapped(counts[name], n)
BY DEF Added, Wrapped

LEMMA AddedNew ==
  ASSUME NEW counts, NEW name, name \notin DOMAIN counts, NEW n
  PROVE  Added(counts, name, n)[name] = n
BY DEF Added

LEMMA AddedElse ==
  ASSUME NEW counts, NEW name, NEW n, NEW m \in DOMAIN counts, m # name
  PROVE  Added(counts, name, n)[m] = counts[m]
BY DEF Added

(* One record is another than it was.                                      *)
Knows(acc, open, records) ==
  acc = [bad |-> acc.bad, open |-> open, records |-> records] /\ acc.bad = FALSE
Amended(records, key, source, calls, lines) ==
  [records EXCEPT ![key] = [source |-> source, calls |-> calls, lines |-> lines]]

LEMMA AmendedIs ==
  ASSUME NEW records, NEW key \in DOMAIN records, NEW source, NEW calls, NEW lines,
         NEW after, after = Amended(records, key, source, calls, lines)
  PROVE  /\ DOMAIN after = DOMAIN records
         /\ after[key].calls = calls /\ after[key].lines = lines /\ after[key].source = source
         /\ Plain(after[key])
         /\ \A k \in DOMAIN records \ {key} : after[k] = records[k]
BY DEF Amended, Plain

CallAdded(records, key, name, n, more) ==
  LET calls == records[key].calls
      sum == more[key].calls
  IN  /\ DOMAIN more = DOMAIN records
      /\ more[key].lines = records[key].lines /\ Plain(more[key])
      /\ DOMAIN sum = DOMAIN calls \cup {name}
      /\ (name \in DOMAIN calls => sum[name] = Wrapped(calls[name], n))
      /\ (name \notin DOMAIN calls => sum[name] = n)
      /\ \A m \in DOMAIN calls \ {name} : sum[m] = calls[m]
      /\ \A k \in DOMAIN records \ {key} : more[k] = records[k]

LEMMA CallsThen ==
  ASSUME NEW records, NEW key \in DOMAIN records, NEW name, NEW n, NEW more,
         more = Amended(records, key, records[key].source,
                        Added(records[key].calls, name, n), records[key].lines)
  PROVE  CallAdded(records, key, name, n, more)
<1> DEFINE calls == records[key].calls
           sum == Added(calls, name, n)
<1>1. /\ DOMAIN more = DOMAIN records
      /\ more[key].calls = sum /\ more[key].lines = records[key].lines
      /\ Plain(more[key])
      /\ \A k \in DOMAIN records \ {key} : more[k] = records[k]
  BY AmendedIs
<1>2. DOMAIN sum = DOMAIN calls \cup {name}
  BY AddedDomain
<1>3. name \in DOMAIN calls => sum[name] = Wrapped(calls[name], n)
  BY AddedOld
<1>4. name \notin DOMAIN calls => sum[name] = n
  BY AddedNew
<1>5. \A m \in DOMAIN calls \ {name} : sum[m] = calls[m]
  BY AddedElse
<1> HIDE DEF sum
<1> QED
  BY <1>1, <1>2, <1>3, <1>4, <1>5 DEF CallAdded

LineAdded(records, key, name, n, more) ==
  LET lines == records[key].lines
      sum == more[key].lines
  IN  /\ DOMAIN more = DOMAIN records
      /\ more[key].calls = records[key].calls /\ Plain(more[key])
      /\ DOMAIN sum = DOMAIN lines \cup {name}
      /\ (name \in DOMAIN lines => sum[name] = Wrapped(lines[name], n))
      /\ (name \notin DOMAIN lines => sum[name] = n)
      /\ \A m \in DOMAIN lines \ {name} : sum[m] = lines[m]
      /\ \A k \in DOMAIN records \ {key} : more[k] = records[k]

LEMMA LinesThen ==
  ASSUME NEW records, NEW key \in DOMAIN records, NEW name, NEW n, NEW more,
         more = Amended(records, key, records[key].source,
                        records[key].calls, Added(records[key].lines, name, n))
  PROVE  LineAdded(records, key, name, n, more)
<1> DEFINE lines == records[key].lines
           sum == Added(lines, name, n)
<1>1. /\ DOMAIN more = DOMAIN records
      /\ more[key].lines = sum /\ more[key].calls = records[key].calls
      /\ Plain(more[key])
      /\ \A k \in DOMAIN records \ {key} : more[k] = records[k]
  BY AmendedIs
<1>2. DOMAIN sum = DOMAIN lines \cup {name}
  BY AddedDomain
<1>3. name \in DOMAIN lines => sum[name] = Wrapped(lines[name], n)
  BY AddedOld
<1>4. name \notin DOMAIN lines => sum[name] = n
  BY AddedNew
<1>5. \A m \in DOMAIN lines \ {name} : sum[m] = lines[m]
  BY AddedElse
<1> HIDE DEF sum
<1> QED
  BY <1>1, <1>2, <1>3, <1>4, <1>5 DEF LineAdded

LEMMA HearTn ==
  ASSUME NEW acc
  PROVE  parse_line(acc, Line("TN", <<>>)) = acc
BY DEF parse_line, Line

LEMMA HearSf ==
  ASSUME NEW i \in Files, NEW acc, ~ acc.bad
  PROVE  parse_line(acc, Line("SF", SourceFiles[i])) =
           [acc EXCEPT !.open = {Key(i)}, !.records =
              [k \in DOMAIN acc.records \cup {Key(i)} |->
                 IF k \in DOMAIN acc.records THEN acc.records[k]
                 ELSE [source |-> SourceFiles[i], calls |-> <<>>, lines |-> <<>>]]]
<1>1. SourceFiles[i] # <<>>
  BY Named DEF IsText
<1> DEFINE line == Line("SF", SourceFiles[i])
<1>2. line.key = "SF" /\ line.value = SourceFiles[i]
  BY DEF Line
<1> HIDE DEF line
<1>3. normalize_source(line.value) = Key(i)
  BY <1>2 DEF Key
<1>4. parse_line(acc, line) =
           [acc EXCEPT !.open = {Key(i)}, !.records =
              [k \in DOMAIN acc.records \cup {Key(i)} |->
                 IF k \in DOMAIN acc.records THEN acc.records[k]
                 ELSE [source |-> SourceFiles[i], calls |-> <<>>, lines |-> <<>>]]]
  BY <1>1, <1>2, <1>3 DEF parse_line
<1> QED
  BY <1>4 DEF line

LEMMA HearEnd ==
  ASSUME NEW acc, ~ acc.bad, acc.open # {}
  PROVE  parse_line(acc, End) = [acc EXCEPT !.open = {}]
BY DEF parse_line, End, Line

LEMMA CallsAmended ==
  ASSUME NEW open, NEW records, NEW key \in DOMAIN records, Plain(records[key]), NEW name, NEW n,
         NEW acc, Knows(acc, open, records)
  PROVE  Knows([acc EXCEPT !.records[key].calls = Added(@, name, n)], open,
               Amended(records, key, records[key].source, Added(records[key].calls, name, n), records[key].lines))
<1> DEFINE r == records[key]
           sum == Added(r.calls, name, n)
           one == [source |-> r.source, calls |-> sum, lines |-> r.lines]
<1>1. [r EXCEPT !.calls = sum] = one
  <2>1. Plain(r)
    OBVIOUS
  <2> HIDE DEF sum, r
  <2> QED
    BY <2>1 DEF Plain
<1>2. [acc EXCEPT !.records[key].calls = Added(@, name, n)] =
        [acc EXCEPT !.records = [records EXCEPT ![key] = [r EXCEPT !.calls = sum]]]
  BY DEF Knows
<1> HIDE DEF sum, r
<1>3. [acc EXCEPT !.records = [records EXCEPT ![key] = one]] =
        [bad |-> acc.bad, open |-> open, records |-> [records EXCEPT ![key] = one]]
  <2> DEFINE more == [records EXCEPT ![key] = one]
  <2> HIDE DEF one, more
  <2>1. [acc EXCEPT !.records = more] = [bad |-> acc.bad, open |-> open, records |-> more]
    BY DEF Knows
  <2> QED
    BY <2>1 DEF more
<1> QED
  BY <1>1, <1>2, <1>3 DEF Knows, Amended, r, sum

LEMMA LinesAmended ==
  ASSUME NEW open, NEW records, NEW key \in DOMAIN records, Plain(records[key]), NEW name, NEW n,
         NEW acc, Knows(acc, open, records)
  PROVE  Knows([acc EXCEPT !.records[key].lines = Added(@, name, n)], open,
               Amended(records, key, records[key].source, records[key].calls, Added(records[key].lines, name, n)))
<1> DEFINE r == records[key]
           sum == Added(r.lines, name, n)
           one == [source |-> r.source, calls |-> r.calls, lines |-> sum]
<1>1. [r EXCEPT !.lines = sum] = one
  <2>1. Plain(r)
    OBVIOUS
  <2> HIDE DEF sum, r
  <2> QED
    BY <2>1 DEF Plain
<1>2. [acc EXCEPT !.records[key].lines = Added(@, name, n)] =
        [acc EXCEPT !.records = [records EXCEPT ![key] = [r EXCEPT !.lines = sum]]]
  BY DEF Knows
<1> HIDE DEF sum, r
<1>3. [acc EXCEPT !.records = [records EXCEPT ![key] = one]] =
        [bad |-> acc.bad, open |-> open, records |-> [records EXCEPT ![key] = one]]
  <2> DEFINE more == [records EXCEPT ![key] = one]
  <2> HIDE DEF one, more
  <2>1. [acc EXCEPT !.records = more] = [bad |-> acc.bad, open |-> open, records |-> more]
    BY DEF Knows
  <2> QED
    BY <2>1 DEF more
<1> QED
  BY <1>1, <1>2, <1>3 DEF Knows, Amended, r, sum

IsCall(line) == line.key \in {"FN", "FNDA"}

LEMMA HearCall ==
  ASSUME NEW acc, NEW key, Knows(acc, {key}, acc.records), key \in DOMAIN acc.records,
         Plain(acc.records[key]),
         NEW line, IsCall(line), NEW name, NEW n, Said(line) = {Entry(name, n)},
         NEW then, then = parse_line(acc, line)
  PROVE  Knows(then, {key}, then.records) /\ CallAdded(acc.records, key, name, n, then.records)
<1>1. (CHOOSE s \in Said(line) : TRUE) = Entry(name, n) /\ Said(line) # {}
  OBVIOUS
<1>2. acc.open = {key} /\ ~ acc.bad
  BY DEF Knows
<1>3. (CHOOSE k \in acc.open : TRUE) = key /\ acc.open # {}
  BY <1>2
<1>4. Entry(name, n).name = name /\ Entry(name, n).count = n
  BY DEF Entry
<1>5. then = [acc EXCEPT !.records[key].calls = Added(@, name, n)]
  BY <1>1, <1>2, <1>3, <1>4 DEF parse_line, IsCall
<1> DEFINE records == acc.records
           more == Amended(records, key, records[key].source, Added(records[key].calls, name, n), records[key].lines)
<1>6. Knows(then, {key}, more)
  <2> HIDE DEF records
  <2>1. key \in DOMAIN records /\ Plain(records[key]) /\ Knows(acc, {key}, records)
    BY DEF records
  <2>2. Knows([acc EXCEPT !.records[key].calls = Added(@, name, n)], {key}, more)
    BY <2>1, CallsAmended
  <2> QED
    BY <1>5, <2>2
<1>7. then.records = more
  <2> HIDE DEF more
  <2> QED
    BY <1>6 DEF Knows
<1>8. CallAdded(records, key, name, n, more)
  BY CallsThen
<1> QED
  BY <1>6, <1>7, <1>8

LEMMA HearDa ==
  ASSUME NEW acc, NEW key, Knows(acc, {key}, acc.records), key \in DOMAIN acc.records,
         Plain(acc.records[key]),
         NEW line, line.key = "DA", NEW name, NEW n, Said(line) = {Entry(name, n)},
         NEW then, then = parse_line(acc, line)
  PROVE  Knows(then, {key}, then.records) /\ LineAdded(acc.records, key, name, n, then.records)
<1>1. (CHOOSE s \in Said(line) : TRUE) = Entry(name, n) /\ Said(line) # {}
  OBVIOUS
<1>2. acc.open = {key} /\ ~ acc.bad
  BY DEF Knows
<1>3. (CHOOSE k \in acc.open : TRUE) = key /\ acc.open # {}
  BY <1>2
<1>4. Entry(name, n).name = name /\ Entry(name, n).count = n
  BY DEF Entry
<1>5. then = [acc EXCEPT !.records[key].lines = Added(@, name, n)]
  BY <1>1, <1>2, <1>3, <1>4 DEF parse_line
<1> DEFINE records == acc.records
           more == Amended(records, key, records[key].source, records[key].calls, Added(records[key].lines, name, n))
<1>6. Knows(then, {key}, more)
  <2> HIDE DEF records
  <2>1. key \in DOMAIN records /\ Plain(records[key]) /\ Knows(acc, {key}, records)
    BY DEF records
  <2>2. Knows([acc EXCEPT !.records[key].lines = Added(@, name, n)], {key}, more)
    BY <2>1, LinesAmended
  <2> QED
    BY <1>5, <2>2
<1>7. then.records = more
  <2> HIDE DEF more
  <2> QED
    BY <1>6 DEF Knows
<1>8. LineAdded(records, key, name, n, more)
  BY LinesThen
<1> QED
  BY <1>6, <1>7, <1>8

LEMMA SumIsNat ==
  ASSUME NEW a \in Nat, NEW b \in Nat
  PROVE  /\ Wrapped(a, b) \in Nat
         /\ a + b <= CountMax => Wrapped(a, b) = a + b
         /\ Wrapped(a, b) > 0 => a > 0 \/ b > 0
<1>1. CountMax + 1 \in Nat /\ CountMax + 1 > 0 /\ CountMax \in Nat
  BY CoverageAssumption
<1>2. Wrapped(a, b) \in Nat
  BY <1>1 DEF Wrapped
<1>3. a + b <= CountMax => Wrapped(a, b) = a + b
  BY <1>1 DEF Wrapped
<1>4. a = 0 /\ b = 0 => Wrapped(a, b) = 0
  BY <1>1 DEF Wrapped
<1> QED
  BY <1>2, <1>3, <1>4

(* A total that has grown by one more run's.                               *)
Grown(total, i, j, n, after) ==
  \A k \in Files : \A m \in DOMAIN FunctionsIn(k) :
    after[k][m] = total[k][m] + IF k = i /\ m = j THEN n ELSE 0

LEMMA CallHeard ==
  ASSUME NEW i \in Files, NEW j \in DOMAIN FunctionsIn(i), NEW n \in Nat,
         NEW total, Numbers(total), NEW after, Grown(total, i, j, n, after),
         NEW records, Records(records), Exact(records, total), Key(i) \in DOMAIN records,
         NEW more, CallAdded(records, Key(i), FunctionsIn(i)[j], n, more)
  PROVE  Records(more) /\ Exact(more, after)
<1> DEFINE key == Key(i)
           name == FunctionsIn(i)[j]
           calls == records[key].calls
           sum == more[key].calls
<1>1. /\ DOMAIN more = DOMAIN records
      /\ more[key].calls = sum /\ more[key].lines = records[key].lines
      /\ Plain(more[key])
      /\ \A k \in DOMAIN records \ {key} : more[k] = records[k]
  BY DEF CallAdded
<1>2. /\ DOMAIN sum = DOMAIN calls \cup {name}
      /\ (name \in DOMAIN calls => sum[name] = Wrapped(calls[name], n))
      /\ (name \notin DOMAIN calls => sum[name] = n)
      /\ \A m \in DOMAIN calls \ {name} : sum[m] = calls[m]
  BY DEF CallAdded
<1>3. RecordOf(records[key], i)
  BY DEF Records
<1>5. name \in Range(FunctionsIn(i))
  BY Named
<1>4. /\ DOMAIN calls \subseteq Range(FunctionsIn(i))
      /\ \A m \in DOMAIN calls : calls[m] \in Nat
  BY <1>3 DEF RecordOf
<1> HIDE DEF sum, calls, name, key
<1>6. \A m \in DOMAIN sum : sum[m] \in Nat
  <2>1. name \in DOMAIN calls => Wrapped(calls[name], n) \in Nat
    BY <1>4, SumIsNat
  <2> QED
    BY <1>2, <1>4, <2>1
<1>7. RecordOf(more[key], i)
  BY <1>1, <1>2, <1>3, <1>4, <1>5, <1>6 DEF RecordOf
<1>8. ASSUME NEW k \in Files, Key(k) \in DOMAIN more
      PROVE  RecordOf(more[Key(k)], k)
  <2>1. CASE k = i
    BY <1>7, <2>1 DEF key
  <2>2. CASE k # i
    <3>1. Key(k) # key
      BY <2>2, Named DEF key
    <3> QED
      BY <1>1, <1>8, <3>1 DEF Records
  <2> QED
    BY <2>1, <2>2
<1>9. Records(more)
  BY <1>1, <1>8 DEF Records
<1>10. ASSUME NEW k \in Files, NEW m \in DOMAIN FunctionsIn(k), after[k][m] <= CountMax
       PROVE  CallsIn(more, Key(k), FunctionsIn(k)[m]) = after[k][m]
  <2>1. /\ total[k][m] \in Nat /\ CountMax \in Nat
        /\ after[k][m] = total[k][m] + IF k = i /\ m = j THEN n ELSE 0
    BY CoverageAssumption DEF Numbers, Grown
  <2>2. total[k][m] <= CountMax
    BY <1>10, <2>1
  <2>3. CallsIn(records, Key(k), FunctionsIn(k)[m]) = total[k][m]
    BY <2>2 DEF Exact
  <2>4. CASE k # i
    <3>1. Key(k) # key
      BY <2>4, Named DEF key
    <3>2. Key(k) \in DOMAIN records => more[Key(k)] = records[Key(k)]
      BY <1>1, <3>1
    <3>3. CallsIn(more, Key(k), FunctionsIn(k)[m]) = CallsIn(records, Key(k), FunctionsIn(k)[m])
      BY <1>1, <3>2 DEF CallsIn
    <3> QED
      BY <2>1, <2>3, <2>4, <3>3
  <2>5. CASE k = i /\ m # j
    <3>1. FunctionsIn(k)[m] # name
      BY <2>5, Named DEF name
    <3>2. CallsIn(more, key, FunctionsIn(k)[m]) = CallsIn(records, key, FunctionsIn(k)[m])
      BY <1>1, <1>2, <3>1 DEF CallsIn, calls, key
    <3> QED
      BY <2>1, <2>3, <2>5, <3>2 DEF key
  <2>6. CASE k = i /\ m = j
    <3>1. FunctionsIn(k)[m] = name /\ Key(k) = key /\ key \in DOMAIN records
      BY <2>6 DEF name, key
    <3>2. CallsIn(more, key, name) = sum[name]
      BY <1>1, <1>2, <3>1 DEF CallsIn
    <3>5. CallsIn(more, Key(k), FunctionsIn(k)[m]) = sum[name]
      BY <3>1, <3>2
    <3>6. after[k][m] = total[k][m] + n
      BY <2>1, <2>6
    <3>3. CASE name \in DOMAIN calls
      <4>1. calls[name] = total[k][m]
        BY <2>3, <3>1, <3>3 DEF CallsIn, calls
      <4>2. Wrapped(total[k][m], n) = total[k][m] + n
        <5>1. total[k][m] \in Nat /\ total[k][m] + n <= CountMax
          BY <1>10, <2>1, <3>6
        <5> QED
          BY <5>1, SumIsNat
      <4>3. sum[name] = Wrapped(calls[name], n)
        BY <1>2, <3>3
      <4> QED
        BY <3>5, <3>6, <4>1, <4>2, <4>3
    <3>4. CASE name \notin DOMAIN calls
      <4>1. total[k][m] = 0
        BY <2>3, <3>1, <3>4 DEF CallsIn, calls
      <4> QED
        BY <1>2, <3>1, <3>4, <3>5, <3>6, <4>1
    <3> QED
      BY <3>3, <3>4
  <2> QED
    BY <2>4, <2>5, <2>6
<1>11. ASSUME NEW k \in Files, Key(k) \in DOMAIN more,
              NEW l \in DOMAIN more[Key(k)].lines, more[Key(k)].lines[l] > 0
       PROVE  \E m \in DOMAIN FunctionsIn(k) : after[k][m] > 0
  <2>1. more[Key(k)].lines = records[Key(k)].lines /\ Key(k) \in DOMAIN records
    BY <1>1, <1>11 DEF key
  <2>2. PICK m \in DOMAIN FunctionsIn(k) : total[k][m] > 0
    BY <1>11, <2>1 DEF Exact
  <2>3. /\ total[k][m] \in Nat
        /\ after[k][m] = total[k][m] + IF k = i /\ m = j THEN n ELSE 0
    BY DEF Numbers, Grown
  <2> QED
    BY <2>2, <2>3
<1>12. Exact(more, after)
  BY <1>10, <1>11 DEF Exact
<1> QED
  BY <1>9, <1>12

LEMMA LineHeard ==
  ASSUME NEW i \in Files, NEW n \in Nat, NEW total, Numbers(total),
         n > 0 => \E j \in DOMAIN FunctionsIn(i) : total[i][j] > 0,
         NEW records, Records(records), Exact(records, total), Key(i) \in DOMAIN records,
         NEW more, LineAdded(records, Key(i), <<One>>, n, more)
  PROVE  Records(more) /\ Exact(more, total) /\ DOMAIN more[Key(i)].lines = {<<One>>}
<1> DEFINE key == Key(i)
           name == <<One>>
           lines == records[key].lines
           sum == more[key].lines
<1>1. /\ DOMAIN more = DOMAIN records
      /\ more[key].lines = sum /\ more[key].calls = records[key].calls
      /\ Plain(more[key])
      /\ \A k \in DOMAIN records \ {key} : more[k] = records[k]
  BY DEF LineAdded
<1>2. /\ DOMAIN sum = DOMAIN lines \cup {name}
      /\ (name \in DOMAIN lines => sum[name] = Wrapped(lines[name], n))
      /\ (name \notin DOMAIN lines => sum[name] = n)
      /\ \A m \in DOMAIN lines \ {name} : sum[m] = lines[m]
  BY DEF LineAdded
<1>3. RecordOf(records[key], i)
  BY DEF Records
<1>4. /\ DOMAIN lines \subseteq {name}
      /\ \A m \in DOMAIN lines : lines[m] \in Nat
  BY <1>3 DEF RecordOf
<1> HIDE DEF sum, lines, key, name
<1>5. DOMAIN sum = {name}
  BY <1>2, <1>4
<1>6. sum[name] \in Nat
  <2>1. name \in DOMAIN lines => Wrapped(lines[name], n) \in Nat
    BY <1>4, SumIsNat
  <2> QED
    BY <1>2, <2>1
<1>7. RecordOf(more[key], i)
  BY <1>1, <1>3, <1>5, <1>6 DEF RecordOf, name
<1>8. ASSUME NEW k \in Files, Key(k) \in DOMAIN more
      PROVE  RecordOf(more[Key(k)], k)
  <2>1. CASE k = i
    BY <1>7, <2>1 DEF key
  <2>2. CASE k # i
    <3>1. Key(k) # key
      BY <2>2, Named DEF key
    <3> QED
      BY <1>1, <1>8, <3>1 DEF Records
  <2> QED
    BY <2>1, <2>2
<1>9. Records(more)
  BY <1>1, <1>8 DEF Records
<1>10. ASSUME NEW k \in Files, NEW m \in DOMAIN FunctionsIn(k), total[k][m] <= CountMax
       PROVE  CallsIn(more, Key(k), FunctionsIn(k)[m]) = total[k][m]
  <2>1. CallsIn(records, Key(k), FunctionsIn(k)[m]) = total[k][m]
    BY <1>10 DEF Exact
  <2>2. Key(k) \in DOMAIN records => more[Key(k)].calls = records[Key(k)].calls
    BY <1>1
  <2>3. CallsIn(more, Key(k), FunctionsIn(k)[m]) = CallsIn(records, Key(k), FunctionsIn(k)[m])
    BY <1>1, <2>2 DEF CallsIn
  <2> QED
    BY <2>1, <2>3
<1>11. ASSUME NEW k \in Files, Key(k) \in DOMAIN more,
              NEW l \in DOMAIN more[Key(k)].lines, more[Key(k)].lines[l] > 0
       PROVE  \E m \in DOMAIN FunctionsIn(k) : total[k][m] > 0
  <2>1. CASE k # i
    <3>1. Key(k) # key
      BY <2>1, Named DEF key
    <3>2. more[Key(k)] = records[Key(k)] /\ Key(k) \in DOMAIN records
      BY <1>1, <1>11, <3>1
    <3> QED
      BY <1>11, <3>2 DEF Exact
  <2>2. CASE k = i
    <3>1. Key(k) = key /\ l = name /\ sum[name] > 0
      BY <1>1, <1>5, <1>11, <2>2 DEF key
    <3>2. CASE n > 0
      BY <2>2, <3>2
    <3>3. CASE ~ (n > 0)
      <4>1. n = 0
        BY <3>3
      <4>2. name \in DOMAIN lines
        BY <1>2, <3>1, <4>1
      <4>3. lines[name] > 0
        BY <1>2, <1>4, <3>1, <4>1, <4>2, SumIsNat
      <4> QED
        BY <1>1, <2>2, <4>2, <4>3 DEF Exact, lines, key
    <3> QED
      BY <3>2, <3>3
  <2> QED
    BY <2>1, <2>2
<1>12. Exact(more, total)
  BY <1>10, <1>11 DEF Exact
<1> QED
  BY <1>1, <1>5, <1>9, <1>12 DEF key, sum, name

LEMMA FileHeard ==
  ASSUME NEW i \in Files, NEW total, Numbers(total),
         NEW records, Records(records), Exact(records, total),
         NEW more, DOMAIN more = DOMAIN records \cup {Key(i)},
         \A k \in DOMAIN records : more[k] = records[k],
         Key(i) \notin DOMAIN records =>
           more[Key(i)] = [source |-> SourceFiles[i], calls |-> <<>>, lines |-> <<>>]
  PROVE  Records(more) /\ Exact(more, total)
<1>1. ASSUME NEW k \in Files, Key(k) \in DOMAIN more, Key(k) \notin DOMAIN records
      PROVE  /\ k = i /\ Plain(more[Key(k)])
             /\ DOMAIN more[Key(k)].calls = {} /\ DOMAIN more[Key(k)].lines = {}
  <2>1. Key(k) = Key(i)
    BY <1>1
  <2>2. k = i
    BY <2>1, Named
  <2>3. more[Key(k)] = [source |-> SourceFiles[i], calls |-> <<>>, lines |-> <<>>]
    BY <1>1, <2>1
  <2>4. Plain(more[Key(k)])
    BY <2>3 DEF Plain
  <2>5. DOMAIN <<>> = {}
    OBVIOUS
  <2> QED
    BY <2>2, <2>3, <2>4, <2>5
<1>2. ASSUME NEW k \in Files, Key(k) \in DOMAIN more
      PROVE  RecordOf(more[Key(k)], k)
  <2>1. CASE Key(k) \in DOMAIN records
    BY <2>1 DEF Records
  <2>2. CASE Key(k) \notin DOMAIN records
    BY <1>1, <1>2, <2>2 DEF RecordOf
  <2> QED
    BY <2>1, <2>2
<1>3. Records(more)
  BY <1>2 DEF Records
<1>4. ASSUME NEW k \in Files, NEW m \in DOMAIN FunctionsIn(k), total[k][m] <= CountMax
      PROVE  CallsIn(more, Key(k), FunctionsIn(k)[m]) = total[k][m]
  <2>1. CallsIn(records, Key(k), FunctionsIn(k)[m]) = total[k][m]
    BY <1>4 DEF Exact
  <2>2. CallsIn(more, Key(k), FunctionsIn(k)[m]) = CallsIn(records, Key(k), FunctionsIn(k)[m])
    BY <1>1 DEF CallsIn
  <2> QED
    BY <2>1, <2>2
<1>5. ASSUME NEW k \in Files, Key(k) \in DOMAIN more,
             NEW l \in DOMAIN more[Key(k)].lines, more[Key(k)].lines[l] > 0
      PROVE  \E m \in DOMAIN FunctionsIn(k) : total[k][m] > 0
  <2>1. Key(k) \in DOMAIN records
    BY <1>1, <1>5
  <2> QED
    BY <1>5, <2>1 DEF Exact
<1>6. Exact(more, total)
  BY <1>4, <1>5 DEF Exact
<1> QED
  BY <1>3, <1>6

-----------------------------------------------------------------------------
(* Where CI is after a line.                                               *)
Moved(c, d) ==
  /\ d.counts = c.counts
  /\ d.cut = (IF c.line = 2 THEN {} ELSE c.cut)
  /\ d.torn = (IF c.line = 2 THEN c.torn \cup c.cut ELSE c.torn)
  /\ \/ c.line < EndLine(c.file) /\ d.file = c.file /\ d.line = c.line + 1 /\ d.seen = c.seen
     \/ /\ c.line = EndLine(c.file) /\ c.file < Len(SourceFiles)
        /\ d.file = c.file + 1 /\ d.line = 1 /\ d.seen = c.seen
     \/ /\ c.line = EndLine(c.file) /\ c.file = Len(SourceFiles)
        /\ d.file = 0 /\ d.line = 0 /\ d.seen = [fn \in Functions0 |-> c.seen[fn] + c.counts[fn]]

LEMMA Positions ==
  ASSUME NEW i \in Files
  PROVE  /\ i \in Nat /\ i > 0 /\ i <= Len(SourceFiles)
         /\ DaLine(i) \in Nat /\ DaLine(i) > 2 /\ EndLine(i) = DaLine(i) + 1
         /\ \A j \in DOMAIN FunctionsIn(i) :
              /\ j \in Nat /\ FnLine(j) = 2 + j /\ FnLine(j) > 2
              /\ FndaLine(i, j) \in Nat /\ FndaLine(i, j) < DaLine(i)
              /\ \A m \in DOMAIN FunctionsIn(i) :
                   /\ FnLine(m) < FndaLine(i, j)
                   /\ FndaLine(i, m) = FndaLine(i, j) => m = j
                   /\ FndaLine(i, m) < FndaLine(i, j) <=> m < j
<1>1. PICK L \in Nat : L = Len(FunctionsIn(i)) /\ DOMAIN FunctionsIn(i) = 1 .. L
  BY Named
<1>2. i \in Nat /\ i > 0 /\ i <= Len(SourceFiles)
  BY Named
<1>3. /\ DaLine(i) = 2 * L + 3 /\ EndLine(i) = 2 * L + 4
      /\ \A j \in 1 .. L : FnLine(j) = 2 + j /\ FndaLine(i, j) = 2 + L + j
  BY <1>1 DEF DaLine, EndLine, FnLine, FndaLine
<1> QED
  BY <1>1, <1>2, <1>3

LEMMA CountsAreNat ==
  ASSUME NEW c, WriterShape(c), NEW fn \in Functions0
  PROVE  c.counts[fn] \in Nat /\ c.seen[fn] \in Nat /\ c.entered[fn] \in Nat
<1>1. c.counts \in [Functions0 -> 0 .. 7]
  BY DEF WriterShape
<1>2. c.seen \in [Functions0 -> Nat] /\ c.entered \in [Functions0 -> Nat]
  BY DEF WriterShape
<1>3. c.counts[fn] \in 0 .. 7
  BY <1>1
<1> QED
  BY <1>2, <1>3

LEMMA SoFarNumbers ==
  ASSUME NEW c, WriterShape(c)
  PROVE  Numbers(SoFar(c))
<1> SUFFICES ASSUME NEW i \in Files, NEW j \in DOMAIN FunctionsIn(i)
             PROVE  SoFar(c)[i][j] \in Nat
  BY DEF Numbers
<1>1. Fn(i, j) \in Functions0
  BY Named
<1>2. c.counts[Fn(i, j)] \in Nat /\ c.seen[Fn(i, j)] \in Nat
  BY <1>1, CountsAreNat
<1>3. SoFar(c)[i][j] = c.seen[Fn(i, j)] + IF Told(c, i, j) THEN c.counts[Fn(i, j)] ELSE 0
  BY DEF SoFar
<1> QED
  BY <1>2, <1>3

LEMMA SoFarMoved ==
  ASSUME NEW c, WriterShape(c), c.file \in Files, NEW d, Moved(c, d),
         NEW k \in Files, NEW m \in DOMAIN FunctionsIn(k)
  PROVE  SoFar(d)[k][m] =
           SoFar(c)[k][m] + IF k = c.file /\ c.line = FndaLine(k, m) THEN c.counts[Fn(k, m)] ELSE 0
<1> DEFINE fn == Fn(k, m)
           i == c.file
           n == c.line
<1>1. fn \in Functions0
  BY Named
<1>2. c.counts[fn] \in Nat /\ c.seen[fn] \in Nat
  BY <1>1, CountsAreNat
<1>3. /\ SoFar(c)[k][m] = c.seen[fn] + IF Told(c, k, m) THEN c.counts[fn] ELSE 0
      /\ SoFar(d)[k][m] = d.seen[fn] + IF Told(d, k, m) THEN c.counts[fn] ELSE 0
  BY DEF SoFar, Moved
<1>4. /\ i \in Nat /\ i > 0 /\ i <= Len(SourceFiles) /\ Len(SourceFiles) \in Nat
      /\ k \in Nat /\ k > 0 /\ k <= Len(SourceFiles)
      /\ n \in Nat /\ n > 0 /\ n <= EndLine(i) /\ EndLine(i) \in Nat
      /\ FndaLine(k, m) \in Nat /\ FndaLine(k, m) < EndLine(k) /\ FndaLine(k, m) > 2
  <2>1. i \in Nat /\ i > 0 /\ i <= Len(SourceFiles) /\ EndLine(i) \in Nat
    BY Positions
  <2>2. /\ k \in Nat /\ k > 0 /\ k <= Len(SourceFiles)
        /\ FndaLine(k, m) \in Nat /\ FndaLine(k, m) < EndLine(k) /\ FndaLine(k, m) > 2
    BY Positions
  <2>3. n \in 1 .. EndLine(i)
    BY <2>1 DEF WriterShape
  <2> QED
    BY <2>1, <2>2, <2>3, Named
<1>5. Told(c, k, m) <=> i > k \/ (i = k /\ n > FndaLine(k, m))
  BY DEF Told
<1>6. Told(d, k, m) <=> d.file > k \/ (d.file = k /\ d.line > FndaLine(k, m))
  BY DEF Told
<1> HIDE DEF fn
<1>7. CASE n < EndLine(i) /\ d.file = i /\ d.line = n + 1 /\ d.seen = c.seen
  <2>1. Told(d, k, m) <=> Told(c, k, m) \/ (k = i /\ n = FndaLine(k, m))
    BY <1>4, <1>5, <1>6, <1>7
  <2>2. ~ (Told(c, k, m) /\ (k = i /\ n = FndaLine(k, m)))
    BY <1>4, <1>5
  <2>3. CASE k = i /\ n = FndaLine(k, m)
    BY <1>2, <1>3, <1>7, <2>1, <2>2, <2>3 DEF fn
  <2>4. CASE ~ (k = i /\ n = FndaLine(k, m))
    BY <1>2, <1>3, <1>7, <2>1, <2>4
  <2> QED
    BY <2>3, <2>4
<1>8. CASE /\ n = EndLine(i) /\ i < Len(SourceFiles)
           /\ d.file = i + 1 /\ d.line = 1 /\ d.seen = c.seen
  <2>1. Told(d, k, m) <=> Told(c, k, m)
    BY <1>4, <1>5, <1>6, <1>8
  <2>2. ~ (k = i /\ n = FndaLine(k, m))
    BY <1>4, <1>8
  <2> QED
    BY <1>2, <1>3, <1>8, <2>1, <2>2
<1>9. CASE /\ n = EndLine(i) /\ i = Len(SourceFiles)
           /\ d.file = 0 /\ d.line = 0 /\ d.seen = [g \in Functions0 |-> c.seen[g] + c.counts[g]]
  <2>1. ~ Told(d, k, m) /\ Told(c, k, m)
    BY <1>4, <1>5, <1>6, <1>9
  <2>2. ~ (k = i /\ n = FndaLine(k, m))
    BY <1>4, <1>9
  <2>3. d.seen[fn] = c.seen[fn] + c.counts[fn]
    BY <1>1, <1>9
  <2> QED
    BY <1>2, <1>3, <2>1, <2>2, <2>3
<1> QED
  BY <1>7, <1>8, <1>9 DEF Moved

LEMMA SoFarStays ==
  ASSUME NEW c, WriterShape(c), c.file \in Files, NEW d, Moved(c, d),
         \A j \in DOMAIN FunctionsIn(c.file) : c.line # FndaLine(c.file, j)
  PROVE  SoFar(d) = SoFar(c)
<1>1. ASSUME NEW k \in Files, NEW m \in DOMAIN FunctionsIn(k)
      PROVE  SoFar(d)[k][m] = SoFar(c)[k][m]
  <2>1. ~ (k = c.file /\ c.line = FndaLine(k, m))
    OBVIOUS
  <2>2. SoFar(c)[k][m] \in Nat
    BY SoFarNumbers DEF Numbers
  <2>3. SoFar(d)[k][m] =
          SoFar(c)[k][m] + IF k = c.file /\ c.line = FndaLine(k, m) THEN c.counts[Fn(k, m)] ELSE 0
    BY SoFarMoved
  <2> QED
    BY <2>1, <2>2, <2>3
<1>2. ASSUME NEW k \in Files PROVE SoFar(d)[k] = SoFar(c)[k]
  <2>1. /\ SoFar(d)[k] = [m \in DOMAIN FunctionsIn(k) |-> SoFar(d)[k][m]]
        /\ SoFar(c)[k] = [m \in DOMAIN FunctionsIn(k) |-> SoFar(c)[k][m]]
    BY DEF SoFar
  <2> QED
    BY <1>1, <2>1
<1>3. /\ SoFar(d) = [k \in Files |-> SoFar(d)[k]]
      /\ SoFar(c) = [k \in Files |-> SoFar(c)[k]]
  BY DEF SoFar
<1> QED
  BY <1>2, <1>3

OnlyAbout(key, records, more) ==
  /\ DOMAIN more \subseteq DOMAIN records \cup {key}
  /\ \A k \in DOMAIN records \ {key} : more[k] = records[k]

LEMMA OthersStayFull ==
  ASSUME NEW torn, NEW cut \in SUBSET Range(SourceFiles), NEW i \in Files, NEW acc, Sound(acc, torn),
         acc.open \subseteq {Key(i)} \cup {normalize_source(f) : f \in cut},
         NEW then, Knows(then, {Key(i)}, then.records), Records(then.records),
         OnlyAbout(Key(i), acc.records, then.records)
  PROVE  Sound(then, torn \cup cut)
<1>0. /\ then.open = {Key(i)}
      /\ DOMAIN then.records \subseteq DOMAIN acc.records \cup {Key(i)}
      /\ \A k \in DOMAIN acc.records \ {Key(i)} : then.records[k] = acc.records[k]
  BY DEF OnlyAbout, Knows
<1>1. ASSUME NEW k \in Files, Key(k) \in DOMAIN then.records \ then.open, SourceFiles[k] \notin torn \cup cut
      PROVE  Full(then.records[Key(k)], k)
  <2>1. Key(k) \in DOMAIN acc.records \ {Key(i)} /\ SourceFiles[k] \notin torn
    BY <1>0, <1>1
  <2>2. ASSUME NEW f \in cut PROVE normalize_source(f) # Key(k)
    <3>1. PICK m \in Files : f = SourceFiles[m]
      BY DEF Range, Files
    <3>2. m # k
      BY <1>1, <3>1
    <3> QED
      BY <3>1, <3>2, Named DEF Key
  <2>3. Key(k) \notin acc.open
    BY <2>1, <2>2
  <2>4. Full(acc.records[Key(k)], k)
    BY <2>1, <2>3 DEF Sound
  <2> QED
    BY <1>0, <2>1, <2>4
<1> QED
  BY <1>0, <1>1 DEF Sound, Knows

LEMMA Written ==
  ASSUME NEW c, WriterShape(c), NEW i \in Files, c.file = i, NEW d, Moved(c, d),
         NEW acc, Sound(acc, c.torn), Abreast(c, acc),
         NEW then, then = parse_line(acc, Block(SourceFiles[i], c.counts, c.dialect)[c.line])
  PROVE  Sound(then, d.torn) /\ Abreast(d, then)
<1> DEFINE n == c.line
           key == Key(i)
           line == Block(SourceFiles[i], c.counts, c.dialect)[n]
<1>1. /\ i \in Nat /\ i > 0 /\ i # 0 /\ n \in Nat /\ n \in 1 .. EndLine(i)
      /\ DaLine(i) \in Nat /\ DaLine(i) > 2 /\ EndLine(i) = DaLine(i) + 1
  <2>1. /\ i \in Nat /\ i > 0 /\ DaLine(i) \in Nat /\ DaLine(i) > 2 /\ EndLine(i) = DaLine(i) + 1
    BY Positions
  <2>2. n \in 1 .. EndLine(i)
    BY <2>1 DEF WriterShape
  <2> QED
    BY <2>1, <2>2
<1>2. Knows(acc, acc.open, acc.records) /\ Records(acc.records) /\ ~ acc.bad
  BY DEF Sound, Knows
<1>3. Exact(acc.records, SoFar(c)) /\ Numbers(SoFar(c))
  BY SoFarNumbers DEF Abreast
<1>4. /\ n <= 2 => acc.open = {normalize_source(f) : f \in c.cut}
      /\ c.cut \in SUBSET Range(SourceFiles) /\ (n > 2 => c.cut = {})
      /\ n = 2 => d.cut = {} /\ d.torn = c.torn \cup c.cut
      /\ n # 2 => d.cut = c.cut /\ d.torn = c.torn
  BY <1>1 DEF Abreast, WriterShape, Moved
<1>5. n > 2 => /\ acc.open = {key} /\ key \in DOMAIN acc.records
               /\ \A j \in DOMAIN FunctionsIn(i) :
                    n > FnLine(j) => FunctionsIn(i)[j] \in DOMAIN acc.records[key].calls
               /\ n > DaLine(i) => <<One>> \in DOMAIN acc.records[key].lines
  BY <1>1 DEF Abreast
<1>6. key \in DOMAIN acc.records => RecordOf(acc.records[key], i) /\ Plain(acc.records[key])
  BY <1>2 DEF Records, RecordOf
<1>7. n < EndLine(i) => d.file = i /\ d.line = n + 1
  BY <1>1 DEF Moved
<1>8. n < EndLine(i) => (d.file # 0 /\ d.file = i /\ d.line = n + 1 /\ (d.line > 2 <=> n > 1))
  BY <1>1, <1>7
<1>9. /\ n = 1 => line = Line("TN", <<>>)
      /\ n = 2 => line = Line("SF", SourceFiles[i])
      /\ \A j \in DOMAIN FunctionsIn(i) :
           /\ n = FnLine(j) => line = FnOf(i, j, c.dialect)
           /\ n = FndaLine(i, j) => line = FndaOf(i, j, c.counts)
      /\ n = DaLine(i) => line = DaOf(i, c.counts)
      /\ n = EndLine(i) => line = End
  <2>1. BlockReads(i, c.counts, c.dialect, n, line)
    BY BlockRead
  <2> HIDE DEF line, n
  <2> QED
    BY <2>1 DEF BlockReads
<1>10. then = parse_line(acc, line)
  OBVIOUS
<1> HIDE DEF line, key, n
<1>11. CASE n = 1
  <2>1. then = acc
    BY <1>9, <1>10, <1>11, HearTn
  <2>2. SoFar(d) = SoFar(c)
    <3>1. \A j \in DOMAIN FunctionsIn(i) : n # FndaLine(i, j)
      BY <1>11, Positions
    <3> QED
      BY <3>1, SoFarStays DEF n
  <2>3. d.file = i /\ d.line = 2 /\ ~ (d.line > 2)
    BY <1>1, <1>7, <1>11
  <2>4. Abreast(d, then)
    BY <1>3, <1>4, <1>11, <2>1, <2>2, <2>3 DEF Abreast
  <2> QED
    BY <1>4, <1>11, <2>1, <2>4
<1>12. CASE n = 2
  <2> DEFINE more == [k \in DOMAIN acc.records \cup {key} |->
                        IF k \in DOMAIN acc.records THEN acc.records[k]
                        ELSE [source |-> SourceFiles[i], calls |-> <<>>, lines |-> <<>>]]
  <2>1. then = [acc EXCEPT !.open = {key}, !.records = more]
    <3>1. parse_line(acc, Line("SF", SourceFiles[i])) = [acc EXCEPT !.open = {key}, !.records = more]
      BY <1>2, HearSf DEF key
    <3> QED
      BY <1>9, <1>10, <1>12, <3>1
  <2>2. /\ DOMAIN more = DOMAIN acc.records \cup {key}
        /\ \A k \in DOMAIN acc.records : more[k] = acc.records[k]
        /\ key \notin DOMAIN acc.records =>
             more[key] = [source |-> SourceFiles[i], calls |-> <<>>, lines |-> <<>>]
    OBVIOUS
  <2> HIDE DEF more
  <2>3. Knows(then, {key}, more) /\ then.records = more /\ then.open = {key}
    BY <1>2, <2>1 DEF Knows
  <2>4. Records(more) /\ Exact(more, SoFar(c))
    BY <1>2, <1>3, <2>2, FileHeard DEF key
  <2>5. SoFar(d) = SoFar(c)
    <3>1. \A j \in DOMAIN FunctionsIn(i) : n # FndaLine(i, j)
      BY <1>12, Positions
    <3> QED
      BY <3>1, SoFarStays DEF n
  <2>6. Sound(then, d.torn)
    <3>1. /\ acc.open \subseteq {key} \cup {normalize_source(f) : f \in c.cut}
          /\ Knows(then, {key}, then.records) /\ Records(then.records)
      BY <1>4, <1>12, <2>3, <2>4
    <3>2. OnlyAbout(key, acc.records, then.records)
      BY <2>2, <2>3 DEF OnlyAbout
    <3>3. Sound(then, c.torn \cup c.cut)
      BY <1>4, <3>1, <3>2, OthersStayFull DEF key
    <3> QED
      BY <1>4, <1>12, <3>3
  <2>7. d.file = i /\ d.line = 3 /\ d.file # 0 /\ d.line > 2
    BY <1>1, <1>7, <1>12
  <2>8. ~ (d.line > DaLine(i)) /\ \A j \in DOMAIN FunctionsIn(i) : ~ (d.line > FnLine(j))
    BY <1>1, <2>7, Positions
  <2>9. Abreast(d, then)
    BY <2>2, <2>3, <2>4, <2>5, <2>7, <2>8 DEF Abreast, key
  <2> QED
    BY <2>6, <2>9
<1>13. ASSUME NEW j \in DOMAIN FunctionsIn(i), n = FnLine(j) \/ n = FndaLine(i, j)
       PROVE  Sound(then, d.torn) /\ Abreast(d, then)
  <2> DEFINE name == FunctionsIn(i)[j]
             times == IF n = FnLine(j) THEN 0 ELSE c.counts[Fn(i, j)]
  <2>1. /\ n > 2 /\ n < DaLine(i) /\ n < EndLine(i) /\ n + 1 > 2 /\ ~ (n + 1 > DaLine(i))
        /\ n = FndaLine(i, j) => n # FnLine(j)
        /\ \A m \in DOMAIN FunctionsIn(i) : n = FnLine(j) => n # FndaLine(i, m)
        /\ \A m \in DOMAIN FunctionsIn(i) : n + 1 > FnLine(m) => n > FnLine(m) \/ m = j
    BY <1>1, <1>13, Positions
  <2>2. acc.open = {key} /\ key \in DOMAIN acc.records /\ Plain(acc.records[key])
    BY <1>5, <1>6, <2>1
  <2>3. c.counts[Fn(i, j)] \in 0 .. 7
    BY Named DEF WriterShape
  <2>4. times \in Nat
    BY <2>3
  <2>5. Said(line) = {Entry(name, times)} /\ IsCall(line)
    <3>1. CASE n = FnLine(j)
      BY <1>9, <3>1, SaidOfFn DEF FnOf, Line, IsCall
    <3>2. CASE n = FndaLine(i, j)
      <4>1. Said(FndaOf(i, j, c.counts)) = {Entry(name, c.counts[Fn(i, j)])}
        BY <2>3, SaidOfFnda
      <4>2. IsCall(FndaOf(i, j, c.counts))
        BY DEF FndaOf, Line, IsCall
      <4>3. line = FndaOf(i, j, c.counts) /\ times = c.counts[Fn(i, j)]
        BY <1>9, <2>1, <3>2
      <4> QED
        BY <4>1, <4>2, <4>3
    <3> QED
      BY <1>13, <3>1, <3>2
  <2>6. Grown(SoFar(c), i, j, times, SoFar(d)) /\ Numbers(SoFar(d))
    <3>1. ASSUME NEW k \in Files, NEW m \in DOMAIN FunctionsIn(k)
          PROVE  SoFar(d)[k][m] = SoFar(c)[k][m] + IF k = i /\ m = j THEN times ELSE 0
      <4>1. SoFar(d)[k][m] =
              SoFar(c)[k][m] + IF k = i /\ n = FndaLine(k, m) THEN c.counts[Fn(k, m)] ELSE 0
        BY SoFarMoved DEF n
      <4>2. SoFar(c)[k][m] \in Nat
        BY <1>3 DEF Numbers
      <4>3. CASE n = FnLine(j)
        <5>1. k = i => n # FndaLine(k, m)
          BY <2>1, <4>3
        <5> QED
          BY <4>1, <4>2, <4>3, <5>1
      <4>4. CASE n = FndaLine(i, j)
        <5>1. k = i => (n = FndaLine(k, m) <=> m = j)
          BY <4>4, Positions
        <5> QED
          BY <2>1, <4>1, <4>2, <4>4, <5>1
      <4> QED
        BY <1>13, <4>3, <4>4
    <3>2. ASSUME NEW k \in Files, NEW m \in DOMAIN FunctionsIn(k)
          PROVE  SoFar(d)[k][m] \in Nat
      <4>1. SoFar(c)[k][m] \in Nat
        BY <1>3 DEF Numbers
      <4> QED
        BY <2>4, <3>1, <4>1
    <3> QED
      BY <3>1, <3>2 DEF Grown, Numbers
  <2> HIDE DEF name, times
  <2>7. Knows(then, {key}, then.records) /\ CallAdded(acc.records, key, name, times, then.records)
    <3>1. Knows(acc, {key}, acc.records)
      BY <1>2, <2>2
    <3>2. key \in DOMAIN acc.records /\ Plain(acc.records[key])
      BY <2>2
    <3> QED
      BY <1>10, <2>5, <3>1, <3>2, HearCall
  <2>8. /\ Records(then.records) /\ Exact(then.records, SoFar(d))
        /\ DOMAIN then.records = DOMAIN acc.records
        /\ DOMAIN then.records[key].calls = DOMAIN acc.records[key].calls \cup {name}
        /\ then.records[key].lines = acc.records[key].lines
        /\ \A k \in DOMAIN acc.records \ {key} : then.records[k] = acc.records[k]
    <3>1. Records(acc.records) /\ Exact(acc.records, SoFar(c)) /\ Numbers(SoFar(c))
      BY <1>2, <1>3
    <3>2. Key(i) \in DOMAIN acc.records /\ CallAdded(acc.records, Key(i), name, times, then.records)
      BY <2>2, <2>7 DEF key
    <3>3. Records(then.records) /\ Exact(then.records, SoFar(d))
      BY <2>4, <2>6, <3>1, <3>2, CallHeard DEF name
    <3> QED
      BY <2>7, <3>3 DEF CallAdded
  <2>9. then.open = {key}
    BY <2>7 DEF Knows
  <2>10. Sound(then, d.torn)
    <3>1. OnlyAbout(key, acc.records, then.records)
      BY <2>8 DEF OnlyAbout
    <3>2. c.cut = {} /\ c.torn \cup c.cut = d.torn
      BY <1>4, <2>1
    <3>3. acc.open \subseteq {Key(i)} \cup {normalize_source(f) : f \in c.cut}
      BY <2>2 DEF key
    <3>4. Sound(then, c.torn \cup c.cut)
      BY <1>4, <2>7, <2>8, <3>1, <3>3, OthersStayFull DEF key
    <3> QED
      BY <3>2, <3>4
  <2>11. d.file = i /\ d.line = n + 1 /\ d.file # 0 /\ d.line > 2
    BY <1>1, <1>7, <2>1
  <2>12. \A m \in DOMAIN FunctionsIn(i) :
           d.line > FnLine(m) => FunctionsIn(i)[m] \in DOMAIN then.records[key].calls
    BY <1>5, <2>1, <2>8, <2>11 DEF name
  <2>13. Abreast(d, then)
    BY <2>1, <2>2, <2>8, <2>9, <2>11, <2>12 DEF Abreast, key
  <2> QED
    BY <2>10, <2>13
<1>14. CASE n = DaLine(i)
  <2> DEFINE times == IF Entered(i, c.counts) THEN 1 ELSE 0
  <2>1. n > 2 /\ n < EndLine(i) /\ n + 1 > 2 /\ \A m \in DOMAIN FunctionsIn(i) : n > FnLine(m) /\ n > FndaLine(i, m)
    BY <1>1, <1>14, Positions
  <2>2. acc.open = {key} /\ key \in DOMAIN acc.records /\ Plain(acc.records[key])
    BY <1>5, <1>6, <2>1
  <2>3. times \in Nat
    OBVIOUS
  <2>4. Said(line) = {Entry(<<One>>, times)} /\ line.key = "DA"
    <3>1. Said(DaOf(i, c.counts)) = {Entry(<<One>>, times)}
      BY SaidOfDa
    <3>2. DaOf(i, c.counts).key = "DA"
      BY DEF DaOf, Line
    <3> QED
      BY <1>9, <1>14, <3>1, <3>2
  <2>5. times > 0 => \E j \in DOMAIN FunctionsIn(i) : SoFar(c)[i][j] > 0
    <3> SUFFICES ASSUME Entered(i, c.counts)
                 PROVE  \E j \in DOMAIN FunctionsIn(i) : SoFar(c)[i][j] > 0
      OBVIOUS
    <3>1. PICK f \in Range(FunctionsIn(i)) : c.counts[<<SourceFiles[i], f>>] > 0
      BY DEF Entered
    <3>2. PICK j \in DOMAIN FunctionsIn(i) : f = FunctionsIn(i)[j]
      BY DEF Range
    <3>3. c.counts[Fn(i, j)] > 0
      BY <3>1, <3>2 DEF Fn
    <3>4. Told(c, i, j)
      BY <2>1 DEF Told, n
    <3>5. c.counts[Fn(i, j)] \in Nat /\ c.seen[Fn(i, j)] \in Nat
      <4>1. Fn(i, j) \in Functions0
        BY Named
      <4>2. c.counts \in [Functions0 -> 0 .. 7] /\ c.seen \in [Functions0 -> Nat]
        BY DEF WriterShape
      <4>3. 0 .. 7 \subseteq Nat
        OBVIOUS
      <4> HIDE DEF times
      <4> QED
        BY <4>1, <4>2, <4>3
    <3>6. SoFar(c)[i][j] = c.seen[Fn(i, j)] + c.counts[Fn(i, j)]
      BY <3>4 DEF SoFar
    <3> QED
      BY <3>3, <3>5, <3>6
  <2>6. SoFar(d) = SoFar(c)
    <3>1. \A j \in DOMAIN FunctionsIn(i) : n # FndaLine(i, j)
      BY <1>1, <1>14, Positions
    <3> QED
      BY <3>1, SoFarStays DEF n
  <2> HIDE DEF times
  <2>7. Knows(then, {key}, then.records) /\ LineAdded(acc.records, key, <<One>>, times, then.records)
    <3>1. Knows(acc, {key}, acc.records)
      BY <1>2, <2>2
    <3> QED
      BY <1>10, <2>2, <2>4, <3>1, HearDa
  <2>8. /\ Records(then.records) /\ Exact(then.records, SoFar(c))
        /\ DOMAIN then.records = DOMAIN acc.records
        /\ DOMAIN then.records[key].lines = {<<One>>}
        /\ then.records[key].calls = acc.records[key].calls
        /\ \A k \in DOMAIN acc.records \ {key} : then.records[k] = acc.records[k]
    <3>1. Records(acc.records) /\ Exact(acc.records, SoFar(c)) /\ Numbers(SoFar(c))
      BY <1>2, <1>3
    <3>2. Key(i) \in DOMAIN acc.records /\ LineAdded(acc.records, Key(i), <<One>>, times, then.records)
      BY <2>2, <2>7 DEF key
    <3>3. /\ Records(then.records) /\ Exact(then.records, SoFar(c))
          /\ DOMAIN then.records[Key(i)].lines = {<<One>>}
      BY <2>3, <2>5, <3>1, <3>2, LineHeard
    <3> QED
      BY <2>7, <3>3 DEF LineAdded, key
  <2>9. then.open = {key}
    BY <2>7 DEF Knows
  <2>10. Sound(then, d.torn)
    <3>1. OnlyAbout(key, acc.records, then.records)
      BY <2>8 DEF OnlyAbout
    <3>2. c.cut = {} /\ c.torn \cup c.cut = d.torn
      BY <1>4, <2>1
    <3>3. acc.open \subseteq {Key(i)} \cup {normalize_source(f) : f \in c.cut}
      BY <2>2 DEF key
    <3>4. Sound(then, c.torn \cup c.cut)
      BY <1>4, <2>7, <2>8, <3>1, <3>3, OthersStayFull DEF key
    <3> QED
      BY <3>2, <3>4
  <2>11. d.file = i /\ d.line = n + 1 /\ d.file # 0 /\ d.line > 2
    BY <1>1, <1>7, <2>1
  <2>12. \A m \in DOMAIN FunctionsIn(i) : FunctionsIn(i)[m] \in DOMAIN then.records[key].calls
    BY <1>5, <2>1, <2>8
  <2>13. Abreast(d, then)
    BY <2>2, <2>6, <2>8, <2>9, <2>11, <2>12 DEF Abreast, key
  <2> QED
    BY <2>10, <2>13
<1>15. CASE n = EndLine(i)
  <2>1. n > 2 /\ n > DaLine(i) /\ \A m \in DOMAIN FunctionsIn(i) : n > FnLine(m)
    BY <1>1, <1>15, Positions
  <2>2. acc.open = {key} /\ key \in DOMAIN acc.records
    BY <1>5, <2>1
  <2>3. then = [acc EXCEPT !.open = {}]
    BY <1>2, <1>9, <1>10, <1>15, <2>2, HearEnd
  <2>4. Knows(then, {}, acc.records) /\ then.open = {} /\ then.records = acc.records
    BY <1>2, <2>3 DEF Knows
  <2>5. Full(acc.records[key], i)
    <3>1. DOMAIN acc.records[key].calls \subseteq Range(FunctionsIn(i)) /\ DOMAIN acc.records[key].lines \subseteq {<<One>>}
      BY <1>6, <2>2 DEF RecordOf
    <3>2. \A m \in DOMAIN FunctionsIn(i) : FunctionsIn(i)[m] \in DOMAIN acc.records[key].calls
      BY <1>5, <2>1
    <3>3. Range(FunctionsIn(i)) \subseteq DOMAIN acc.records[key].calls
      BY <3>2 DEF Range
    <3>4. <<One>> \in DOMAIN acc.records[key].lines
      BY <1>5, <2>1
    <3> QED
      BY <3>1, <3>3, <3>4 DEF Full
  <2>6. ASSUME NEW k \in Files, Key(k) \in DOMAIN acc.records, SourceFiles[k] \notin d.torn
        PROVE  Full(acc.records[Key(k)], k)
    <3>1. CASE k = i
      BY <2>5, <3>1 DEF key
    <3>2. CASE k # i
      <4>1. Key(k) # key
        BY <3>2, Named DEF key
      <4>2. SourceFiles[k] \notin c.torn
        BY <1>4, <2>1, <2>6
      <4> QED
        BY <2>2, <2>6, <4>1, <4>2 DEF Sound
    <3> QED
      BY <3>1, <3>2
  <2>7. Sound(then, d.torn)
    BY <1>2, <2>4, <2>6 DEF Sound, Knows
  <2>8. SoFar(d) = SoFar(c)
    <3>1. \A j \in DOMAIN FunctionsIn(i) : n # FndaLine(i, j)
      BY <1>1, <1>15, Positions
    <3> QED
      BY <3>1, SoFarStays DEF n
  <2>9. d.line \in {0, 1}
    BY <1>1, <1>15 DEF Moved, n
  <2>10. Abreast(d, then)
    BY <1>3, <1>4, <2>1, <2>4, <2>8, <2>9 DEF Abreast
  <2> QED
    BY <2>7, <2>10
<1> QED
  BY <1>1, <1>11, <1>12, <1>13, <1>14, <1>15, LineNumbers

-----------------------------------------------------------------------------
(* CI, step by step.                                                       *)
LEMMA Silent ==
  ASSUME NEW c, c.file = 0, NEW i \in Files, NEW j \in DOMAIN FunctionsIn(i)
  PROVE  ~ Told(c, i, j)
BY Positions DEF Told

LEMMA NothingKnown ==
  ASSUME NEW c, c.file = 0 \/ (c.file = 1 /\ c.line = 1), \A fn \in Functions0 : c.seen[fn] = 0, c.cut = {},
         NEW torn
  PROVE  Sound(NoRecords, torn) /\ Abreast(c, NoRecords)
<1>1. NoRecords.bad = FALSE /\ NoRecords.open = {} /\ DOMAIN NoRecords.records = {}
      /\ NoRecords = [bad |-> NoRecords.bad, open |-> NoRecords.open, records |-> NoRecords.records]
  BY DEF NoRecords
<1>2. Sound(NoRecords, torn)
  BY <1>1 DEF Sound, Records
<1>3. ASSUME NEW i \in Files, NEW j \in DOMAIN FunctionsIn(i)
      PROVE  SoFar(c)[i][j] = 0 /\ CallsIn(NoRecords.records, Key(i), FunctionsIn(i)[j]) = 0
  <2>1. ~ Told(c, i, j)
    <3>1. i \in Nat /\ i > 0 /\ FndaLine(i, j) \in Nat /\ FndaLine(i, j) > 2
      BY Positions
    <3> QED
      BY <3>1 DEF Told
  <2>2. c.seen[Fn(i, j)] = 0
    BY Named
  <2>3. SoFar(c)[i][j] = 0
    BY <2>1, <2>2 DEF SoFar
  <2>4. CallsIn(NoRecords.records, Key(i), FunctionsIn(i)[j]) = 0
    BY <1>1 DEF CallsIn
  <2> QED
    BY <2>3, <2>4
<1>4. Exact(NoRecords.records, SoFar(c))
  BY <1>1, <1>3 DEF Exact
<1>5. ~ (c.file # 0 /\ c.line > 2)
  OBVIOUS
<1>6. {normalize_source(f) : f \in c.cut} = {}
  OBVIOUS
<1> QED
  BY <1>1, <1>2, <1>4, <1>5, <1>6 DEF Abreast

(* What CI's own record says, and what it says with another base.          *)
LEMMA SinceIs ==
  ASSUME NEW c, WriterShape(c), NEW base
  PROVE  /\ Since(c, base).file = c.file /\ Since(c, base).line = c.line
         /\ Since(c, base).counts = c.counts /\ Since(c, base).dialect = c.dialect
         /\ Since(c, base).cut = c.cut /\ Since(c, base).torn = c.torn
         /\ Since(c, base).seen = base
         /\ base \in [Functions0 -> Nat] => WriterShape(Since(c, base))
<1>1. PICK d : d = Since(c, base)
  OBVIOUS
<1>2. d = [c EXCEPT !.seen = base] /\ CiRecord(c)
  BY <1>1 DEF Since, WriterShape
<1>3. /\ d.file = c.file /\ d.line = c.line /\ d.counts = c.counts /\ d.dialect = c.dialect
      /\ d.cut = c.cut /\ d.torn = c.torn /\ d.seen = base /\ d.entered = c.entered /\ CiRecord(d)
  BY <1>2 DEF CiRecord
<1>4. base \in [Functions0 -> Nat] => WriterShape(d)
  BY <1>3 DEF WriterShape
<1> QED
  BY <1>1, <1>3, <1>4

Begun(c, anew, counts, dialect) ==
  [IF anew THEN NewCi ELSE c EXCEPT
     !.runs = c.runs + 1, !.file = 1, !.line = 1, !.counts = counts,
     !.dialect = dialect, !.entered = Plus(@, counts)]

LEMMA Tested ==
  ASSUME NEW c, NEW art, WriterGood(c, art), c.file = 0,
         NEW anew, anew \in BOOLEAN, anew \/ art # {},
         NEW counts \in [Functions0 -> Counts], NEW dialect \in Dialects,
         NEW d, d = Begun(c, anew, counts, dialect),
         NEW more, more = IF anew \/ art = {} THEN {<<>>} ELSE art
  PROVE  WriterGood(d, more)
<1>1. WriterShape(c)
  BY DEF WriterGood
<1>2. PICK from : from = IF anew THEN NewCi ELSE c
  OBVIOUS
<1>3. /\ CiRecord(from) /\ from.cut \in SUBSET Range(SourceFiles)
      /\ from.entered \in [Functions0 -> Nat] /\ from.seen \in [Functions0 -> Nat]
      /\ anew => from.cut = {} /\ from.seen = Never /\ from.entered = Never
  <2>1. CASE anew
    <3>1. from = NewCi /\ Never \in [Functions0 -> Nat]
      BY <1>2, <2>1 DEF Never
    <3> QED
      BY <3>1 DEF NewCi, CiRecord
  <2>2. CASE ~ anew
    BY <1>1, <1>2, <2>2 DEF WriterShape
  <2> QED
    BY <2>1, <2>2
<1>4. d = [from EXCEPT !.runs = c.runs + 1, !.file = 1, !.line = 1, !.counts = counts,
                       !.dialect = dialect, !.entered = Plus(from.entered, counts)]
  BY <1>2, <1>3 DEF Begun, CiRecord
<1>5. /\ d.file = 1 /\ d.line = 1 /\ d.counts = counts /\ d.dialect = dialect
      /\ d.entered = Plus(from.entered, counts) /\ d.seen = from.seen
      /\ d.cut = from.cut /\ d.torn = from.torn /\ CiRecord(d)
  BY <1>3, <1>4 DEF CiRecord
<1>6. counts \in [Functions0 -> 0 .. 7] /\ \A fn \in Functions0 : counts[fn] \in Nat
  <2>1. counts \in [Functions0 -> 0 .. 7]
    BY CoverageAssumption
  <2>2. 0 .. 7 \subseteq Nat
    OBVIOUS
  <2> QED
    BY <2>1, <2>2
<1>7. /\ Plus(from.entered, counts) \in [Functions0 -> Nat]
      /\ \A fn \in Functions0 : d.entered[fn] = from.entered[fn] + counts[fn] /\ from.entered[fn] \in Nat
  <2>1. \A fn \in Functions0 : from.entered[fn] \in Nat
    BY <1>3
  <2> QED
    BY <1>5, <1>6, <2>1 DEF Plus
<1>8. WriterShape(d)
  <2>1. 1 \in Files /\ 1 \in 0 .. Len(SourceFiles)
    BY Named
  <2>2. 1 \in 1 .. EndLine(1)
    BY <2>1, Positions
  <2> QED
    BY <1>3, <1>5, <1>6, <1>7, <2>1, <2>2 DEF WriterShape
<1>9. CASE anew
  <2>1. more = {<<>>} /\ Never \in [Functions0 -> Nat] /\ \A fn \in Functions0 : Never[fn] = 0
    BY <1>9 DEF Never
  <2>2. Between(d, Never)
    BY <1>3, <1>5, <1>6, <1>7, <1>9, <2>1 DEF Between
  <2>3. PICK s : s = Since(d, Never)
    OBVIOUS
  <2>4. s.file = 1 /\ s.line = 1 /\ s.cut = {} /\ s.seen = Never
    <3>1. s.file = d.file /\ s.line = d.line /\ s.cut = d.cut /\ s.seen = Never
      BY <1>8, <2>3, SinceIs
    <3> QED
      BY <1>3, <1>5, <1>9, <3>1
  <2>5. Sound(NoRecords, d.torn) /\ Abreast(s, NoRecords)
    BY <2>1, <2>4, NothingKnown
  <2>6. <<>> \in Seq(Range(<<>>)) /\ parsed(<<>>) = NoRecords
    BY ParsedNothing
  <2>7. Agrees(d, Never, more)
    BY <2>1, <2>2, <2>3, <2>5, <2>6 DEF Agrees
  <2> QED
    BY <1>8, <2>1, <2>6, <2>7 DEF WriterGood
<1>10. CASE ~ anew
  <2>1. more = art /\ from = c
    BY <1>2, <1>10
  <2>2. PICK base : Agrees(c, base, art)
    BY DEF WriterGood
  <2>3. base \in [Functions0 -> Nat] /\ \A fn \in Functions0 :
          c.seen[fn] <= base[fn] /\ base[fn] + 0 <= c.entered[fn] /\ base[fn] \in Nat
    BY <2>2 DEF Agrees, Between
  <2>4. Between(d, base)
    <3> SUFFICES ASSUME NEW fn \in Functions0
                 PROVE  d.seen[fn] <= base[fn] /\ base[fn] + (IF d.file # 0 THEN d.counts[fn] ELSE 0) <= d.entered[fn]
      BY <2>3 DEF Between
    <3>1. /\ base[fn] \in Nat /\ base[fn] + 0 <= c.entered[fn] /\ c.seen[fn] <= base[fn]
          /\ counts[fn] \in Nat /\ c.entered[fn] \in Nat /\ d.entered[fn] = c.entered[fn] + counts[fn]
      BY <1>6, <1>7, <2>1, <2>3
    <3>2. base[fn] + counts[fn] <= d.entered[fn]
      BY <3>1
    <3>3. d.file # 0 /\ d.counts[fn] = counts[fn] /\ d.seen[fn] = c.seen[fn]
      BY <1>5, <2>1
    <3> QED
      BY <3>1, <3>2, <3>3
  <2>5. PICK s, t : s = Since(c, base) /\ t = Since(d, base)
    OBVIOUS
  <2>6. /\ s.file = 0 /\ s.cut = c.cut /\ s.seen = base
        /\ t.file = 1 /\ t.line = 1 /\ t.cut = c.cut /\ t.seen = base
    BY <1>1, <1>5, <1>8, <2>1, <2>5, SinceIs
  <2>7. SoFar(t) = SoFar(s)
    <3>1. ASSUME NEW i \in Files, NEW j \in DOMAIN FunctionsIn(i)
          PROVE  ~ Told(s, i, j) /\ ~ Told(t, i, j)
      <4>1. i \in Nat /\ i > 0 /\ FndaLine(i, j) \in Nat /\ FndaLine(i, j) > 2
        BY Positions
      <4> QED
        BY <2>6, <4>1 DEF Told
    <3> QED
      BY <2>6, <3>1 DEF SoFar
  <2>8. ASSUME NEW lines \in art
        PROVE  Sound(parsed(lines), d.torn) /\ Abreast(t, parsed(lines))
    <3>1. Sound(parsed(lines), d.torn) /\ Abreast(s, parsed(lines))
      BY <1>5, <2>1, <2>2, <2>5 DEF Agrees
    <3>2. ~ (s.file # 0 /\ s.line > 2) /\ ~ (t.file # 0 /\ t.line > 2)
      BY <2>6
    <3>3. Abreast(t, parsed(lines))
      BY <2>6, <2>7, <3>1, <3>2 DEF Abreast
    <3> QED
      BY <3>1, <3>3
  <2>9. Agrees(d, base, more)
    BY <2>1, <2>4, <2>5, <2>8 DEF Agrees
  <2>10. \A lines \in more : lines \in Seq(Range(lines))
    BY <2>1 DEF WriterGood
  <2> QED
    BY <1>8, <2>9, <2>10 DEF WriterGood
<1> QED
  BY <1>9, <1>10

LEMMA LineGood ==
  ASSUME NEW c, NEW art, WriterGood(c, art), NEW base, Agrees(c, base, art), c.file # 0,
         NEW line, line = Block(SourceFiles[c.file], c.counts, c.dialect)[c.line],
         NEW d, WriterShape(d), NEW then, Between(d, then), Moved(Since(c, base), Since(d, then)),
         NEW more, more = {Append(lines, line) : lines \in art}
  PROVE  WriterGood(d, more)
<1>1. c.file \in Files /\ WriterShape(c)
  BY Named DEF WriterGood, WriterShape
<1>2. PICK s, t : s = Since(c, base) /\ t = Since(d, then)
  OBVIOUS
<1>3. /\ WriterShape(s) /\ s.file = c.file /\ s.line = c.line /\ s.counts = c.counts
      /\ s.dialect = c.dialect /\ s.torn = c.torn /\ t.torn = d.torn
  BY <1>1, <1>2, SinceIs DEF Agrees, Between
<1>4. ASSUME NEW lines \in art, NEW longer, longer = Append(lines, line)
      PROVE  longer \in Seq(Range(longer)) /\ Sound(parsed(longer), d.torn) /\ Abreast(t, parsed(longer))
  <2>1. lines \in Seq(Range(lines)) /\ Sound(parsed(lines), s.torn) /\ Abreast(s, parsed(lines))
    BY <1>2, <1>3 DEF WriterGood, Agrees
  <2> DEFINE S == Range(lines) \cup {line}
  <2>2. line \in S /\ lines \in Seq(S)
    BY <2>1, Wider
  <2> HIDE DEF S
  <2>3. longer \in Seq(S)
    BY <1>4, <2>2
  <2>4. longer \in Seq(Range(longer))
    BY <2>3, OfItsRange
  <2>5. parsed(longer) = parse_line(parsed(lines), line)
    BY <1>4, <2>2, ParsedOneMore
  <2>6. line = Block(SourceFiles[s.file], s.counts, s.dialect)[s.line] /\ s.file \in Files /\ Moved(s, t)
    BY <1>1, <1>2, <1>3
  <2>7. Sound(parse_line(parsed(lines), line), t.torn) /\ Abreast(t, parse_line(parsed(lines), line))
    BY <1>3, <2>1, <2>6, Written
  <2> QED
    BY <1>3, <2>4, <2>5, <2>7
<1>5. Agrees(d, then, more)
  BY <1>2, <1>4 DEF Agrees
<1> QED
  BY <1>4, <1>5 DEF WriterGood

LEMMA WriteKeeps == WriterInv /\ write => WriterInv'
<1> SUFFICES ASSUME WriterInv, write PROVE WriterInv'
  OBVIOUS
<1>1. PICK c, d, art, more : c = ci /\ d = ci' /\ art = artifact /\ more = artifact'
  OBVIOUS
<1>2. WriterGood(c, art) /\ WriterShape(c) /\ c.file # 0 /\ c.file \in Files
  BY <1>1, Named DEF WriterInv, WriterGood, WriterShape, write
<1>3. PICK base : Agrees(c, base, art)
  BY <1>2 DEF WriterGood
<1>4. /\ base \in [Functions0 -> Nat]
      /\ \A fn \in Functions0 : c.seen[fn] <= base[fn] /\ base[fn] + c.counts[fn] <= c.entered[fn]
  BY <1>2, <1>3 DEF Agrees, Between
<1> DEFINE block == Block(SourceFiles[c.file], c.counts, c.dialect)
<1>5. Len(block) = EndLine(c.file)
  BY <1>2, BlockLines
<1>6. more = {Append(lines, block[c.line]) : lines \in art}
  BY <1>1 DEF write
<1>7. \/ /\ c.line < EndLine(c.file)
         /\ d = [c EXCEPT !.line = @ + 1, !.cut = IF c.line = 2 THEN {} ELSE @,
                          !.torn = IF c.line = 2 THEN @ \cup c.cut ELSE @]
      \/ /\ c.line = EndLine(c.file) /\ c.file < Len(SourceFiles)
         /\ d = [c EXCEPT !.file = @ + 1, !.line = 1]
      \/ /\ c.line = EndLine(c.file) /\ c.file = Len(SourceFiles)
         /\ d = [c EXCEPT !.file = 0, !.line = 0, !.seen = Plus(@, c.counts)]
  BY <1>1, <1>5 DEF write
<1>8. /\ c.file \in Nat /\ c.line \in Nat /\ c.line > 0 /\ Len(SourceFiles) \in Nat
      /\ EndLine(c.file) \in Nat /\ EndLine(c.file) > 2
  <2>1. c.file \in Nat /\ EndLine(c.file) \in Nat /\ EndLine(c.file) > 2 /\ Len(SourceFiles) \in Nat
    BY <1>2, Positions, Named
  <2>2. c.line \in 1 .. EndLine(c.file)
    BY <1>2 DEF WriterShape
  <2> QED
    BY <2>1, <2>2
<1>9. \A fn \in Functions0 :
        c.seen[fn] \in Nat /\ c.counts[fn] \in Nat /\ base[fn] \in Nat /\ c.entered[fn] \in Nat
  <2>1. 0 .. 7 \subseteq Nat
    OBVIOUS
  <2> QED
    BY <1>2, <1>4, <2>1 DEF WriterShape
<1>10. CiRecord(c)
  BY <1>2 DEF WriterShape
<1> HIDE DEF block
<1>11. \E then : WriterShape(d) /\ Between(d, then) /\ Moved(Since(c, base), Since(d, then))
  <2>1. PICK s : s = Since(c, base)
    OBVIOUS
  <2>2. /\ s.file = c.file /\ s.line = c.line /\ s.counts = c.counts /\ s.cut = c.cut
        /\ s.torn = c.torn /\ s.seen = base
    BY <1>2, <2>1, SinceIs
  <2>3. CASE /\ c.line < EndLine(c.file)
             /\ d = [c EXCEPT !.line = @ + 1, !.cut = IF c.line = 2 THEN {} ELSE @,
                              !.torn = IF c.line = 2 THEN @ \cup c.cut ELSE @]
    <3>1. /\ d.file = c.file /\ d.line = c.line + 1 /\ d.counts = c.counts /\ d.seen = c.seen
          /\ d.dialect = c.dialect /\ d.entered = c.entered
          /\ d.cut = (IF c.line = 2 THEN {} ELSE c.cut)
          /\ d.torn = (IF c.line = 2 THEN c.torn \cup c.cut ELSE c.torn)
          /\ CiRecord(d)
      BY <1>10, <2>3 DEF CiRecord
    <3>2. d.line \in 1 .. EndLine(d.file)
      BY <1>8, <2>3, <3>1
    <3>3. d.line > 2 => d.cut = {}
      <4>1. d.line > 2 => c.line = 2 \/ c.line > 2
        BY <1>8, <3>1
      <4>2. c.line > 2 => c.cut = {}
        BY <1>2 DEF WriterShape
      <4> QED
        BY <3>1, <4>1, <4>2
    <3>4. d.cut \in SUBSET Range(SourceFiles)
      BY <1>2, <3>1 DEF WriterShape
    <3>5. WriterShape(d)
      BY <1>2, <3>1, <3>2, <3>3, <3>4 DEF WriterShape
    <3>6. Between(d, base)
      BY <1>3, <3>1 DEF Agrees, Between
    <3>7. PICK t : t = Since(d, base)
      OBVIOUS
    <3>8. /\ t.file = d.file /\ t.line = d.line /\ t.counts = d.counts /\ t.cut = d.cut
          /\ t.torn = d.torn /\ t.seen = base
      BY <3>5, <3>7, SinceIs
    <3>9. Moved(s, t)
      BY <2>2, <2>3, <3>1, <3>8 DEF Moved
    <3> QED
      BY <2>1, <3>5, <3>6, <3>7, <3>9
  <2>4. CASE /\ c.line = EndLine(c.file) /\ c.file < Len(SourceFiles)
             /\ d = [c EXCEPT !.file = @ + 1, !.line = 1]
    <3>1. /\ d.file = c.file + 1 /\ d.line = 1 /\ d.counts = c.counts /\ d.seen = c.seen
          /\ d.dialect = c.dialect /\ d.entered = c.entered /\ d.cut = c.cut /\ d.torn = c.torn
          /\ CiRecord(d)
      BY <1>10, <2>4 DEF CiRecord
    <3>2. d.file \in Files /\ d.file \in 0 .. Len(SourceFiles) /\ d.file # 0
      BY <1>8, <2>4, <3>1, Named
    <3>3. d.line \in 1 .. EndLine(d.file) /\ ~ (d.line > 2)
      BY <3>1, <3>2, Positions
    <3>4. c.dialect \in Dialects
      BY <1>2 DEF WriterShape
    <3>5. WriterShape(d)
      BY <1>2, <3>1, <3>2, <3>3, <3>4 DEF WriterShape
    <3>6. Between(d, base)
      BY <1>2, <1>3, <3>1, <3>2 DEF Agrees, Between
    <3>7. PICK t : t = Since(d, base)
      OBVIOUS
    <3>8. /\ t.file = d.file /\ t.line = d.line /\ t.counts = d.counts /\ t.cut = d.cut
          /\ t.torn = d.torn /\ t.seen = base
      BY <3>5, <3>7, SinceIs
    <3>9. c.line # 2
      BY <1>8, <2>4
    <3>10. Moved(s, t)
      BY <2>2, <2>4, <3>1, <3>8, <3>9 DEF Moved
    <3> QED
      BY <2>1, <3>5, <3>6, <3>7, <3>10
  <2>5. CASE /\ c.line = EndLine(c.file) /\ c.file = Len(SourceFiles)
             /\ d = [c EXCEPT !.file = 0, !.line = 0, !.seen = Plus(@, c.counts)]
    <3>1. /\ d.file = 0 /\ d.line = 0 /\ d.counts = c.counts /\ d.seen = Plus(c.seen, c.counts)
          /\ d.dialect = c.dialect /\ d.entered = c.entered /\ d.cut = c.cut /\ d.torn = c.torn
          /\ CiRecord(d)
      BY <1>10, <2>5 DEF CiRecord
    <3> DEFINE then == Plus(base, c.counts)
    <3>2. /\ Plus(c.seen, c.counts) \in [Functions0 -> Nat] /\ then \in [Functions0 -> Nat]
          /\ \A fn \in Functions0 : /\ Plus(c.seen, c.counts)[fn] = c.seen[fn] + c.counts[fn]
                                    /\ then[fn] = base[fn] + c.counts[fn]
      BY <1>9 DEF Plus
    <3>3. 0 \in 0 .. Len(SourceFiles)
      BY <1>8
    <3>4. WriterShape(d)
      BY <1>2, <3>1, <3>2, <3>3 DEF WriterShape
    <3>5. Between(d, then)
      <4> SUFFICES ASSUME NEW fn \in Functions0
                   PROVE  d.seen[fn] <= then[fn] /\ then[fn] + (IF d.file # 0 THEN d.counts[fn] ELSE 0) <= d.entered[fn]
        BY <3>2 DEF Between
      <4>1. /\ d.seen[fn] = c.seen[fn] + c.counts[fn] /\ then[fn] = base[fn] + c.counts[fn]
            /\ d.entered[fn] = c.entered[fn]
        BY <3>1, <3>2
      <4> HIDE DEF then
      <4>2. /\ c.seen[fn] \in Nat /\ c.counts[fn] \in Nat /\ base[fn] \in Nat /\ c.entered[fn] \in Nat
            /\ c.seen[fn] <= base[fn] /\ base[fn] + c.counts[fn] <= c.entered[fn]
        BY <1>4, <1>9
      <4>3. d.seen[fn] <= then[fn] /\ then[fn] + 0 <= d.entered[fn]
        BY <4>1, <4>2
      <4> QED
        BY <3>1, <4>3
    <3> HIDE DEF then
    <3>6. PICK t : t = Since(d, then)
      OBVIOUS
    <3>7. /\ t.file = d.file /\ t.line = d.line /\ t.counts = d.counts /\ t.cut = d.cut
          /\ t.torn = d.torn /\ t.seen = then
      BY <3>4, <3>6, SinceIs
    <3>8. c.line # 2
      BY <1>8, <2>5
    <3>9. t.seen = [fn \in Functions0 |-> s.seen[fn] + s.counts[fn]]
      BY <2>2, <3>7 DEF Plus, then
    <3>10. Moved(s, t)
      BY <2>2, <2>5, <3>1, <3>7, <3>8, <3>9 DEF Moved
    <3> QED
      BY <2>1, <3>4, <3>5, <3>6, <3>10
  <2> QED
    BY <1>7, <2>3, <2>4, <2>5
<1>12. WriterGood(d, more)
  BY <1>2, <1>3, <1>6, <1>11, LineGood DEF block
<1> QED
  BY <1>1, <1>12 DEF WriterInv

LEMMA TestKeeps ==
  ASSUME NEW anew, anew \in BOOLEAN, anew \/ artifact # {}, WriterInv, Test(anew)
  PROVE  WriterInv'
<1>1. PICK c, d, art, more : c = ci /\ d = ci' /\ art = artifact /\ more = artifact'
  OBVIOUS
<1>2. WriterGood(c, art) /\ c.file = 0
  BY <1>1 DEF WriterInv, Test
<1>3. PICK counts \in [Functions0 -> Counts], dialect \in Dialects : d = Begun(c, anew, counts, dialect)
  <2>1. \E counts \in [Functions0 -> Counts], dialect \in Dialects : ci' = Begun(ci, anew, counts, dialect)
    BY DEF Test, Begun
  <2> QED
    BY <1>1, <2>1
<1>4. more = IF anew \/ art = {} THEN {<<>>} ELSE art
  BY <1>1 DEF Test
<1>5. WriterGood(d, more)
  BY <1>1, <1>2, <1>3, <1>4, Tested
<1> QED
  BY <1>1, <1>5 DEF WriterInv

(* What a run that dies has said by then joins what the runs before it     *)
(* said.                                                                   *)
LEMMA DieKeeps == WriterInv /\ die => WriterInv'
<1> SUFFICES ASSUME WriterInv, die PROVE WriterInv'
  OBVIOUS
<1>1. PICK c, d, art : c = ci /\ d = ci' /\ art = artifact /\ art = artifact'
  BY DEF die
<1>2. /\ WriterGood(c, art) /\ WriterShape(c) /\ c.file # 0
      /\ d = [c EXCEPT !.file = 0, !.line = 0, !.cut = IF c.line > 2 THEN {SourceFiles[c.file]} ELSE @]
  BY <1>1 DEF WriterInv, WriterGood, die
<1>3. /\ d.file = 0 /\ d.counts = c.counts /\ d.seen = c.seen /\ d.entered = c.entered /\ d.torn = c.torn
      /\ d.cut = (IF c.line > 2 THEN {SourceFiles[c.file]} ELSE c.cut) /\ CiRecord(d)
  BY <1>2 DEF WriterShape, CiRecord
<1>4. c.file \in Files /\ 0 \in 0 .. Len(SourceFiles) /\ SourceFiles[c.file] \in Range(SourceFiles)
  BY <1>2, Named DEF WriterShape, Range, Files
<1>5. WriterShape(d)
  BY <1>2, <1>3, <1>4 DEF WriterShape
<1>6. PICK base : Agrees(c, base, art)
  BY <1>2 DEF WriterGood
<1> DEFINE said(fn) == \E i \in Files : \E j \in DOMAIN FunctionsIn(i) : fn = Fn(i, j) /\ Told(c, i, j)
           then == [fn \in Functions0 |-> base[fn] + IF said(fn) THEN c.counts[fn] ELSE 0]
<1>7. ASSUME NEW fn \in Functions0
      PROVE  /\ c.seen[fn] \in Nat /\ c.counts[fn] \in Nat /\ base[fn] \in Nat /\ c.entered[fn] \in Nat
             /\ c.seen[fn] <= base[fn] /\ base[fn] + c.counts[fn] <= c.entered[fn]
  <2>1. 0 .. 7 \subseteq Nat
    OBVIOUS
  <2>2. c.seen[fn] \in Nat /\ c.counts[fn] \in Nat /\ c.entered[fn] \in Nat
    BY <1>2, <2>1 DEF WriterShape
  <2>3. base[fn] \in Nat /\ c.seen[fn] <= base[fn] /\ base[fn] + c.counts[fn] <= c.entered[fn]
    BY <1>2, <1>6 DEF Agrees, Between
  <2> QED
    BY <2>2, <2>3
<1>8. Between(d, then)
  <2>1. ASSUME NEW fn \in Functions0
        PROVE  /\ then[fn] \in Nat
               /\ d.seen[fn] <= then[fn] /\ then[fn] + (IF d.file # 0 THEN d.counts[fn] ELSE 0) <= d.entered[fn]
    <3>1. PICK more : more = (IF said(fn) THEN c.counts[fn] ELSE 0) /\ then[fn] = base[fn] + more
      OBVIOUS
    <3>2. more \in Nat /\ more <= c.counts[fn]
      BY <1>7, <3>1
    <3> HIDE DEF then, said
    <3>3. then[fn] \in Nat /\ c.seen[fn] <= then[fn] /\ then[fn] + 0 <= c.entered[fn]
      BY <1>7, <3>1, <3>2
    <3> QED
      BY <1>3, <3>3
  <2>2. then = [fn \in Functions0 |-> then[fn]]
    OBVIOUS
  <2>3. then \in [Functions0 -> Nat]
    BY <2>1, <2>2
  <2> HIDE DEF then
  <2> QED
    BY <2>1, <2>3 DEF Between
<1>9. ASSUME NEW i \in Files, NEW j \in DOMAIN FunctionsIn(i)
      PROVE  said(Fn(i, j)) <=> Told(c, i, j)
  <2>1. ASSUME NEW k \in Files, NEW m \in DOMAIN FunctionsIn(k), Fn(i, j) = Fn(k, m)
        PROVE  k = i /\ m = j
    <3>1. SourceFiles[i] = SourceFiles[k] /\ FunctionsIn(i)[j] = FunctionsIn(k)[m]
      BY <2>1 DEF Fn
    <3>2. k = i
      BY <3>1, Named DEF Key
    <3> QED
      BY <3>1, <3>2, Named
  <2> QED
    BY <2>1
<1>10. PICK s, t : s = Since(c, base) /\ t = Since(d, then)
  OBVIOUS
<1>11. /\ s.file = c.file /\ s.line = c.line /\ s.counts = c.counts /\ s.cut = c.cut /\ s.seen = base
       /\ t.file = 0 /\ t.cut = d.cut /\ t.seen = then
  <2> HIDE DEF then, said
  <2>1. s.file = c.file /\ s.line = c.line /\ s.counts = c.counts /\ s.cut = c.cut /\ s.seen = base
    BY <1>2, <1>10, SinceIs
  <2>2. t.file = d.file /\ t.cut = d.cut /\ t.seen = then
    BY <1>5, <1>10, SinceIs
  <2> QED
    BY <1>3, <2>1, <2>2
<1>12. SoFar(t) = SoFar(s)
  <2>1. ASSUME NEW i \in Files, NEW j \in DOMAIN FunctionsIn(i)
        PROVE  t.seen[Fn(i, j)] + (IF Told(t, i, j) THEN t.counts[Fn(i, j)] ELSE 0)
                 = s.seen[Fn(i, j)] + (IF Told(s, i, j) THEN s.counts[Fn(i, j)] ELSE 0)
    <3>1. Fn(i, j) \in Functions0
      BY Named
    <3>2. t.seen[Fn(i, j)] = base[Fn(i, j)] + IF Told(c, i, j) THEN c.counts[Fn(i, j)] ELSE 0
      BY <1>9, <1>11, <3>1
    <3>3. Told(s, i, j) <=> Told(c, i, j)
      BY <1>11 DEF Told
    <3>4. ~ Told(t, i, j)
      BY <1>11, Silent
    <3> HIDE DEF then, said
    <3>5. c.counts[Fn(i, j)] \in Nat /\ base[Fn(i, j)] \in Nat
      BY <1>7, <3>1
    <3> QED
      BY <1>11, <3>2, <3>3, <3>4, <3>5
  <2> HIDE DEF then, said
  <2> QED
    BY <2>1 DEF SoFar
<1> HIDE DEF then, said
<1>13. ASSUME NEW lines \in art
       PROVE  Sound(parsed(lines), d.torn) /\ Abreast(t, parsed(lines))
  <2>1. Sound(parsed(lines), d.torn) /\ Abreast(s, parsed(lines))
    BY <1>3, <1>6, <1>10 DEF Agrees
  <2>2. parsed(lines).open = {normalize_source(f) : f \in t.cut}
    <3>1. CASE c.line > 2
      <4>1. parsed(lines).open = {Key(c.file)} /\ t.cut = {SourceFiles[c.file]}
        BY <1>2, <1>3, <1>11, <2>1, <3>1 DEF Abreast
      <4> QED
        BY <4>1 DEF Key
    <3>2. CASE ~ (c.line > 2)
      BY <1>2, <1>3, <1>11, <2>1, <3>2 DEF Abreast
    <3> QED
      BY <3>1, <3>2
  <2>3. Exact(parsed(lines).records, SoFar(t))
    BY <1>12, <2>1 DEF Abreast
  <2>4. Abreast(t, parsed(lines))
    BY <1>11, <2>2, <2>3 DEF Abreast
  <2> QED
    BY <2>1, <2>4
<1>14. Agrees(d, then, art)
  BY <1>8, <1>10, <1>13 DEF Agrees
<1>15. \A lines \in art : lines \in Seq(Range(lines))
  BY <1>2 DEF WriterGood
<1>16. WriterGood(d, art)
  BY <1>5, <1>14, <1>15 DEF WriterGood
<1> QED
  BY <1>1, <1>16 DEF WriterInv

LEMMA WriterInit == CovInit => WriterInv
<1> SUFFICES ASSUME CovInit PROVE WriterInv
  OBVIOUS
<1>1. ci = NewCi /\ artifact = {}
  BY DEF CovInit
<1>2. 0 \in 0 .. Len(SourceFiles) /\ Never \in [Functions0 -> 0 .. 7] /\ Never \in [Functions0 -> Nat]
  BY Named DEF Never
<1>3. CiRecord(NewCi) /\ NewCi.seen = Never /\ NewCi.entered = Never /\ NewCi.file = 0
  BY DEF NewCi, CiRecord
<1>4. WriterShape(NewCi)
  BY <1>2, <1>3 DEF WriterShape, NewCi
<1>5. Between(NewCi, Never)
  BY <1>2, <1>3 DEF Between, Never
<1>6. Agrees(NewCi, Never, {})
  BY <1>5 DEF Agrees
<1> QED
  BY <1>1, <1>4, <1>6 DEF WriterInv, WriterGood

LEMMA WriterStep == WriterInv /\ [CovNext]_covVars => WriterInv'
<1> SUFFICES ASSUME WriterInv, [CovNext]_covVars PROVE WriterInv'
  OBVIOUS
<1>1. CASE test_anew
  BY <1>1, TestKeeps DEF test_anew
<1>2. CASE test_more
  BY <1>2, TestKeeps DEF test_more
<1>3. CASE write
  BY <1>3, WriteKeeps
<1>4. CASE die
  BY <1>4, DieKeeps
<1>5. CASE UNCHANGED <<ci, artifact>>
  BY <1>5 DEF WriterInv
<1>6. run_covered \/ load \/ judge_covered => UNCHANGED <<ci, artifact>>
  BY DEF run_covered, load, judge_covered
<1> QED
  BY <1>1, <1>2, <1>3, <1>4, <1>5, <1>6 DEF CovNext, covVars

-----------------------------------------------------------------------------
(* The layer, step by step.                                                *)
LEMMA LayerInit == CovInit => LayerInv
<1> SUFFICES ASSUME CovInit PROVE LayerInv
  OBVIOUS
<1>1. layer = NewLayer
  BY DEF CovInit
<1>2. DOMAIN <<>> = {}
  OBVIOUS
<1>3. Records(<<>>) /\ \A i \in Files : Key(i) \notin DOMAIN <<>>
  BY <1>2 DEF Records
<1>4. /\ NewLayer.coverage = <<>> /\ NewLayer.pc = "run"
      /\ NewLayer = [pc |-> NewLayer.pc, claims |-> NewLayer.claims, gap |-> NewLayer.gap,
           coverage |-> NewLayer.coverage, rescued |-> NewLayer.rescued,
           survived |-> NewLayer.survived, ci |-> NewLayer.ci]
  BY DEF NewLayer
<1>5. LayerGood(NewLayer)
  BY <1>3, <1>4 DEF LayerGood
<1> QED
  BY <1>1, <1>5 DEF LayerInv

LEMMA RunKeeps == LayerInv /\ run_covered => LayerInv'
<1> SUFFICES ASSUME LayerInv, run_covered PROVE LayerInv'
  OBVIOUS
<1>1. PICK l, m : l = layer /\ m = layer'
  OBVIOUS
<1>2. LayerGood(l)
  BY <1>1 DEF LayerInv
<1>3. PICK claims \in ClaimLists : m = [l EXCEPT !.pc = "load", !.claims = claims]
  BY <1>1 DEF run_covered
<1>4. /\ m.coverage = l.coverage /\ m.ci = l.ci /\ m.pc = "load"
      /\ m = [pc |-> m.pc, claims |-> m.claims, gap |-> m.gap, coverage |-> m.coverage,
          rescued |-> m.rescued, survived |-> m.survived, ci |-> m.ci]
  BY <1>2, <1>3 DEF LayerGood
<1>5. LayerGood(m)
  BY <1>2, <1>4 DEF LayerGood
<1> QED
  BY <1>1, <1>5 DEF LayerInv

(* What parse lets in lies between what finished runs said and what any    *)
(* run entered, and its records are full but for those that were torn.     *)
LEMMA Believed ==
  ASSUME NEW c, NEW art, WriterGood(c, art), NEW lines \in art, NEW coverage \in parse(lines)
  PROVE  /\ Records(coverage)
         /\ \A i \in Files :
              Key(i) \in DOMAIN coverage /\ SourceFiles[i] \notin c.torn => Full(coverage[Key(i)], i)
         /\ \E total : Numbers(total) /\ Bounded(c, total) /\ Exact(coverage, total)
<1>1. PICK base : Agrees(c, base, art)
  BY DEF WriterGood
<1>2. PICK s : s = Since(c, base)
  OBVIOUS
<1>3. Sound(parsed(lines), c.torn) /\ Abreast(s, parsed(lines))
  BY <1>1, <1>2 DEF Agrees
<1>4. parsed(lines).open = {} /\ coverage = parsed(lines).records
  BY DEF parse
<1>5. Records(coverage)
      /\ \A i \in Files : Key(i) \in DOMAIN coverage /\ SourceFiles[i] \notin c.torn => Full(coverage[Key(i)], i)
  BY <1>3, <1>4 DEF Sound
<1>6. WriterShape(c) /\ base \in [Functions0 -> Nat]
  BY <1>1 DEF WriterGood, Agrees, Between
<1>7. s.file = c.file /\ s.counts = c.counts /\ s.seen = base /\ WriterShape(s)
  BY <1>2, <1>6, SinceIs
<1>8. Numbers(SoFar(s)) /\ Exact(coverage, SoFar(s))
  BY <1>3, <1>4, <1>7, SoFarNumbers DEF Abreast
<1>9. Bounded(c, SoFar(s))
  <2> SUFFICES ASSUME NEW i \in Files, NEW j \in DOMAIN FunctionsIn(i)
               PROVE  /\ c.entered[Fn(i, j)] \in Nat /\ c.seen[Fn(i, j)] \in Nat
                      /\ c.seen[Fn(i, j)] <= SoFar(s)[i][j] /\ SoFar(s)[i][j] <= c.entered[Fn(i, j)]
    BY DEF Bounded
  <2>1. PICK fn \in Functions0 : fn = Fn(i, j)
    BY Named
  <2>2. 0 .. 7 \subseteq Nat
    OBVIOUS
  <2>3. c.entered[fn] \in Nat /\ c.seen[fn] \in Nat /\ base[fn] \in Nat /\ c.counts[fn] \in Nat
    BY <1>6, <2>2 DEF WriterShape
  <2>4. c.seen[fn] <= base[fn] /\ base[fn] + (IF c.file # 0 THEN c.counts[fn] ELSE 0) <= c.entered[fn]
    BY <1>1 DEF Agrees, Between
  <2>5. Told(s, i, j) => c.file # 0
    BY <1>7, Silent
  <2>6. SoFar(s)[i][j] = base[fn] + IF Told(s, i, j) THEN c.counts[fn] ELSE 0
    BY <1>7, <2>1 DEF SoFar
  <2>7. c.seen[fn] <= SoFar(s)[i][j] /\ SoFar(s)[i][j] <= c.entered[fn]
    <3>1. CASE Told(s, i, j)
      BY <2>3, <2>4, <2>5, <2>6, <3>1
    <3>2. CASE ~ Told(s, i, j)
      <4>1. SoFar(s)[i][j] = base[fn]
        BY <2>3, <2>6, <3>2
      <4>2. PICK n \in Nat : base[fn] + n <= c.entered[fn]
        BY <2>3, <2>4
      <4> QED
        BY <2>3, <2>4, <4>1, <4>2
    <3> QED
      BY <3>1, <3>2
  <2> QED
    BY <2>1, <2>3, <2>7
<1> QED
  BY <1>5, <1>8, <1>9

LEMMA LoadKeeps == WriterInv /\ LayerInv /\ load => LayerInv'
<1> SUFFICES ASSUME WriterInv, LayerInv, load PROVE LayerInv'
  OBVIOUS
<1>1. PICK l, m, c, art : l = layer /\ m = layer' /\ c = ci /\ art = artifact
  OBVIOUS
<1>2. LayerGood(l) /\ l.pc = "load" /\ WriterGood(c, art)
  BY <1>1 DEF LayerInv, WriterInv, load
<1> DEFINE coverages == UNION {parse(lines) : lines \in art}
           coverage == CHOOSE x \in coverages : TRUE
<1>3. \/ \E reason : reason # "none" /\ m = [l EXCEPT !.pc = "done", !.gap = reason, !.survived = Range(l.claims)]
      \/ /\ coverages # {}
         /\ m = [l EXCEPT !.pc = "judge", !.coverage = coverage, !.ci = c]
  <2>1. \/ Gap("NoArtifact") \/ Gap("NoControl") \/ Gap("Unreadable") \/ Gap("ControlFailed")
        \/ /\ coverages # {}
           /\ layer' = [layer EXCEPT !.pc = "judge", !.coverage = coverage, !.ci = ci]
    BY <1>1 DEF load
  <2> QED
    BY <1>1, <2>1 DEF Gap
<1>4. CASE \E reason : reason # "none" /\ m = [l EXCEPT !.pc = "done", !.gap = reason, !.survived = Range(l.claims)]
  <2>1. PICK reason : reason # "none" /\ m = [l EXCEPT !.pc = "done", !.gap = reason, !.survived = Range(l.claims)]
    BY <1>4
  <2>2. /\ m.coverage = l.coverage /\ m.ci = l.ci /\ m.gap # "none"
        /\ m = [pc |-> m.pc, claims |-> m.claims, gap |-> m.gap, coverage |-> m.coverage,
            rescued |-> m.rescued, survived |-> m.survived, ci |-> m.ci]
    BY <1>2, <2>1 DEF LayerGood
  <2>3. LayerGood(m)
    BY <1>2, <2>2 DEF LayerGood
  <2> QED
    BY <1>1, <2>3 DEF LayerInv
<1>5. CASE /\ coverages # {}
           /\ m = [l EXCEPT !.pc = "judge", !.coverage = coverage, !.ci = c]
  <2>1. coverage \in coverages
    BY <1>5
  <2>2. PICK lines \in art : coverage \in parse(lines)
    BY <2>1
  <2> HIDE DEF coverage, coverages
  <2>3. /\ Records(coverage)
        /\ \A i \in Files :
             Key(i) \in DOMAIN coverage /\ SourceFiles[i] \notin c.torn => Full(coverage[Key(i)], i)
        /\ \E total : Numbers(total) /\ Bounded(c, total) /\ Exact(coverage, total)
    BY <1>2, <2>2, Believed
  <2>4. /\ m.pc = "judge" /\ m.coverage = coverage /\ m.ci = c
        /\ m = [pc |-> m.pc, claims |-> m.claims, gap |-> m.gap, coverage |-> m.coverage,
            rescued |-> m.rescued, survived |-> m.survived, ci |-> m.ci]
    BY <1>2, <1>5 DEF LayerGood
  <2>5. LayerGood(m)
    BY <2>3, <2>4 DEF LayerGood
  <2> QED
    BY <1>1, <2>5 DEF LayerInv
<1> QED
  BY <1>3, <1>4, <1>5

LEMMA JudgeKeeps == LayerInv /\ judge_covered => LayerInv'
<1> SUFFICES ASSUME LayerInv, judge_covered PROVE LayerInv'
  OBVIOUS
<1>1. PICK l, m : l = layer /\ m = layer'
  OBVIOUS
<1> DEFINE rescued == {claim \in Range(l.claims) : ran(l.coverage, claim)}
<1>2. /\ LayerGood(l) /\ l.pc = "judge"
      /\ m = [l EXCEPT !.pc = "done", !.rescued = rescued, !.survived = Range(l.claims) \ rescued]
  BY <1>1 DEF LayerInv, judge_covered
<1> HIDE DEF rescued
<1>3. /\ m.pc = "done" /\ m.rescued = rescued /\ m.claims = l.claims /\ m.coverage = l.coverage
      /\ m.ci = l.ci /\ m.gap = l.gap
      /\ m = [pc |-> m.pc, claims |-> m.claims, gap |-> m.gap, coverage |-> m.coverage,
          rescued |-> m.rescued, survived |-> m.survived, ci |-> m.ci]
  BY <1>2 DEF LayerGood
<1>4. LayerGood(m)
  BY <1>2, <1>3 DEF LayerGood, rescued
<1> QED
  BY <1>1, <1>4 DEF LayerInv

LEMMA LayerStep == WriterInv /\ LayerInv /\ [CovNext]_covVars => LayerInv'
<1> SUFFICES ASSUME WriterInv, LayerInv, [CovNext]_covVars PROVE LayerInv'
  OBVIOUS
<1>1. CASE run_covered
  BY <1>1, RunKeeps
<1>2. CASE load
  BY <1>2, LoadKeeps
<1>3. CASE judge_covered
  BY <1>3, JudgeKeeps
<1>4. CASE UNCHANGED layer
  BY <1>4 DEF LayerInv
<1>5. test_anew \/ test_more \/ write \/ die => UNCHANGED layer
  BY DEF test_anew, test_more, Test, write, die
<1> QED
  BY <1>1, <1>2, <1>3, <1>4, <1>5 DEF CovNext, covVars

LEMMA CoverageInvariant == CovSpec => [](WriterInv /\ LayerInv)
<1>1. CovInit => WriterInv /\ LayerInv
  BY WriterInit, LayerInit
<1>2. WriterInv /\ LayerInv /\ [CovNext]_covVars => (WriterInv /\ LayerInv)'
  BY WriterStep, LayerStep
<1> QED
  BY <1>1, <1>2, PTL DEF CovSpec

(* Whatever CI writes, wherever a machine dies in it, whether the next run *)
(* adds to what it left or begins anew, and whenever the layer reads: a    *)
(* record that is believed is full, unless it was torn and another record  *)
(* followed it (HalfRecordsAreTorn).  parse of lcov.rs refuses a last      *)
(* record that has no end, and only a last one.                            *)
THEOREM HalvesAreTorn == CovSpec => []HalfRecordsAreTorn
<1>1. LayerInv => HalfRecordsAreTorn
  <2> SUFFICES ASSUME LayerInv, NEW key \in DOMAIN layer.coverage, NEW f \in Range(SourceFiles),
                      normalize_source(f) = key, f \notin layer.ci.torn
               PROVE  /\ DOMAIN layer.coverage[key].calls = Range(FunctionsOf[f])
                      /\ DOMAIN layer.coverage[key].lines # {}
    BY DEF HalfRecordsAreTorn
  <2>1. PICK i \in Files : f = SourceFiles[i]
    BY DEF Range, Files
  <2>2. key = Key(i) /\ FunctionsOf[f] = FunctionsIn(i)
    BY <2>1 DEF Key, FunctionsIn
  <2>3. Full(layer.coverage[key], i)
    BY <2>1, <2>2 DEF LayerInv, LayerGood
  <2> QED
    BY <2>2, <2>3 DEF Full
<1> QED
  BY <1>1, CoverageInvariant, PTL

LEMMA Listed ==
  ASSUME NEW fn \in Functions0
  PROVE  \E i \in Files : \E j \in DOMAIN FunctionsIn(i) : fn = Fn(i, j)
<1>1. PICK f \in Range(SourceFiles) : \E n \in Range(FunctionsOf[f]) : fn = <<f, n>>
  BY DEF Functions0
<1>2. PICK i \in Files : f = SourceFiles[i]
  BY DEF Range, Files
<1>3. PICK n \in Range(FunctionsIn(i)) : fn = <<SourceFiles[i], n>>
  BY <1>1, <1>2 DEF FunctionsIn
<1>4. PICK j \in DOMAIN FunctionsIn(i) : n = FunctionsIn(i)[j]
  BY DEF Range
<1> QED
  BY <1>3, <1>4 DEF Fn

(* What is known of a function that ran.                                   *)
LEMMA CalledIffHeard ==
  ASSUME NEW coverage, Records(coverage), NEW total, Numbers(total),
         \A i \in Files : \A j \in DOMAIN FunctionsIn(i) : total[i][j] <= CountMax,
         Exact(coverage, total), NEW i \in Files, NEW j \in DOMAIN FunctionsIn(i)
  PROVE  total[i][j] > 0 <=>
           Key(i) \in DOMAIN coverage /\ FunctionsIn(i)[j] \in Called(coverage[Key(i)])
<1>1. CallsIn(coverage, Key(i), FunctionsIn(i)[j]) = total[i][j]
  BY DEF Exact
<1>2. ~ (0 > 0)
  OBVIOUS
<1> QED
  BY <1>1, <1>2 DEF CallsIn, Called

LEMMA ExecutedIffHeard ==
  ASSUME NEW coverage, Records(coverage), NEW total, Numbers(total),
         \A i \in Files : \A j \in DOMAIN FunctionsIn(i) : total[i][j] <= CountMax,
         Exact(coverage, total), NEW i \in Files, Key(i) \in DOMAIN coverage
  PROVE  was_executed(coverage[Key(i)]) <=> \E j \in DOMAIN FunctionsIn(i) : total[i][j] > 0
<1> DEFINE record == coverage[Key(i)]
<1>1. ASSUME NEW n \in Called(record)
      PROVE  \E j \in DOMAIN FunctionsIn(i) : total[i][j] > 0
  <2>1. n \in DOMAIN record.calls
    BY DEF Called
  <2>2. n \in Range(FunctionsIn(i))
    BY <2>1 DEF Records, RecordOf
  <2>3. PICK j \in DOMAIN FunctionsIn(i) : n = FunctionsIn(i)[j]
    BY <2>2 DEF Range
  <2>4. total[i][j] > 0
    BY <2>3, CalledIffHeard
  <2> QED
    BY <2>4
<1>2. ASSUME NEW l \in DOMAIN record.lines, record.lines[l] > 0
      PROVE  \E j \in DOMAIN FunctionsIn(i) : total[i][j] > 0
  BY <1>2 DEF Exact
<1>3. ASSUME NEW j \in DOMAIN FunctionsIn(i), total[i][j] > 0
      PROVE  Called(record) # {}
  <2>1. FunctionsIn(i)[j] \in Called(record)
    BY <1>3, CalledIffHeard
  <2> QED
    BY <2>1
<1> QED
  BY <1>1, <1>2, <1>3 DEF was_executed

(* Claims about what ran in a finished run are dropped, and no others than *)
(* about what some run entered (RescuedIffRan), however many files,        *)
(* functions, runs and deaths there are, in either dialect: the counts of  *)
(* parse_counted add up over the runs, and executed_file and               *)
(* called_function of lcov.rs find a name wherever it was called.          *)
THEOREM RescuedRan == CovSpec => []RescuedIffRan
<1>1. LayerInv => RescuedIffRan
  <2> SUFFICES ASSUME LayerInv, layer.pc = "done", layer.gap = "none",
                      \A fn \in Functions0 : layer.ci.entered[fn] <= CountMax,
                      NEW claim \in Range(layer.claims)
               PROVE  /\ (\E fn \in Functions0 : About(claim, fn) /\ layer.ci.seen[fn] > 0)
                           => claim \in layer.rescued
                      /\ claim \in layer.rescued
                           => \E fn \in Functions0 : About(claim, fn) /\ layer.ci.entered[fn] > 0
    BY DEF RescuedIffRan
  <2>1. PICK coverage, c : coverage = layer.coverage /\ c = layer.ci
    OBVIOUS
  <2>2. Records(coverage) /\ \E total : Numbers(total) /\ Bounded(c, total) /\ Exact(coverage, total)
    BY <2>1 DEF LayerInv, LayerGood
  <2>3. PICK total : Numbers(total) /\ Bounded(c, total) /\ Exact(coverage, total)
    BY <2>2
  <2>4. claim \in layer.rescued <=> ran(coverage, claim)
    BY <2>1 DEF LayerInv, LayerGood
  <2>5. ASSUME NEW i \in Files, NEW j \in DOMAIN FunctionsIn(i)
        PROVE  /\ total[i][j] <= CountMax
               /\ c.seen[Fn(i, j)] > 0 => total[i][j] > 0
               /\ total[i][j] > 0 => c.entered[Fn(i, j)] > 0
               /\ Fn(i, j) \in Functions0
               /\ normalize_source(Fn(i, j)[1]) = Key(i) /\ Fn(i, j)[2] = FunctionsIn(i)[j]
    <3>1. PICK fn \in Functions0 : fn = Fn(i, j)
      BY Named
    <3>2. /\ c.entered[fn] \in Nat /\ c.seen[fn] \in Nat /\ total[i][j] \in Nat
          /\ c.seen[fn] <= total[i][j] /\ total[i][j] <= c.entered[fn]
      BY <2>3, <3>1 DEF Bounded, Numbers
    <3>3. c.entered[fn] <= CountMax /\ CountMax \in Nat
      BY <2>1, CoverageAssumption
    <3>4. /\ total[i][j] <= CountMax
          /\ c.seen[fn] > 0 => total[i][j] > 0
          /\ total[i][j] > 0 => c.entered[fn] > 0
      BY <3>2, <3>3
    <3>5. normalize_source(Fn(i, j)[1]) = Key(i) /\ Fn(i, j)[2] = FunctionsIn(i)[j]
      BY DEF Fn, Key
    <3> QED
      BY <3>1, <3>4, <3>5
  <2>6. \A i \in Files : \A j \in DOMAIN FunctionsIn(i) :
          total[i][j] > 0 <=> Key(i) \in DOMAIN coverage /\ FunctionsIn(i)[j] \in Called(coverage[Key(i)])
    BY <2>2, <2>3, <2>5, CalledIffHeard
  <2>7. \A i \in Files : Key(i) \in DOMAIN coverage =>
          (was_executed(coverage[Key(i)]) <=> \E j \in DOMAIN FunctionsIn(i) : total[i][j] > 0)
    BY <2>2, <2>3, <2>5, ExecutedIffHeard
  <2>8. \A k \in DOMAIN coverage : \E i \in Files : k = Key(i)
    BY <2>2 DEF Records
  <2>9. ran(coverage, claim) <=>
          \E i \in Files : \E j \in DOMAIN FunctionsIn(i) : About(claim, Fn(i, j)) /\ total[i][j] > 0
    <3>1. CASE claim.kind = "Path"
      <4>1. PICK name : name = normalize_source(claim.name)
        OBVIOUS
      <4>2. ran(coverage, claim) <=>
              \E k \in DOMAIN coverage : path_ends_with(k, name) /\ was_executed(coverage[k])
        BY <3>1, <4>1 DEF ran, executed_file
      <4>3. ASSUME NEW i \in Files, NEW j \in DOMAIN FunctionsIn(i)
            PROVE  About(claim, Fn(i, j)) <=> path_ends_with(Key(i), name)
        BY <2>5, <3>1, <4>1 DEF About
      <4>4. ASSUME NEW k \in DOMAIN coverage, path_ends_with(k, name), was_executed(coverage[k])
            PROVE  \E i \in Files : \E j \in DOMAIN FunctionsIn(i) : About(claim, Fn(i, j)) /\ total[i][j] > 0
        <5>1. PICK i \in Files : k = Key(i)
          BY <2>8
        <5>2. PICK j \in DOMAIN FunctionsIn(i) : total[i][j] > 0
          BY <2>7, <4>4, <5>1
        <5> QED
          BY <4>3, <4>4, <5>1, <5>2
      <4>5. ASSUME NEW i \in Files, NEW j \in DOMAIN FunctionsIn(i), About(claim, Fn(i, j)), total[i][j] > 0
            PROVE  \E k \in DOMAIN coverage : path_ends_with(k, name) /\ was_executed(coverage[k])
        <5>1. Key(i) \in DOMAIN coverage
          BY <2>6, <4>5
        <5>2. was_executed(coverage[Key(i)])
          BY <2>7, <4>5, <5>1
        <5> QED
          BY <4>3, <4>5, <5>1, <5>2
      <4> QED
        BY <4>2, <4>4, <4>5
    <3>2. CASE claim.kind # "Path"
      <4>1. PICK name : name = claim.name
        OBVIOUS
      <4>2. ran(coverage, claim) <=>
              \E k \in DOMAIN coverage : \E n \in Called(coverage[k]) : names_same_symbol(n, name)
        BY <3>2, <4>1 DEF ran, called_function
      <4>3. ASSUME NEW i \in Files, NEW j \in DOMAIN FunctionsIn(i)
            PROVE  About(claim, Fn(i, j)) <=> names_same_symbol(FunctionsIn(i)[j], name)
        BY <2>5, <3>2, <4>1 DEF About
      <4>4. ASSUME NEW k \in DOMAIN coverage, NEW n \in Called(coverage[k]), names_same_symbol(n, name)
            PROVE  \E i \in Files : \E j \in DOMAIN FunctionsIn(i) : About(claim, Fn(i, j)) /\ total[i][j] > 0
        <5>1. PICK i \in Files : k = Key(i)
          BY <2>8
        <5>2. n \in Range(FunctionsIn(i))
          BY <2>2, <5>1 DEF Records, RecordOf, Called
        <5>3. PICK j \in DOMAIN FunctionsIn(i) : n = FunctionsIn(i)[j]
          BY <5>2 DEF Range
        <5>4. total[i][j] > 0
          BY <2>6, <5>1, <5>3
        <5> QED
          BY <4>3, <4>4, <5>3, <5>4
      <4>5. ASSUME NEW i \in Files, NEW j \in DOMAIN FunctionsIn(i), About(claim, Fn(i, j)), total[i][j] > 0
            PROVE  \E k \in DOMAIN coverage : \E n \in Called(coverage[k]) : names_same_symbol(n, name)
        <5>1. Key(i) \in DOMAIN coverage /\ FunctionsIn(i)[j] \in Called(coverage[Key(i)])
          BY <2>6, <4>5
        <5> QED
          BY <4>3, <4>5, <5>1
      <4> QED
        BY <4>2, <4>4, <4>5
    <3> QED
      BY <3>1, <3>2
  <2>10. ASSUME NEW fn \in Functions0, About(claim, fn), layer.ci.seen[fn] > 0
         PROVE  claim \in layer.rescued
    <3>1. PICK i \in Files : \E j \in DOMAIN FunctionsIn(i) : fn = Fn(i, j)
      BY Listed
    <3>2. PICK j \in DOMAIN FunctionsIn(i) : fn = Fn(i, j)
      BY <3>1
    <3>3. About(claim, Fn(i, j)) /\ total[i][j] > 0
      BY <2>1, <2>5, <2>10, <3>2
    <3> QED
      BY <2>4, <2>9, <3>3
  <2>11. ASSUME claim \in layer.rescued
         PROVE  \E fn \in Functions0 : About(claim, fn) /\ layer.ci.entered[fn] > 0
    <3>1. PICK i \in Files : \E j \in DOMAIN FunctionsIn(i) : About(claim, Fn(i, j)) /\ total[i][j] > 0
      BY <2>4, <2>9, <2>11
    <3>2. PICK j \in DOMAIN FunctionsIn(i) : About(claim, Fn(i, j)) /\ total[i][j] > 0
      BY <3>1
    <3> QED
      BY <2>1, <2>5, <3>2
  <2> QED
    BY <2>10, <2>11
<1> QED
  BY <1>1, CoverageInvariant, PTL

-----------------------------------------------------------------------------
(* Sequences of sequences, one after the other.                            *)
Flattens(flat, s, S) ==
  /\ flat \in [0 .. Len(s) -> Seq(S)]
  /\ flat[0] = <<>>
  /\ \A n \in 1 .. Len(s) : flat[n] = flat[n - 1] \o s[n]

LEMMA FlattenIs ==
  ASSUME NEW S, NEW s \in Seq(Seq(S))
  PROVE  \E flat : Flattens(flat, s, S) /\ FlattenSeq(s) = flat[Len(s)]
<1> DEFINE N == Len(s)
           Values == Seq(S)
           none == <<>>
           step(n, t) == t \o s[n]
           G == [n \in 1 .. N |-> [t \in Values |-> step(n, t)]]
           Is(f) == f = [i \in 1 .. N |-> IF i = 1 THEN s[i] ELSE f[i - 1] \o s[i]]
           chosen == CHOOSE f : Is(f)
<1>1. /\ N \in Nat /\ none \in Values /\ \A n \in 1 .. N : s[n] \in Values
      /\ \A n \in 1 .. N, t \in Values : step(n, t) \in Values
      /\ \A t \in Values : none \o t = t
  OBVIOUS
<1>2. FlattenSeq(s) = IF N = 0 THEN s ELSE chosen[N]
  BY DEF FlattenSeq
<1>3. N = 0 => s = none
  OBVIOUS
<1>4. \A n, t : step(n, t) = t \o s[n]
  OBVIOUS
<1> HIDE DEF N, Values, none, step, chosen
<1>5. PICK g : Solves(g, N, Values, none, G)
  <2>1. G \in [1 .. N -> [Values -> Values]]
    BY <1>1
  <2> HIDE DEF G
  <2> QED
    BY <1>1, <2>1, Recursion
<1>6. /\ g \in [0 .. N -> Values] /\ g[0] = none
      /\ \A n \in 1 .. N : g[n] = step(n, g[n - 1])
  <2>1. \A n \in 1 .. N : g[n] = G[n][g[n - 1]]
    BY <1>5 DEF Solves
  <2>2. g \in [0 .. N -> Values] /\ g[0] = none
    BY <1>5 DEF Solves
  <2>3. \A n \in 1 .. N : g[n - 1] \in Values
    BY <1>1, <2>2, Steps
  <2> QED
    BY <2>1, <2>2, <2>3
<1>7. \A n \in 1 .. N : g[n] = IF n = 1 THEN s[n] ELSE g[n - 1] \o s[n]
  <2> SUFFICES ASSUME NEW n \in 1 .. N
               PROVE  g[n] = IF n = 1 THEN s[n] ELSE g[n - 1] \o s[n]
    OBVIOUS
  <2>1. g[n] = g[n - 1] \o s[n]
    BY <1>4, <1>6
  <2>2. ASSUME n = 1 PROVE g[n - 1] \o s[n] = s[n]
    <3>1. n - 1 = 0
      BY <2>2
    <3>2. g[n - 1] = none
      BY <1>6, <3>1
    <3> QED
      BY <1>1, <3>2
  <2> QED
    BY <2>1, <2>2
<1> DEFINE h == [i \in 1 .. N |-> g[i]]
<1>8. Is(h)
  <2>1. \A i \in 1 .. N : i # 1 => i - 1 \in 1 .. N
    BY <1>1
  <2>2. \A i \in 1 .. N : i # 1 => h[i - 1] = g[i - 1]
    BY <2>1
  <2>3. h = [i \in 1 .. N |-> IF i = 1 THEN s[i] ELSE h[i - 1] \o s[i]]
    BY <1>7, <2>2
  <2> QED
    BY <2>3
<1>9. Is(chosen)
  <2> HIDE DEF h, Is
  <2> QED
    BY <1>8 DEF chosen
<1>10. \A n \in 1 .. N : chosen[n] = IF n = 1 THEN s[n] ELSE chosen[n - 1] \o s[n]
  BY <1>9
<1> DEFINE T == {n \in 0 .. N : n # 0 => chosen[n] = g[n]}
<1>11. 0 \in T
  BY <1>1
<1>12. ASSUME NEW n \in 0 .. N - 1, n \in T PROVE n + 1 \in T
  <2>1. n + 1 \in 1 .. N /\ (n + 1) - 1 = n /\ n + 1 \in 0 .. N /\ (n + 1 = 1 <=> n = 0)
    BY <1>1
  <2>2. g[n + 1] = IF n = 0 THEN s[n + 1] ELSE g[n] \o s[n + 1]
    BY <1>7, <2>1
  <2>3. chosen[n + 1] = IF n = 0 THEN s[n + 1] ELSE chosen[n] \o s[n + 1]
    BY <1>10, <2>1
  <2>4. n # 0 => chosen[n] = g[n]
    BY <1>12
  <2> QED
    BY <2>1, <2>2, <2>3, <2>4
<1>13. N \in T
  <2> HIDE DEF T
  <2>1. \A n \in 0 .. N : n \in T
    BY <1>1, <1>11, <1>12, Upwards
  <2> QED
    BY <1>1, <2>1
<1>14. FlattenSeq(s) = g[N]
  BY <1>2, <1>3, <1>6, <1>13
<1>15. Flattens(g, s, S)
  <2>1. \A n \in 1 .. N : g[n] = g[n - 1] \o s[n]
    BY <1>4, <1>6
  <2> QED
    BY <1>6, <2>1 DEF Flattens, N, Values, none
<1> QED
  BY <1>14, <1>15 DEF N

-----------------------------------------------------------------------------
(* Both passes, one token after the other.                                 *)
Fresh == [core |-> <<>>, tokens |-> <<>>]
Passes(after, m) ==
  after = [n \in 0 .. Len(m) |-> IF n = 0 THEN Fresh ELSE OneToken(after[n - 1], m[n])]
Reaches(m, st) == \E after : Passes(after, m) /\ st = after[Len(m)]

LEMMA PassesIs ==
  ASSUME NEW S, NEW m \in Seq(S), NEW after
  PROVE  Passes(after, m) <=>
           /\ after = [n \in 0 .. Len(m) |-> after[n]]
           /\ after[0] = Fresh
           /\ \A n \in 1 .. Len(m) : after[n] = OneToken(after[n - 1], m[n])
<1> DEFINE N == Len(m)
           step(n, st) == OneToken(st, m[n])
           F == [n \in 0 .. N |-> IF n = 0 THEN Fresh ELSE step(n, after[n - 1])]
<1>1. N \in Nat
  OBVIOUS
<1> HIDE DEF step, N
<1>2. ASSUME after = F
      PROVE  /\ after = [n \in 0 .. N |-> after[n]]
             /\ after[0] = Fresh
             /\ \A n \in 1 .. N : after[n] = step(n, after[n - 1])
  <2>1. after[0] = Fresh /\ \A n \in 1 .. N : after[n] = step(n, after[n - 1])
    <3>1. \A n \in 0 .. N : F[n] = IF n = 0 THEN Fresh ELSE step(n, after[n - 1])
      OBVIOUS
    <3> HIDE DEF F
    <3> QED
      BY <1>1, <1>2, <3>1, Steps
  <2>2. DOMAIN F = 0 .. N /\ F = [n \in DOMAIN F |-> F[n]]
    OBVIOUS
  <2> QED
    <3> HIDE DEF F
    <3> QED
      BY <1>2, <2>1, <2>2
<1>3. ASSUME /\ after = [n \in 0 .. N |-> after[n]]
             /\ after[0] = Fresh
             /\ \A n \in 1 .. N : after[n] = step(n, after[n - 1])
      PROVE  after = F
  <2>1. \A n \in 0 .. N : after[n] = IF n = 0 THEN Fresh ELSE step(n, after[n - 1])
    BY <1>1, <1>3, Steps
  <2> QED
    BY <1>3, <2>1
<1> QED
  BY <1>2, <1>3 DEF Passes, step, N

LEMMA StartsFresh == Reaches(<<>>, Fresh)
<1> DEFINE after == [n \in 0 .. 0 |-> Fresh]
<1>1. Passes(after, <<>>)
  BY DEF Passes
<1>2. after[Len(<<>>)] = Fresh
  OBVIOUS
<1> QED
  BY <1>1, <1>2 DEF Reaches

LEMMA GoesOn ==
  ASSUME NEW S, NEW m \in Seq(S), NEW t \in S, NEW st, Reaches(m, st)
  PROVE  Reaches(m \o <<t>>, OneToken(st, t))
<1> DEFINE more == m \o <<t>>
           N == Len(m)
<1>1. PICK after : Passes(after, m) /\ st = after[N]
  BY DEF Reaches
<1>2. /\ N \in Nat /\ more \in Seq(S) /\ Len(more) = N + 1 /\ more[N + 1] = t
      /\ \A n \in 1 .. N : more[n] = m[n]
  OBVIOUS
<1>3. /\ after[0] = Fresh
      /\ \A n \in 1 .. N : after[n] = OneToken(after[n - 1], m[n])
  BY <1>1, PassesIs
<1> DEFINE last == OneToken(st, t)
           further == [n \in 0 .. N + 1 |-> IF n = N + 1 THEN last ELSE after[n]]
<1> HIDE DEF more, N, last
<1>4. \A n \in 0 .. N : n \in 0 .. N + 1 /\ n # N + 1
  BY <1>2
<1>5. further[N + 1] = last /\ \A n \in 0 .. N : further[n] = after[n]
  BY <1>2, <1>4
<1>6. DOMAIN further = 0 .. N + 1 /\ further = [n \in 0 .. N + 1 |-> further[n]]
  OBVIOUS
<1> HIDE DEF further
<1>7. \A n \in 1 .. N + 1 : further[n] = OneToken(further[n - 1], more[n])
  <2> SUFFICES ASSUME NEW n \in 1 .. N + 1 PROVE further[n] = OneToken(further[n - 1], more[n])
    OBVIOUS
  <2>1. CASE n = N + 1
    <3>1. n - 1 = N /\ N \in 0 .. N
      BY <1>2, <2>1
    <3> QED
      BY <1>1, <1>2, <1>5, <2>1, <3>1 DEF last
  <2>2. CASE n # N + 1
    <3>1. n \in 1 .. N /\ n \in 0 .. N /\ n - 1 \in 0 .. N
      BY <1>2, <2>2
    <3> QED
      BY <1>2, <1>3, <1>5, <3>1
  <2> QED
    BY <2>1, <2>2
<1>8. further[0] = Fresh
  <2>1. 0 \in 0 .. N
    BY <1>2
  <2> QED
    BY <1>3, <1>5, <2>1
<1>9. Passes(further, more)
  BY <1>2, <1>6, <1>7, <1>8, PassesIs
<1> QED
  BY <1>2, <1>5, <1>9 DEF Reaches, more, last

LEMMA NormalIs ==
  ASSUME NEW S, NEW m \in Seq(S), NEW st, Reaches(m, st)
  PROVE  normalize_message(m) = Rendering(st.tokens)
<1> DEFINE N == Len(m)
           chosen == CHOOSE after : Passes(after, m)
<1>1. PICK after : Passes(after, m) /\ st = after[N]
  BY DEF Reaches
<1>2. Passes(chosen, m)
  BY <1>1
<1>3. normalize_message(m) = Rendering(chosen[N].tokens)
  BY DEF normalize_message, Passes, Fresh
<1> HIDE DEF chosen
<1>4. /\ after[0] = Fresh /\ chosen[0] = Fresh
      /\ \A n \in 1 .. N : after[n] = OneToken(after[n - 1], m[n])
      /\ \A n \in 1 .. N : chosen[n] = OneToken(chosen[n - 1], m[n])
  BY <1>1, <1>2, PassesIs
<1>5. N \in Nat
  OBVIOUS
<1> HIDE DEF N
<1> DEFINE T == {n \in 0 .. N : chosen[n] = after[n]}
<1>6. 0 \in T
  BY <1>4, <1>5
<1>7. ASSUME NEW n \in 0 .. N - 1, n \in T PROVE n + 1 \in T
  <2>1. n + 1 \in 1 .. N /\ (n + 1) - 1 = n /\ n + 1 \in 0 .. N
    BY <1>5
  <2>2. chosen[n] = after[n]
    BY <1>7
  <2>3. chosen[n + 1] = OneToken(chosen[n], m[n + 1]) /\ after[n + 1] = OneToken(after[n], m[n + 1])
    BY <1>4, <2>1
  <2> QED
    BY <2>1, <2>2, <2>3
<1>8. N \in T
  <2> HIDE DEF T
  <2>1. \A n \in 0 .. N : n \in T
    BY <1>5, <1>6, <1>7, Upwards
  <2> QED
    BY <1>5, <2>1
<1> QED
  BY <1>1, <1>3, <1>8

-----------------------------------------------------------------------------
(* What a token is split into.                                             *)
Cut(leading, core, trailing) == [leading |-> leading, core |-> core, trailing |-> trailing]

LEMMA SubSeqIs ==
  ASSUME NEW S, NEW t \in Seq(S), NEW u \in Seq(S), NEW m \in 1 .. Len(t) + 1, NEW n \in 0 .. Len(t),
         Len(u) = n - m + 1, \A i \in 1 .. Len(u) : t[m + i - 1] = u[i]
  PROVE  SubSeq(t, m, n) = u
<1> DEFINE v == SubSeq(t, m, n)
<1>1. Len(t) \in Nat /\ m \in Int /\ n \in Int /\ Len(u) \in Nat
  OBVIOUS
<1>2. \A i \in m .. n : i \in 1 .. Len(t)
  BY <1>1
<1>3. \A i \in m .. n : t[i] \in S
  BY <1>2
<1>4. /\ v \in Seq(S)
      /\ Len(v) = IF m <= n THEN n - m + 1 ELSE 0
      /\ \A i \in 1 .. n - m + 1 : v[i] = t[m + i - 1]
  <2> HIDE DEF v
  <2> QED
    BY <1>1, <1>3, SubSeqProperties DEF v
<1>5. Len(v) = Len(u)
  BY <1>1, <1>4
<1>6. \A i \in 1 .. Len(v) : v[i] = u[i]
  BY <1>1, <1>4, <1>5
<1> HIDE DEF v
<1>7. v = u
  BY <1>4, <1>5, <1>6, SeqEqual
<1> QED
  BY <1>7 DEF v

(* t is l, c and r one after the other, and only the ends are punctuation. *)
Parts(t, l, c, r) ==
  /\ Len(t) = Len(l) + Len(c) + Len(r) /\ Len(c) > 0
  /\ \A i \in 1 .. Len(l) : t[i] = l[i] /\ Edge(l[i])
  /\ \A i \in 1 .. Len(c) : t[Len(l) + i] = c[i]
  /\ \A i \in 1 .. Len(r) : t[Len(l) + Len(c) + i] = r[i] /\ Edge(r[i])
  /\ ~ Edge(c[1]) /\ ~ Edge(c[Len(c)])

LEMMA SplitIs ==
  ASSUME NEW S, NEW t \in Seq(S), NEW l \in Seq(S), NEW c \in Seq(S), NEW r \in Seq(S),
         Parts(t, l, c, r)
  PROVE  split_edge_punctuation(t) = Cut(l, c, r)
<1>1. PICK x \in Nat, y \in Nat, z \in Nat : x = Len(l) /\ y = Len(c) /\ z = Len(r)
  OBVIOUS
<1>2. /\ Len(t) = x + y + z /\ y > 0
      /\ \A i \in 1 .. x : t[i] = l[i] /\ Edge(t[i])
      /\ \A i \in 1 .. y : t[x + i] = c[i]
      /\ \A i \in 1 .. z : t[x + y + i] = r[i] /\ Edge(t[x + y + i])
      /\ ~ Edge(c[1]) /\ ~ Edge(c[y])
  BY <1>1 DEF Parts
<1>3. ~ Edge(t[x + 1]) /\ ~ Edge(t[x + y])
  BY <1>2
<1> DEFINE I == {i \in 1 .. Len(t) : ~ Edge(t[i])}
<1>4. I \subseteq Int /\ x + 1 \in I /\ x + y \in I
  BY <1>2, <1>3
<1>5. ASSUME NEW i \in I PROVE x + 1 <= i /\ i <= x + y
  <2>1. i \in 1 .. x + y + z /\ ~ Edge(t[i])
    BY <1>2
  <2>2. ~ (i \in 1 .. x)
    BY <1>2, <2>1
  <2>3. ASSUME i > x + y PROVE FALSE
    <3>1. i - (x + y) \in 1 .. z /\ x + y + (i - (x + y)) = i
      BY <2>1, <2>3
    <3> QED
      BY <1>2, <2>1, <3>1
  <2> QED
    BY <2>1, <2>2, <2>3
<1>6. Min(I) = x + 1 /\ Max(I) = x + y
  <2> HIDE DEF I
  <2> QED
    BY <1>4, <1>5, MinIs, MaxIs
<1>7. SelectInSeq(t, LAMBDA p : ~ Edge(p)) = x + 1
  BY <1>4, <1>6 DEF SelectInSeq
<1>8. SelectLastInSeq(t, LAMBDA p : ~ Edge(p)) = x + y
  BY <1>4, <1>6 DEF SelectLastInSeq
<1>9. SubSeq(t, 1, x) = l
  <2>1. 1 \in 1 .. Len(t) + 1 /\ x \in 0 .. Len(t) /\ Len(l) = x - 1 + 1
    BY <1>1, <1>2
  <2>2. \A i \in 1 .. Len(l) : t[1 + i - 1] = l[i]
    BY <1>1, <1>2
  <2> QED
    BY <2>1, <2>2, SubSeqIs
<1>10. SubSeq(t, x + 1, x + y) = c
  <2>1. x + 1 \in 1 .. Len(t) + 1 /\ x + y \in 0 .. Len(t) /\ Len(c) = (x + y) - (x + 1) + 1
    BY <1>1, <1>2
  <2>2. \A i \in 1 .. Len(c) : (x + 1) + i - 1 = x + i
    BY <1>1
  <2>3. \A i \in 1 .. Len(c) : t[(x + 1) + i - 1] = c[i]
    BY <1>1, <1>2, <2>2
  <2> QED
    BY <2>1, <2>3, SubSeqIs
<1>11. SubSeq(t, x + y + 1, Len(t)) = r
  <2>1. x + y + 1 \in 1 .. Len(t) + 1 /\ Len(t) \in 0 .. Len(t) /\ Len(r) = Len(t) - (x + y + 1) + 1
    BY <1>1, <1>2
  <2>2. \A i \in 1 .. Len(r) : (x + y + 1) + i - 1 = x + y + i
    BY <1>1
  <2>3. \A i \in 1 .. Len(r) : t[(x + y + 1) + i - 1] = r[i]
    BY <1>1, <1>2, <2>2
  <2> QED
    BY <2>1, <2>3, SubSeqIs
<1>12. x + 1 # 0 /\ (x + 1) - 1 = x
  OBVIOUS
<1> QED
  BY <1>7, <1>8, <1>9, <1>10, <1>11, <1>12 DEF split_edge_punctuation, Cut

LEMMA SplitOne ==
  ASSUME NEW x, ~ Edge(x)
  PROVE  split_edge_punctuation(<<x>>) = Cut(<<>>, <<x>>, <<>>)
<1>1. <<x>> \in Seq({x}) /\ <<>> \in Seq({x})
  OBVIOUS
<1>2. Parts(<<x>>, <<>>, <<x>>, <<>>)
  BY DEF Parts
<1> QED
  BY <1>1, <1>2, SplitIs

LEMMA SplitTwo ==
  ASSUME NEW x, NEW p, ~ Edge(x), Edge(p)
  PROVE  split_edge_punctuation(<<x, p>>) = Cut(<<>>, <<x>>, <<p>>)
<1> DEFINE S == {x, p}
           t == <<x, p>>
           l == <<>>
           c == <<x>>
           r == <<p>>
<1>1. t \in Seq(S) /\ l \in Seq(S) /\ c \in Seq(S) /\ r \in Seq(S)
  OBVIOUS
<1>2. Len(t) = 2 /\ t[1] = x /\ t[2] = p
  OBVIOUS
<1>3. Len(l) = 0 /\ Len(c) = 1 /\ c[1] = x /\ Len(r) = 1 /\ r[1] = p
  OBVIOUS
<1> HIDE DEF t, l, c, r, S
<1>4. Parts(t, l, c, r)
  BY <1>2, <1>3 DEF Parts
<1>5. split_edge_punctuation(t) = Cut(l, c, r)
  BY <1>1, <1>4, SplitIs
<1> QED
  BY <1>5 DEF t, l, c, r

LEMMA SplitFive ==
  ASSUME NEW p, NEW x, NEW q, NEW y, NEW r0, Edge(p), ~ Edge(x), ~ Edge(y), Edge(r0)
  PROVE  split_edge_punctuation(<<p, x, q, y, r0>>) = Cut(<<p>>, <<x, q, y>>, <<r0>>)
<1> DEFINE S == {p, x, q, y, r0}
           t == <<p, x, q, y, r0>>
           l == <<p>>
           c == <<x, q, y>>
           r == <<r0>>
<1>1. t \in Seq(S) /\ l \in Seq(S) /\ c \in Seq(S) /\ r \in Seq(S)
  OBVIOUS
<1>2. Len(t) = 5 /\ t[1] = p /\ t[2] = x /\ t[3] = q /\ t[4] = y /\ t[5] = r0
  OBVIOUS
<1>3. Len(c) = 3 /\ c[1] = x /\ c[2] = q /\ c[3] = y
  OBVIOUS
<1>4. Len(l) = 1 /\ l[1] = p /\ Len(r) = 1 /\ r[1] = r0
  OBVIOUS
<1> HIDE DEF t, l, c, r, S
<1>5. \A i \in 1 .. 3 : t[1 + i] = c[i]
  <2>1. \A i \in 1 .. 3 : i = 1 \/ i = 2 \/ i = 3
    OBVIOUS
  <2> QED
    BY <1>2, <1>3, <2>1
<1>6. Parts(t, l, c, r)
  BY <1>2, <1>3, <1>4, <1>5 DEF Parts
<1>7. split_edge_punctuation(t) = Cut(l, c, r)
  BY <1>1, <1>6, SplitIs
<1> QED
  BY <1>7 DEF t, l, c, r

LEMMA SplitEight ==
  ASSUME NEW x, NEW a, NEW b, NEW d, NEW e, NEW f, NEW y, NEW p, ~ Edge(x), ~ Edge(y), Edge(p)
  PROVE  split_edge_punctuation(<<x, a, b, d, e, f, y, p>>) = Cut(<<>>, <<x, a, b, d, e, f, y>>, <<p>>)
<1> DEFINE S == {x, a, b, d, e, f, y, p}
           t == <<x, a, b, d, e, f, y, p>>
           l == <<>>
           c == <<x, a, b, d, e, f, y>>
           r == <<p>>
<1>1. t \in Seq(S) /\ l \in Seq(S) /\ c \in Seq(S) /\ r \in Seq(S)
  OBVIOUS
<1>2. /\ Len(t) = 8 /\ t[1] = x /\ t[2] = a /\ t[3] = b /\ t[4] = d /\ t[5] = e /\ t[6] = f
      /\ t[7] = y /\ t[8] = p
  OBVIOUS
<1>3. /\ Len(c) = 7 /\ c[1] = x /\ c[2] = a /\ c[3] = b /\ c[4] = d /\ c[5] = e /\ c[6] = f
      /\ c[7] = y
  OBVIOUS
<1>4. Len(l) = 0 /\ Len(r) = 1 /\ r[1] = p
  OBVIOUS
<1> HIDE DEF t, l, c, r, S
<1>5. \A i \in 1 .. 7 : t[0 + i] = c[i]
  <2>1. \A i \in 1 .. 7 : i = 1 \/ i = 2 \/ i = 3 \/ i = 4 \/ i = 5 \/ i = 6 \/ i = 7
    OBVIOUS
  <2>2. \A i \in 1 .. 7 : 0 + i = i
    OBVIOUS
  <2> QED
    BY <1>2, <1>3, <2>1, <2>2
<1>6. Parts(t, l, c, r)
  BY <1>2, <1>3, <1>4, <1>5 DEF Parts
<1>7. split_edge_punctuation(t) = Cut(l, c, r)
  BY <1>1, <1>6, SplitIs
<1> QED
  BY <1>7 DEF t, l, c, r

-----------------------------------------------------------------------------
(* What is made of a core.                                                 *)
LEMMA StripOne ==
  ASSUME NEW x
  PROVE  strip_position_suffix(<<x>>) = <<x>>
<1>1. Len(<<x>>) = 1 /\ ~ (1 >= 3)
  OBVIOUS
<1>2. strip_one_position(<<x>>) = <<x>>
  BY <1>1 DEF strip_one_position
<1> QED
  BY <1>2 DEF strip_position_suffix

LEMMA NormalOne ==
  ASSUME NEW x, NEW previous, Kind(x) \in {"word", "decimal", "integer"},
         Kind(x) = "integer" => previous \notin {<<k>> : k \in POSITION_KEYWORDS}
  PROVE  normalize_core(<<x>>, previous) = <<x>>
<1>1. Len(<<x>>) = 1 /\ <<x>>[1] = x
  OBVIOUS
<1>2. ~ is_one(<<x>>, {"duration"})
  BY <1>1 DEF is_one
<1>3. is_one(<<x>>, {"integer"}) => Kind(x) = "integer"
  BY <1>1 DEF is_one
<1>4. Kind(<<x>>[1]) # "absolute"
  BY <1>1
<1> QED
  BY <1>2, <1>3, <1>4, StripOne DEF normalize_core

LEMMA NormalWord ==
  ASSUME NEW x, Kind(x) = "word"
  PROVE  \A previous : normalize_core(<<x>>, previous) = <<x>>
<1>1. Len(<<x>>) = 1 /\ <<x>>[1] = x
  OBVIOUS
<1>2. ~ is_one(<<x>>, {"duration"}) /\ ~ is_one(<<x>>, {"integer"})
  BY <1>1 DEF is_one
<1>3. Kind(<<x>>[1]) # "absolute"
  BY <1>1
<1> QED
  BY <1>2, <1>3, StripOne DEF normalize_core

LEMMA NormalPosition ==
  ASSUME NEW x, NEW k \in POSITION_KEYWORDS, Kind(x) = "integer"
  PROVE  normalize_core(<<x>>, <<k>>) = <<"<n>">>
<1>1. Len(<<x>>) = 1 /\ <<x>>[1] = x
  OBVIOUS
<1>2. is_one(<<x>>, {"integer"}) /\ ~ is_one(<<x>>, {"duration"})
  BY <1>1 DEF is_one
<1>3. Kind(<<x>>[1]) # "absolute"
  BY <1>1
<1> QED
  BY <1>2, <1>3, StripOne DEF normalize_core

LEMMA NormalDuration ==
  ASSUME NEW x, NEW previous, Kind(x) = "duration"
  PROVE  normalize_core(<<x>>, previous) = <<"<dur>">>
<1>1. Len(<<x>>) = 1 /\ <<x>>[1] = x
  OBVIOUS
<1>2. is_one(<<x>>, {"duration"})
  BY <1>1 DEF is_one
<1>3. Kind(<<x>>[1]) # "absolute"
  BY <1>1
<1> QED
  BY <1>2, <1>3, StripOne DEF normalize_core

LEMMA NormalRelative ==
  ASSUME NEW x, NEW y, NEW previous, Kind(x) = "word", Kind(y) = "integer"
  PROVE  normalize_core(<<x, ":", y>>, previous) = <<x>>
<1> DEFINE c == <<x, ":", y>>
<1>0. PICK q : q = ":"
  OBVIOUS
<1>1. c = <<x, q, y>> /\ c \in Seq({x, q, y}) /\ Len(c) = 3 /\ c[1] = x /\ c[2] = q /\ c[3] = y
  BY <1>0
<1> HIDE DEF c
<1>2. SubSeq(c, 1, 1) = <<x>>
  <2> DEFINE u == <<x>>
  <2>1. u \in Seq({x, q, y}) /\ Len(u) = 1 - 1 + 1
    OBVIOUS
  <2>2. \A i \in 1 .. Len(u) : c[1 + i - 1] = u[i]
    BY <1>1
  <2>3. 1 \in 1 .. Len(c) + 1 /\ 1 \in 0 .. Len(c)
    BY <1>1
  <2>4. SubSeq(c, 1, 1) = u
    <3> DEFINE S == {x, q, y}
    <3>1. c \in Seq(S) /\ u \in Seq(S)
      BY <1>1, <2>1
    <3> HIDE DEF S, u
    <3> QED
      BY <2>1, <2>2, <2>3, <3>1, SubSeqIs
  <2> QED
    BY <2>4
<1>3. strip_one_position(c) = <<x>>
  BY <1>0, <1>1, <1>2 DEF strip_one_position
<1>4. strip_one_position(<<x>>) = <<x>>
  BY DEF strip_one_position
<1>5. strip_position_suffix(c) = <<x>>
  BY <1>3, <1>4 DEF strip_position_suffix
<1>6. Len(<<x>>) = 1 /\ <<x>>[1] = x
  OBVIOUS
<1>7. ~ is_one(<<x>>, {"duration"}) /\ ~ is_one(<<x>>, {"integer"})
  BY <1>6 DEF is_one
<1>8. Kind(<<x>>[1]) # "absolute"
  BY <1>6
<1> QED
  BY <1>5, <1>7, <1>8 DEF normalize_core, c

(* However much of the positions is stripped, the path stays in front.     *)
LEMMA StripKeeps ==
  ASSUME NEW S, NEW c \in Seq(S), c # <<>>
  PROVE  LET d == strip_one_position(c) IN d \in Seq(S) /\ d # <<>> /\ d[1] = c[1]
<1> DEFINE d == SubSeq(c, 1, Len(c) - 2)
<1>1. ASSUME Len(c) >= 3
      PROVE  d \in Seq(S) /\ d # <<>> /\ d[1] = c[1]
  <2>1. Len(c) \in Nat
    OBVIOUS
  <2>2. \A i \in 1 .. Len(c) - 2 : c[i] \in S
    BY <2>1
  <2>3. /\ d \in Seq(S) /\ Len(d) = Len(c) - 2
        /\ \A i \in 1 .. (Len(c) - 2) - 1 + 1 : d[i] = c[1 + i - 1]
    <3>1. 1 \in Int /\ Len(c) - 2 \in Int /\ 1 <= Len(c) - 2
      BY <1>1, <2>1
    <3>2. (Len(c) - 2) - 1 + 1 = Len(c) - 2
      BY <2>1
    <3> QED
      BY <2>2, <3>1, <3>2, SubSeqProperties
  <2>4. d[1] = c[1]
    BY <1>1, <2>1, <2>3
  <2>5. d # <<>>
    <3>1. Len(d) # 0
      BY <1>1, <2>1, <2>3
    <3> HIDE DEF d
    <3> QED
      BY <3>1
  <2> QED
    BY <2>3, <2>4, <2>5
<1>2. strip_one_position(c) \in {c, d} /\ (strip_one_position(c) # c => Len(c) >= 3)
  BY DEF strip_one_position
<1> HIDE DEF d
<1> QED
  BY <1>1, <1>2

LEMMA NormalAbsolute ==
  ASSUME NEW S, NEW c \in Seq(S), c # <<>>, NEW previous, Kind(c[1]) = "absolute"
  PROVE  normalize_core(c, previous) = <<"<path>">>
<1>1. PICK d : d = strip_one_position(c) /\ d \in Seq(S) /\ d # <<>> /\ d[1] = c[1]
  BY StripKeeps
<1>2. PICK e : e = strip_one_position(d) /\ e # <<>> /\ e[1] = d[1]
  BY <1>1, StripKeeps
<1>3. strip_position_suffix(c) = e
  BY <1>1, <1>2 DEF strip_position_suffix
<1> QED
  BY <1>1, <1>2, <1>3 DEF normalize_core

-----------------------------------------------------------------------------
(* The pieces messages are made of, in every world.                        *)
Pieces ==
  {",", ".", ":", "(", ")", "/", "line", "column", "ms", "<path>", "<n>", "<dur>"}
  \cup {w.root : w \in Worlds} \cup {w.line : w \in Worlds} \cup {w.took : w \in Worlds}
  \cup {w.ran : w \in Worlds}
  \cup UNION {{f.items[i].text : i \in DOMAIN f.items} : f \in Findings}
Tokens == Seq(Pieces)
Kept == [leading : Tokens, core : Tokens, trailing : Tokens]
Text(t) == t.leading \o t.core \o t.trailing

LEMMA KeptIs ==
  ASSUME NEW l \in Tokens, NEW c \in Tokens, NEW r \in Tokens
  PROVE  /\ Cut(l, c, r) \in Kept
         /\ Text(Cut(l, c, r)) = l \o c \o r
BY DEF Cut, Kept, Text

LEMMA SplitExcept ==
  ASSUME NEW x, NEW r
  PROVE  [Cut(<<>>, <<x>>, <<>>) EXCEPT !.core = <<"<dur>">>, !.trailing = r] = Cut(<<>>, <<"<dur>">>, r)
<1> DEFINE none == <<>>
           one == <<x>>
           dur == <<"<dur>">>
<1> HIDE DEF none, one, dur
<1>1. [Cut(none, one, none) EXCEPT !.core = dur] = Cut(none, dur, none)
  BY DEF Cut
<1>2. [Cut(none, dur, none) EXCEPT !.trailing = r] = Cut(none, dur, r)
  BY DEF Cut
<1>3. [Cut(none, one, none) EXCEPT !.core = dur, !.trailing = r]
        = [[Cut(none, one, none) EXCEPT !.core = dur] EXCEPT !.trailing = r]
  BY DEF Cut
<1>4. [Cut(none, one, none) EXCEPT !.core = dur, !.trailing = r] = Cut(none, dur, r)
  BY <1>1, <1>2, <1>3
<1> QED
  BY <1>4 DEF none, one, dur

LEMMA TextIs == ASSUME NEW t \in Kept PROVE Text(t) \in Tokens
<1>1. PICK l \in Tokens, c \in Tokens, r \in Tokens : Text(t) = l \o c \o r
  BY DEF Kept, Text
<1>2. l \o c \o r \in Seq(Pieces)
  BY DEF Tokens
<1> QED
  BY <1>1, <1>2 DEF Tokens

LEMMA AppendIs ==
  ASSUME NEW S, NEW s \in Seq(S), NEW x \in S
  PROVE  /\ Append(s, x) \in Seq(S) /\ Len(Append(s, x)) = Len(s) + 1
         /\ \A i \in 1 .. Len(s) : Append(s, x)[i] = s[i]
         /\ Append(s, x)[Len(s) + 1] = x
         /\ Append(s, x) = s \o <<x>>
<1>1. Len(s) \in Nat /\ Append(s, x) \in Seq(S) /\ Len(Append(s, x)) = Len(s) + 1
  OBVIOUS
<1>2. (\A i \in 1 .. Len(s) : Append(s, x)[i] = s[i]) /\ Append(s, x)[Len(s) + 1] = x
  OBVIOUS
<1>3. Append(s, x) = s \o <<x>>
  BY AppendIsConcat
<1> QED
  BY <1>1, <1>2, <1>3

LEMMA AppendEnds ==
  ASSUME NEW S, NEW s \in Seq(S), NEW x \in S
  PROVE  Append(s, x) # <<>> /\ Last(Append(s, x)) = x /\ Front(Append(s, x)) = s
<1> DEFINE t == Append(s, x)
<1>1. Len(s) \in Nat /\ t \in Seq(S) /\ Len(t) = Len(s) + 1
  OBVIOUS
<1>2. (\A i \in 1 .. Len(s) : t[i] = s[i]) /\ t[Len(s) + 1] = x
  OBVIOUS
<1> HIDE DEF t
<1>4. t # <<>>
  BY <1>1
<1>5. Last(t) = x
  BY <1>1, <1>2 DEF Last
<1>6. Front(t) = s
  <2>1. /\ 1 \in 1 .. Len(t) + 1 /\ Len(t) - 1 \in 0 .. Len(t) /\ Len(s) = (Len(t) - 1) - 1 + 1
        /\ \A i \in 1 .. Len(s) : 1 + i - 1 = i
    BY <1>1
  <2>2. \A i \in 1 .. Len(s) : t[1 + i - 1] = s[i]
    BY <1>2, <2>1
  <2> QED
    BY <1>1, <2>1, <2>2, SubSeqIs DEF Front
<1> QED
  BY <1>4, <1>5, <1>6 DEF t

LEMMA RenderingIs ==
  ASSUME NEW ts \in Seq(Kept)
  PROVE  Rendering(ts) \in Seq(Tokens) /\ Len(Rendering(ts)) = Len(ts)
         /\ \A i \in 1 .. Len(ts) : Rendering(ts)[i] = Text(ts[i])
<1>1. DOMAIN ts = 1 .. Len(ts) /\ Len(ts) \in Nat /\ \A i \in 1 .. Len(ts) : ts[i] \in Kept
  OBVIOUS
<1>2. \A i \in 1 .. Len(ts) : Text(ts[i]) \in Tokens
  BY <1>1, TextIs
<1>3. Rendering(ts) = [i \in 1 .. Len(ts) |-> Text(ts[i])]
  BY <1>1 DEF Rendering, Text
<1> QED
  BY <1>1, <1>2, <1>3

LEMMA RenderingAppend ==
  ASSUME NEW ts \in Seq(Kept), NEW t \in Kept
  PROVE  Rendering(Append(ts, t)) = Rendering(ts) \o <<Text(t)>>
<1> DEFINE more == Append(ts, t)
           a == Rendering(more)
           b == Append(Rendering(ts), Text(t))
           N == Len(ts)
<1>1. /\ N \in Nat /\ more \in Seq(Kept) /\ Len(more) = N + 1 /\ more[N + 1] = t
      /\ \A i \in 1 .. N : more[i] = ts[i]
  BY AppendIs
<1>2. /\ a \in Seq(Tokens) /\ Len(a) = N + 1 /\ \A i \in 1 .. N + 1 : a[i] = Text(more[i])
  <2> HIDE DEF more
  <2> QED
    BY <1>1, RenderingIs
<1>3. /\ Rendering(ts) \in Seq(Tokens) /\ Len(Rendering(ts)) = N
      /\ \A i \in 1 .. N : Rendering(ts)[i] = Text(ts[i])
  BY RenderingIs
<1>4. /\ b \in Seq(Tokens) /\ Len(b) = N + 1 /\ b[N + 1] = Text(t)
      /\ \A i \in 1 .. N : b[i] = Rendering(ts)[i]
      /\ b = Rendering(ts) \o <<Text(t)>>
  BY <1>3, TextIs, AppendIs
<1> HIDE DEF a, b, more, N
<1>5. \A i \in 1 .. N + 1 : a[i] = b[i]
  <2> SUFFICES ASSUME NEW i \in 1 .. N + 1 PROVE a[i] = b[i]
    OBVIOUS
  <2>1. CASE i = N + 1
    BY <1>1, <1>2, <1>4, <2>1
  <2>2. CASE i # N + 1
    <3>1. i \in 1 .. N
      BY <1>1, <2>2
    <3> QED
      BY <1>1, <1>2, <1>3, <1>4, <3>1
  <2> QED
    BY <2>1, <2>2
<1>6. a = b
  BY <1>2, <1>4, <1>5, SeqEqual
<1> QED
  BY <1>4, <1>6 DEF a, b, more

-----------------------------------------------------------------------------
(* What a state may do to the token after.                                 *)
Keyword(core) == core \in {<<k>> : k \in POSITION_KEYWORDS}
Unit(core) == core \in {<<u>> : u \in DURATION_UNIT_WORDS}
Number(tokens) ==
  tokens # <<>> /\ Last(tokens).trailing = <<>> /\ is_one(Last(tokens).core, {"integer", "decimal"})

(* A raw token, after one whose core was made previous.                    *)
Makes(raw, previous, l, d, r) ==
  \E c : split_edge_punctuation(raw) = Cut(l, c, r) /\ normalize_core(c, previous) = d

(* After the tokens m, both passes are at st and have made form of them.   *)
At(m, st, form) ==
  /\ m \in Seq(Tokens) /\ Reaches(m, st)
  /\ st.tokens \in Seq(Kept) /\ Rendering(st.tokens) = form

State(core, tokens) == [core |-> core, tokens |-> tokens]

LEMMA AtAppended ==
  ASSUME NEW m, NEW st, NEW form, At(m, st, form),
         NEW raw \in Tokens, NEW l \in Tokens, NEW d \in Tokens, NEW r \in Tokens,
         Makes(raw, st.core, l, d, r),
         ~ (l = <<>> /\ Unit(d) /\ Number(st.tokens))
  PROVE  /\ At(m \o <<raw>>, State(d, Append(st.tokens, Cut(l, d, r))), form \o <<l \o d \o r>>)
         /\ Number(Append(st.tokens, Cut(l, d, r))) <=> r = <<>> /\ is_one(d, {"integer", "decimal"})
<1> DEFINE ts == st.tokens
           t == Cut(l, d, r)
<1>0. PICK c : split_edge_punctuation(raw) = Cut(l, c, r) /\ normalize_core(c, st.core) = d
  BY DEF Makes
<1>1. m \in Seq(Tokens) /\ Reaches(m, st) /\ ts \in Seq(Kept) /\ Rendering(ts) = form
  BY DEF At
<1>2. t \in Kept /\ t.leading = l /\ t.core = d /\ t.trailing = r /\ Text(t) = l \o d \o r
  <2>1. t \in Kept /\ Text(t) = l \o d \o r
    BY KeptIs
  <2>2. t.leading = l /\ t.core = d /\ t.trailing = r
    BY DEF Cut
  <2> QED
    BY <2>1, <2>2
<1>3. [Cut(l, c, r) EXCEPT !.core = d] = t
  BY DEF Cut
<1>4. Cut(l, c, r).core = c
  BY DEF Cut
<1> HIDE DEF t
<1>5. Folded(ts, t) = Append(ts, t)
  BY <1>2 DEF Folded, Unit, Number
<1>6. OneToken(st, raw) = State(d, Append(ts, t))
  BY <1>0, <1>3, <1>4, <1>5 DEF OneToken, State
<1>7. m \o <<raw>> \in Seq(Tokens)
  BY <1>1
<1>8. Reaches(m \o <<raw>>, State(d, Append(ts, t)))
  BY <1>1, <1>6, GoesOn
<1>9. Append(ts, t) \in Seq(Kept) /\ Append(ts, t) # <<>> /\ Last(Append(ts, t)) = t
  <2>1. PICK s \in Seq(Kept) : s = ts
    BY <1>1
  <2>2. Append(s, t) \in Seq(Kept)
    BY <1>2
  <2>3. Append(s, t) # <<>> /\ Last(Append(s, t)) = t
    BY <1>2, AppendEnds
  <2> QED
    BY <2>1, <2>2, <2>3
<1>10. Rendering(Append(ts, t)) = form \o <<l \o d \o r>>
  BY <1>1, <1>2, RenderingAppend
<1>11. At(m \o <<raw>>, State(d, Append(ts, t)), form \o <<l \o d \o r>>)
  BY <1>7, <1>8, <1>9, <1>10 DEF At, State
<1>12. Number(Append(ts, t)) <=> r = <<>> /\ is_one(d, {"integer", "decimal"})
  BY <1>2, <1>9 DEF Number
<1> QED
  BY <1>11, <1>12 DEF t

(* raw comes right after a number.                                         *)
MakesAfterNumber(m, ts, raw, d, r) ==
  \E x \in Pieces : \E core, form :
    /\ Kind(x) \in {"integer", "decimal"}
    /\ At(m, State(core, Append(ts, Cut(<<>>, <<x>>, <<>>))), form)
    /\ Makes(raw, core, <<>>, d, r)

LEMMA AtFolded ==
  ASSUME NEW m, NEW ts \in Seq(Kept), NEW raw \in Tokens, NEW d, NEW r \in Tokens,
         MakesAfterNumber(m, ts, raw, d, r), Unit(d), r # <<>>
  PROVE  LET t == Cut(<<>>, <<"<dur>">>, r)
         IN  /\ At(m \o <<raw>>, State(d, Append(ts, t)), Rendering(ts) \o <<<<"<dur>">> \o r>>)
             /\ ~ Number(Append(ts, t))
<1> PICK x \in Pieces : \E core, form :
      /\ Kind(x) \in {"integer", "decimal"}
      /\ At(m, State(core, Append(ts, Cut(<<>>, <<x>>, <<>>))), form)
      /\ Makes(raw, core, <<>>, d, r)
  BY DEF MakesAfterNumber
<1> PICK core, form :
      /\ Kind(x) \in {"integer", "decimal"}
      /\ At(m, State(core, Append(ts, Cut(<<>>, <<x>>, <<>>))), form)
      /\ Makes(raw, core, <<>>, d, r)
  OBVIOUS
<1> DEFINE number == Cut(<<>>, <<x>>, <<>>)
           t == Cut(<<>>, <<"<dur>">>, r)
           before == Append(ts, number)
           st == State(core, before)
<1> PICK c : split_edge_punctuation(raw) = Cut(<<>>, c, r) /\ normalize_core(c, core) = d
  BY DEF Makes
<1>0. <<>> \in Tokens /\ <<x>> \in Tokens /\ <<"<dur>">> \in Tokens
  <2>1. "<dur>" \in Pieces
    BY DEF Pieces
  <2> QED
    BY <2>1 DEF Tokens
<1>1. /\ number \in Kept /\ number.trailing = <<>> /\ number.core = <<x>>
      /\ t \in Kept /\ t.core = <<"<dur>">> /\ t.trailing = r
      /\ Text(t) = <<>> \o <<"<dur>">> \o r
  <2>1. number \in Kept
    BY <1>0, KeptIs
  <2>2. t \in Kept /\ Text(t) = <<>> \o <<"<dur>">> \o r
    <3>1. PICK dur \in Tokens : dur = <<"<dur>">>
      BY <1>0
    <3> QED
      BY <1>0, <3>1, KeptIs
  <2>3. number.trailing = <<>> /\ number.core = <<x>>
    BY DEF Cut
  <2>4. t.core = <<"<dur>">> /\ t.trailing = r
    BY DEF Cut
  <2> QED
    BY <2>1, <2>2, <2>3, <2>4
<1>2. Text(t) = <<"<dur>">> \o r
  <2>1. <<>> \o <<"<dur>">> = <<"<dur>">>
    BY <1>0, ConcatEmptySeq DEF Tokens
  <2> QED
    BY <1>1, <2>1
<1>3. [number EXCEPT !.core = <<"<dur>">>, !.trailing = r] = t
  BY SplitExcept
<1>4. /\ [Cut(<<>>, c, r) EXCEPT !.core = d] = Cut(<<>>, d, r)
      /\ Cut(<<>>, c, r).core = c
      /\ Cut(<<>>, d, r).leading = <<>> /\ Cut(<<>>, d, r).core = d /\ Cut(<<>>, d, r).trailing = r
  <2>1. [Cut(<<>>, c, r) EXCEPT !.core = d] = Cut(<<>>, d, r)
    BY DEF Cut
  <2>2. Cut(<<>>, c, r).core = c
    BY DEF Cut
  <2>3. /\ Cut(<<>>, d, r).leading = <<>> /\ Cut(<<>>, d, r).core = d
        /\ Cut(<<>>, d, r).trailing = r
    BY DEF Cut
  <2> QED
    BY <2>1, <2>2, <2>3
<1>5. is_one(<<x>>, {"integer", "decimal"})
  <2>1. Len(<<x>>) = 1 /\ <<x>>[1] = x
    OBVIOUS
  <2> QED
    BY <2>1 DEF is_one
<1> HIDE DEF number, t
<1>6. before # <<>> /\ Last(before) = number /\ Front(before) = ts
  BY <1>1, AppendEnds
<1>7. st.core = core /\ st.tokens = before
  BY DEF State
<1> HIDE DEF before, st
<1>8. Folded(before, Cut(<<>>, d, r)) = Append(ts, t)
  BY <1>1, <1>3, <1>4, <1>5, <1>6 DEF Folded, Unit
<1>9. OneToken(st, raw) = State(d, Append(ts, t))
  BY <1>4, <1>7, <1>8 DEF OneToken, State
<1>10. m \in Seq(Tokens) /\ Reaches(m, st)
  BY DEF At, st, before, number
<1>11. m \o <<raw>> \in Seq(Tokens)
  BY <1>10
<1>12. Reaches(m \o <<raw>>, State(d, Append(ts, t)))
  BY <1>9, <1>10, GoesOn
<1>13. Append(ts, t) \in Seq(Kept) /\ Last(Append(ts, t)) = t
  BY <1>1, AppendEnds
<1>14. Rendering(Append(ts, t)) = Rendering(ts) \o <<<<"<dur>">> \o r>>
  BY <1>1, <1>2, RenderingAppend
<1>15. At(m \o <<raw>>, State(d, Append(ts, t)), Rendering(ts) \o <<<<"<dur>">> \o r>>)
  BY <1>11, <1>12, <1>13, <1>14 DEF At, State
<1>16. ~ Number(Append(ts, t))
  BY <1>1, <1>13 DEF Number
<1> QED
  BY <1>15, <1>16 DEF t

-----------------------------------------------------------------------------
(* One item of a message further.                                          *)
LEMMA Pairs ==
  ASSUME NEW S, NEW s \in Seq(S), NEW a \in S, NEW b \in S
  PROVE  (s \o <<a>>) \o <<b>> = s \o <<a, b>>
<1> DEFINE u == <<a>>
           v == <<b>>
           t == <<a, b>>
<1>1. u \in Seq(S) /\ v \in Seq(S) /\ t \in Seq(S)
  OBVIOUS
<1>2. Len(u) = 1 /\ u[1] = a /\ Len(v) = 1 /\ v[1] = b /\ Len(t) = 2 /\ t[1] = a /\ t[2] = b
  OBVIOUS
<1> HIDE DEF u, v, t
<1>3. /\ u \o v \in Seq(S) /\ Len(u \o v) = 2
      /\ \A i \in 1 .. 2 : (u \o v)[i] = IF i <= 1 THEN u[i] ELSE v[i - 1]
  <2>1. /\ u \o v \in Seq(S) /\ Len(u \o v) = Len(u) + Len(v)
        /\ \A i \in 1 .. Len(u) + Len(v) : (u \o v)[i] = IF i <= Len(u) THEN u[i] ELSE v[i - Len(u)]
    BY <1>1, ConcatProperties
  <2> QED
    BY <1>2, <2>1
<1>4. \A i \in 1 .. 2 : i = 1 \/ i = 2
  OBVIOUS
<1>5. \A i \in 1 .. 2 : (u \o v)[i] = t[i]
  BY <1>2, <1>3, <1>4
<1>6. u \o v = t
  BY <1>1, <1>2, <1>3, <1>5, SeqEqual
<1>7. (s \o u) \o v = s \o (u \o v)
  BY <1>1, ConcatAssociative
<1>8. (s \o u) \o v = s \o t
  BY <1>6, <1>7
<1> QED
  BY <1>8 DEF u, v, t

LEMMA TokensAre ==
  /\ <<>> \in Tokens
  /\ \A x \in Pieces : <<x>> \in Tokens
  /\ \A x, y \in Pieces : <<x, y>> \in Tokens
BY DEF Tokens

LEMMA PairOfTokens ==
  ASSUME NEW s \in Seq(Tokens), NEW a \in Tokens, NEW b \in Tokens
  PROVE  (s \o <<a>>) \o <<b>> = s \o <<a, b>>
BY Pairs

(* The solvers take sequences apart on sight: a name keeps them whole.     *)
Four(s, a, b, c, d) == (((s \o <<a>>) \o <<b>>) \o <<c>>) \o <<d>> = s \o <<a, b, c, d>>

LEMMA FourTokens ==
  ASSUME NEW s \in Seq(Tokens), NEW a \in Tokens, NEW b \in Tokens, NEW c \in Tokens, NEW d \in Tokens
  PROVE  Four(s, a, b, c, d)
<1> DEFINE u == <<a, b>>
           v == <<c, d>>
           t == <<a, b, c, d>>
<1>0. u \in Seq(Tokens) /\ v \in Seq(Tokens) /\ t \in Seq(Tokens)
  OBVIOUS
<1>1. <<a, b>> \in Seq(Tokens) /\ <<c, d>> \in Seq(Tokens) /\ <<a, b>> \o <<c, d>> = <<a, b, c, d>>
  <2>1. Len(u) = 2 /\ u[1] = a /\ u[2] = b /\ Len(v) = 2 /\ v[1] = c /\ v[2] = d
    OBVIOUS
  <2>2. Len(t) = 4 /\ t[1] = a /\ t[2] = b /\ t[3] = c /\ t[4] = d
    OBVIOUS
  <2> HIDE DEF u, v, t
  <2>3. /\ u \o v \in Seq(Tokens) /\ Len(u \o v) = 4
        /\ \A i \in 1 .. 4 : (u \o v)[i] = IF i <= 2 THEN u[i] ELSE v[i - 2]
    <3>1. /\ u \o v \in Seq(Tokens) /\ Len(u \o v) = Len(u) + Len(v)
          /\ \A i \in 1 .. Len(u) + Len(v) : (u \o v)[i] = IF i <= Len(u) THEN u[i] ELSE v[i - Len(u)]
      BY <1>0, ConcatProperties
    <3> QED
      BY <2>1, <3>1
  <2>4. \A i \in 1 .. 4 : i = 1 \/ i = 2 \/ i = 3 \/ i = 4
    OBVIOUS
  <2>5. \A i \in 1 .. 4 : (u \o v)[i] = t[i]
    BY <2>1, <2>2, <2>3, <2>4
  <2>6. u \o v = t
    BY <1>0, <2>2, <2>3, <2>5, SeqEqual
  <2> QED
    BY <1>0, <2>6 DEF u, v, t
<1>2. s \o <<a, b>> \in Seq(Tokens)
  <2> HIDE DEF u
  <2>1. s \o u \in Seq(Tokens)
    BY <1>0
  <2> QED
    BY <2>1 DEF u
<1>3. ((s \o <<a, b>>) \o <<c>>) \o <<d>> = (s \o <<a, b>>) \o <<c, d>>
  <2>1. PICK t0 \in Seq(Tokens) : t0 = s \o <<a, b>>
    BY <1>2
  <2>2. (t0 \o <<c>>) \o <<d>> = t0 \o <<c, d>>
    BY PairOfTokens
  <2> QED
    BY <2>1, <2>2
<1>4. (s \o <<a, b>>) \o <<c, d>> = s \o (<<a, b>> \o <<c, d>>)
  BY <1>1, ConcatAssociative
<1>5. (s \o <<a>>) \o <<b>> = s \o <<a, b>>
  BY PairOfTokens
<1> HIDE DEF t, u, v
<1> QED
  BY <1>1, <1>3, <1>4, <1>5 DEF Four

LEMMA Singles ==
  ASSUME NEW x \in Pieces
  PROVE  /\ <<x>> \in Tokens /\ <<>> \in Tokens
         /\ <<>> \o <<x>> \o <<>> = <<x>>
         /\ Len(<<x>>) = 1 /\ <<x>>[1] = x /\ Len(<<>>) = 0
         /\ Keyword(<<x>>) <=> x \in POSITION_KEYWORDS
         /\ Unit(<<x>>) <=> x \in DURATION_UNIT_WORDS
         /\ \A kinds : is_one(<<x>>, kinds) <=> Kind(x) \in kinds
<1>1. <<x>> \in Tokens /\ <<>> \in Tokens
  BY DEF Tokens
<1>2. Len(<<x>>) = 1 /\ <<x>>[1] = x /\ Len(<<>>) = 0
  OBVIOUS
<1>3. <<>> \o <<x>> \o <<>> = <<x>>
  BY <1>1, ConcatEmptySeq DEF Tokens
<1>4. \A y : <<x>> = <<y>> <=> x = y
  OBVIOUS
<1>5. Keyword(<<x>>) <=> x \in POSITION_KEYWORDS
  BY <1>4 DEF Keyword
<1>6. Unit(<<x>>) <=> x \in DURATION_UNIT_WORDS
  BY <1>4 DEF Unit
<1>7. \A kinds : is_one(<<x>>, kinds) <=> Kind(x) \in kinds
  BY <1>2 DEF is_one
<1> QED
  BY <1>1, <1>2, <1>3, <1>5, <1>6, <1>7

LEMMA KindsAre ==
  /\ \A x : Edge(x) <=> Kind(x) = "punctuation"
  /\ \A p \in {",", ".", ":", "(", ")"} : p \in Pieces /\ Edge(p)
  /\ \A p \in {"/", "<path>", "<n>", "<dur>", "line", "column", "ms"} : p \in Pieces /\ Kind(p) = "word"
  /\ \A w \in Worlds :
       /\ w.root \in Pieces /\ w.line \in Pieces /\ w.took \in Pieces /\ w.ran \in Pieces
       /\ Kind(w.root) = "absolute" /\ Kind(w.line) = "integer"
       /\ Kind(w.took) \in {"integer", "decimal"} /\ Kind(w.ran) = "duration"
  /\ POSITION_KEYWORDS = {"line", "column"} /\ "ms" \in DURATION_UNIT_WORDS
  /\ \A u \in DURATION_UNIT_WORDS \cup POSITION_KEYWORDS : Kind(u) = "word"
  /\ {"<n>", "<dur>", "<path>", "ms"} \cap POSITION_KEYWORDS = {}
  /\ {"<n>", "<dur>", "line", "column", "<path>"} \cap DURATION_UNIT_WORDS = {}
<1>1. \A x : Edge(x) <=> Kind(x) = "punctuation"
  BY DEF Edge
<1>2. \A p \in {",", ".", ":", "(", ")", "/", "<path>", "<n>", "<dur>", "line", "column", "ms"} : p \in Pieces
  BY DEF Pieces
<1>3. \A w \in Worlds : w.root \in Pieces /\ w.line \in Pieces /\ w.took \in Pieces /\ w.ran \in Pieces
  BY DEF Pieces
<1>4. POSITION_KEYWORDS = {"line", "column"} /\ DURATION_UNIT_WORDS = {"ms", "seconds"}
  BY DEF POSITION_KEYWORDS, DURATION_UNIT_WORDS
<1>5. /\ \A p \in {",", ".", ":", "(", ")"} : Kind(p) = "punctuation"
      /\ \A p \in {"/", "<path>", "<n>", "<dur>"} \cup POSITION_KEYWORDS \cup DURATION_UNIT_WORDS :
           Kind(p) = "word"
      /\ \A w \in Worlds : /\ Kind(w.root) = "absolute" /\ Kind(w.line) = "integer"
                           /\ Kind(w.took) \in {"integer", "decimal"} /\ Kind(w.ran) = "duration"
  BY IdAssumption DEF IdAssumption
<1>6. /\ \A p \in {",", ".", ":", "(", ")"} : p \in Pieces /\ Edge(p)
      /\ \A p \in {"/", "<path>", "<n>", "<dur>", "line", "column", "ms"} : p \in Pieces /\ Kind(p) = "word"
  BY <1>1, <1>2, <1>4, <1>5
<1> QED
  BY <1>1, <1>3, <1>4, <1>5, <1>6

(* A word, or a number that stays.                                         *)
LEMMA AtWord ==
  ASSUME NEW m, NEW st, NEW form, At(m, st, form), NEW x \in Pieces,
         Kind(x) \in {"word", "decimal", "integer"}, Kind(x) = "integer" => ~ Keyword(st.core),
         x \in DURATION_UNIT_WORDS => ~ Number(st.tokens)
  PROVE  LET tokens == Append(st.tokens, Cut(<<>>, <<x>>, <<>>))
         IN  /\ At(m \o <<<<x>>>>, State(<<x>>, tokens), form \o <<<<x>>>>)
             /\ Number(tokens) <=> Kind(x) \in {"integer", "decimal"}
<1>1. ~ Edge(x)
  BY KindsAre
<1>2. split_edge_punctuation(<<x>>) = Cut(<<>>, <<x>>, <<>>)
  BY <1>1, SplitOne
<1>3. normalize_core(<<x>>, st.core) = <<x>>
  <2>1. PICK previous : previous = st.core
    OBVIOUS
  <2>2. Kind(x) = "integer" => previous \notin {<<k>> : k \in POSITION_KEYWORDS}
    BY <2>1 DEF Keyword
  <2>3. normalize_core(<<x>>, previous) = <<x>>
    BY <2>2, NormalOne
  <2> QED
    BY <2>1, <2>3
<1>4. /\ <<x>> \in Tokens /\ <<>> \in Tokens /\ <<>> \o <<x>> \o <<>> = <<x>>
      /\ Unit(<<x>>) <=> x \in DURATION_UNIT_WORDS
      /\ is_one(<<x>>, {"integer", "decimal"}) <=> Kind(x) \in {"integer", "decimal"}
  BY Singles
<1>5. ~ (<<>> = <<>> /\ Unit(<<x>>) /\ Number(st.tokens))
  BY <1>4
<1> DEFINE none == <<>>
           one == <<x>>
           tokens == Append(st.tokens, Cut(none, one, none))
<1>6. none \in Tokens /\ one \in Tokens
  BY <1>4
<1>7. Makes(one, st.core, none, one, none) /\ ~ (none = <<>> /\ Unit(one) /\ Number(st.tokens))
  BY <1>2, <1>3, <1>5 DEF Makes
<1>8. /\ none \o one \o none = one /\ none = <<>>
      /\ is_one(one, {"integer", "decimal"}) <=> Kind(x) \in {"integer", "decimal"}
  BY <1>4
<1> HIDE DEF none, one
<1>9. /\ At(m \o <<one>>, State(one, tokens), form \o <<none \o one \o none>>)
      /\ Number(tokens) <=> none = <<>> /\ is_one(one, {"integer", "decimal"})
  BY <1>6, <1>7, AtAppended
<1> QED
  BY <1>8, <1>9 DEF none, one

(* A piece that becomes a mark, whatever it is, before punctuation or not. *)
LEMMA AtMark ==
  ASSUME NEW m, NEW st, NEW form, At(m, st, form), NEW raw \in Tokens, NEW x \in Pieces, NEW r \in Tokens,
         Kind(x) = "word", x \notin DURATION_UNIT_WORDS, Makes(raw, st.core, <<>>, <<x>>, r)
  PROVE  LET tokens == Append(st.tokens, Cut(<<>>, <<x>>, r))
         IN  At(m \o <<raw>>, State(<<x>>, tokens), form \o <<<<x>> \o r>>) /\ ~ Number(tokens)
<1>1. /\ <<x>> \in Tokens /\ <<>> \in Tokens
      /\ ~ Unit(<<x>>) /\ ~ is_one(<<x>>, {"integer", "decimal"})
  BY Singles
<1> DEFINE none == <<>>
           one == <<x>>
           tokens == Append(st.tokens, Cut(none, one, r))
<1>2. none \o one \o r = one \o r
  <2>1. none \o one = one
    BY <1>1, ConcatEmptySeq DEF Tokens
  <2> QED
    BY <2>1
<1>3. /\ none \in Tokens /\ one \in Tokens /\ ~ Unit(one) /\ ~ is_one(one, {"integer", "decimal"})
      /\ Makes(raw, st.core, none, one, r)
      /\ ~ (none = <<>> /\ Unit(one) /\ Number(st.tokens))
  BY <1>1
<1> HIDE DEF none, one
<1>4. /\ At(m \o <<raw>>, State(one, tokens), form \o <<none \o one \o r>>)
      /\ Number(tokens) <=> r = <<>> /\ is_one(one, {"integer", "decimal"})
  BY <1>3, AtAppended
<1> QED
  BY <1>2, <1>3, <1>4 DEF none, one

LEMMA PairIs ==
  ASSUME NEW a, NEW b
  PROVE  <<a>> \o <<b>> = <<a, b>>
<1> DEFINE S == {a, b}
           none == <<>>
           u == <<a>>
           v == <<b>>
           t == <<a, b>>
<1>1. /\ a \in S /\ b \in S /\ none \in Seq(S) /\ u \in Seq(S) /\ v \in Seq(S) /\ t \in Seq(S)
  OBVIOUS
<1>2. (none \o <<a>>) \o <<b>> = none \o <<a, b>>
  <2> HIDE DEF none
  <2> QED
    BY <1>1, Pairs
<1>3. (none \o u) \o v = none \o t
  BY <1>2
<1> HIDE DEF S, u, v, t
<1>4. none \o u = u /\ none \o t = t
  BY <1>1, ConcatEmptySeq
<1>5. u \o v = t
  BY <1>3, <1>4
<1> QED
  BY <1>5 DEF u, v, t

LEMMA Triple ==
  ASSUME NEW a, NEW b, NEW c
  PROVE  <<a>> \o <<b>> \o <<c>> = <<a, b, c>>
<1> DEFINE S == {a, b, c}
           u == <<a, b>>
           v == <<c>>
           t == <<a, b, c>>
<1>1. u \in Seq(S) /\ v \in Seq(S) /\ t \in Seq(S)
  OBVIOUS
<1>2. /\ Len(u) = 2 /\ u[1] = a /\ u[2] = b /\ Len(v) = 1 /\ v[1] = c
      /\ Len(t) = 3 /\ t[1] = a /\ t[2] = b /\ t[3] = c
  OBVIOUS
<1> HIDE DEF S, u, v, t
<1>3. /\ u \o v \in Seq(S) /\ Len(u \o v) = 3
      /\ \A i \in 1 .. 3 : (u \o v)[i] = IF i <= 2 THEN u[i] ELSE v[i - 2]
  <2>1. /\ u \o v \in Seq(S) /\ Len(u \o v) = Len(u) + Len(v)
        /\ \A i \in 1 .. Len(u) + Len(v) : (u \o v)[i] = IF i <= Len(u) THEN u[i] ELSE v[i - Len(u)]
    BY <1>1, ConcatProperties
  <2> QED
    BY <1>2, <2>1
<1>4. \A i \in 1 .. 3 : i = 1 \/ i = 2 \/ i = 3
  OBVIOUS
<1>5. \A i \in 1 .. 3 : (u \o v)[i] = t[i]
  BY <1>2, <1>3, <1>4
<1>6. u \o v = t
  BY <1>1, <1>2, <1>3, <1>5, SeqEqual
<1>7. <<a>> \o <<b>> = u
  BY PairIs DEF u
<1>8. (<<a>> \o <<b>>) \o v = t
  BY <1>6, <1>7
<1> QED
  BY <1>8 DEF v, t

(* What the token before lets the item be, and what it leaves behind.      *)
Lets(st, item) ==
  /\ Keyword(st.core) => item.kind # "lasted" /\ ~ (Numeral(item) /\ Kind(item.text) = "integer")
  /\ Number(st.tokens) => ~ (item.kind = "word" /\ item.text \in DURATION_UNIT_WORDS)

Leaves(st, item) ==
  /\ Keyword(st.core) => item.kind \in {"word", "relative"} /\ item.text \in POSITION_KEYWORDS
  /\ Number(st.tokens) => Numeral(item)

Goes(m, form, item, w) ==
  \E st : At(m \o Rendered(item, w), st, form \o Form(item)) /\ Leaves(st, item)

LEMMA StateIs == \A core, tokens : State(core, tokens).core = core /\ State(core, tokens).tokens = tokens
BY DEF State

LEMMA GoesWord ==
  ASSUME NEW m, NEW st, NEW form, At(m, st, form), NEW w \in Worlds, NEW item, Lets(st, item),
         item.kind = "word", item.text \in Pieces, Kind(item.text) \in {"word", "integer", "decimal"}
  PROVE  Goes(m, form, item, w)
<1> PICK x \in Pieces : x = item.text
  OBVIOUS
<1>1. Numeral(item) <=> Kind(x) \in {"integer", "decimal"}
  BY DEF Numeral
<1>2. (Kind(x) = "integer" => ~ Keyword(st.core)) /\ (x \in DURATION_UNIT_WORDS => ~ Number(st.tokens))
  BY <1>1 DEF Lets
<1> DEFINE tokens == Append(st.tokens, Cut(<<>>, <<x>>, <<>>))
<1>3. /\ At(m \o <<<<x>>>>, State(<<x>>, tokens), form \o <<<<x>>>>)
      /\ Number(tokens) <=> Kind(x) \in {"integer", "decimal"}
  BY <1>2, AtWord
<1>4. Rendered(item, w) = <<<<x>>>> /\ Form(item) = <<<<x>>>>
  BY DEF Rendered, Form
<1>5. Keyword(<<x>>) <=> x \in POSITION_KEYWORDS
  BY Singles
<1> HIDE DEF tokens
<1>6. Leaves(State(<<x>>, tokens), item)
  BY <1>1, <1>3, <1>5, StateIs DEF Leaves
<1> QED
  BY <1>3, <1>4, <1>6 DEF Goes

LEMMA GoesFile ==
  ASSUME NEW m, NEW st, NEW form, At(m, st, form), NEW w \in Worlds, NEW item,
         item.kind = "file", item.text \in Pieces
  PROVE  Goes(m, form, item, w)
<1> PICK x \in Pieces : x = item.text
  OBVIOUS
<1> PICK root \in Pieces, line \in Pieces, took \in Pieces :
      /\ root = w.root /\ line = w.line /\ took = w.took
      /\ Kind(root) = "absolute" /\ Kind(took) \in {"integer", "decimal"}
  BY KindsAre
<1> PICK slash \in Pieces, colon \in Pieces, path \in Pieces :
      /\ slash = "/" /\ colon = ":" /\ path = "<path>"
      /\ Edge(colon) /\ Kind(path) = "word" /\ path \notin DURATION_UNIT_WORDS
      /\ path \notin POSITION_KEYWORDS
  BY KindsAre
<1> DEFINE c == <<root, slash, x, colon, line, colon, took>>
           raw == <<root, slash, x, colon, line, colon, took, colon>>
<1>1. ~ Edge(root) /\ ~ Edge(took)
  BY KindsAre
<1>2. split_edge_punctuation(raw) = Cut(<<>>, c, <<colon>>)
  BY <1>1, SplitEight
<1>3. c \in Seq(Pieces) /\ raw \in Tokens /\ c # <<>> /\ c[1] = root /\ <<colon>> \in Tokens
  BY DEF Tokens
<1>4. normalize_core(c, st.core) = <<path>>
  <2> HIDE DEF c
  <2>1. normalize_core(c, st.core) = <<"<path>">>
    BY <1>3, NormalAbsolute
  <2> QED
    BY <2>1
<1>5. Makes(raw, st.core, <<>>, <<path>>, <<colon>>)
  <2> HIDE DEF c, raw
  <2> QED
    BY <1>2, <1>4 DEF Makes
<1> DEFINE tokens == Append(st.tokens, Cut(<<>>, <<path>>, <<colon>>))
           r == <<colon>>
<1>6. At(m \o <<raw>>, State(<<path>>, tokens), form \o <<<<path>> \o <<colon>>>>) /\ ~ Number(tokens)
  <2>1. /\ Makes(raw, st.core, <<>>, <<path>>, r) /\ raw \in Tokens /\ r \in Tokens
    BY <1>3, <1>5
  <2> HIDE DEF raw, r
  <2>2. LET ts == Append(st.tokens, Cut(<<>>, <<path>>, r))
        IN  At(m \o <<raw>>, State(<<path>>, ts), form \o <<<<path>> \o r>>) /\ ~ Number(ts)
    BY <2>1, AtMark
  <2> QED
    BY <2>2 DEF r
<1>7. <<path>> \o <<colon>> = <<path, colon>>
  BY PairIs
<1>8. Rendered(item, w) = <<raw>> /\ Form(item) = <<<<path, colon>>>>
  BY DEF Rendered, Form
<1>9. ~ Keyword(<<path>>)
  BY Singles
<1> HIDE DEF raw, tokens
<1>10. Leaves(State(<<path>>, tokens), item)
  BY <1>6, <1>9, StateIs DEF Leaves
<1> QED
  BY <1>6, <1>7, <1>8, <1>10 DEF Goes

LEMMA GoesRelative ==
  ASSUME NEW m, NEW st, NEW form, At(m, st, form), NEW w \in Worlds, NEW item,
         item.kind = "relative", item.text \in Pieces, Kind(item.text) = "word"
  PROVE  Goes(m, form, item, w)
<1> PICK x \in Pieces : x = item.text
  OBVIOUS
<1> PICK line \in Pieces : line = w.line /\ Kind(line) = "integer"
  BY KindsAre
<1> PICK open \in Pieces, close \in Pieces, colon \in Pieces :
      open = "(" /\ close = ")" /\ colon = ":" /\ Edge(open) /\ Edge(close)
  BY KindsAre
<1> DEFINE c == <<x, colon, line>>
           raw == <<open, x, colon, line, close>>
           l == <<open>>
           d == <<x>>
           r == <<close>>
<1>1. ~ Edge(x) /\ ~ Edge(line)
  BY KindsAre
<1>2. split_edge_punctuation(raw) = Cut(l, c, r)
  BY <1>1, SplitFive
<1>3. raw \in Tokens /\ l \in Tokens /\ d \in Tokens /\ r \in Tokens /\ l # <<>> /\ r # <<>>
  BY DEF Tokens
<1>4. normalize_core(c, st.core) = d
  <2>1. Kind(x) = "word"
    OBVIOUS
  <2>2. \A previous : normalize_core(<<x, ":", line>>, previous) = <<x>>
    BY <2>1, NormalRelative
  <2> QED
    BY <2>2
<1>5. Makes(raw, st.core, l, d, r)
  <2> HIDE DEF c, raw, l, d, r
  <2> QED
    BY <1>2, <1>4 DEF Makes
<1> DEFINE tokens == Append(st.tokens, Cut(l, d, r))
<1>6. At(m \o <<raw>>, State(d, tokens), form \o <<l \o d \o r>>) /\ ~ Number(tokens)
  <2> HIDE DEF raw, l, d, r
  <2> QED
    BY <1>3, <1>5, AtAppended
<1>7. l \o d \o r = <<open, x, close>>
  BY Triple
<1>8. Rendered(item, w) = <<raw>> /\ Form(item) = <<<<open, x, close>>>>
  BY DEF Rendered, Form
<1>9. Keyword(d) <=> x \in POSITION_KEYWORDS
  BY Singles
<1> HIDE DEF raw, tokens, l, d, r
<1>10. Leaves(State(d, tokens), item)
  BY <1>6, <1>9, StateIs DEF Leaves
<1> QED
  BY <1>6, <1>7, <1>8, <1>10 DEF Goes

LEMMA GoesTook ==
  ASSUME NEW m, NEW st, NEW form, At(m, st, form), NEW w \in Worlds, NEW item, item.kind = "took"
  PROVE  Goes(m, form, item, w)
<1> PICK span \in Pieces : span = w.ran /\ Kind(span) = "duration"
  BY KindsAre
<1> PICK dur \in Pieces :
      /\ dur = "<dur>" /\ Kind(dur) = "word" /\ dur \notin DURATION_UNIT_WORDS
      /\ dur \notin POSITION_KEYWORDS
  BY KindsAre
<1> DEFINE raw == <<span>>
           r == <<>>
           tokens == Append(st.tokens, Cut(<<>>, <<dur>>, r))
<1>1. ~ Edge(span)
  BY KindsAre
<1>2. split_edge_punctuation(raw) = Cut(<<>>, raw, r)
  BY <1>1, SplitOne
<1>3. normalize_core(raw, st.core) = <<dur>>
  BY NormalDuration
<1>4. raw \in Tokens /\ r \in Tokens /\ <<dur>> \in Tokens /\ <<dur>> \o r = <<dur>>
  <2>1. raw \in Tokens /\ r \in Tokens /\ <<dur>> \in Tokens
    BY DEF Tokens
  <2> QED
    BY <2>1, ConcatEmptySeq DEF Tokens
<1>5. Makes(raw, st.core, <<>>, <<dur>>, r)
  <2> HIDE DEF raw, r
  <2> QED
    BY <1>2, <1>3 DEF Makes
<1>6. At(m \o <<raw>>, State(<<dur>>, tokens), form \o <<<<dur>> \o r>>) /\ ~ Number(tokens)
  <2> HIDE DEF raw, r
  <2> QED
    BY <1>4, <1>5, AtMark
<1>7. Rendered(item, w) = <<raw>> /\ Form(item) = <<<<dur>>>>
  BY DEF Rendered, Form
<1>8. ~ Keyword(<<dur>>)
  BY Singles
<1> HIDE DEF raw, r, tokens
<1>9. Leaves(State(<<dur>>, tokens), item)
  BY <1>6, <1>8, StateIs DEF Leaves
<1> QED
  BY <1>4, <1>6, <1>7, <1>9 DEF Goes

(* A keyword and a number: the keyword stays, the number does not.         *)
LEMMA AtPosition ==
  ASSUME NEW m, NEW st, NEW form, At(m, st, form), NEW k \in POSITION_KEYWORDS, NEW x \in Pieces,
         Kind(x) = "integer", NEW raw \in Tokens, NEW r \in Tokens,
         split_edge_punctuation(raw) = Cut(<<>>, <<x>>, r)
  PROVE  \E st2 : /\ At((m \o <<<<k>>>>) \o <<raw>>, st2, (form \o <<<<k>>>>) \o <<<<"<n>">> \o r>>)
                  /\ ~ Keyword(st2.core) /\ ~ Number(st2.tokens)
<1>1. k \in Pieces /\ Kind(k) = "word" /\ k \notin DURATION_UNIT_WORDS
  BY KindsAre
<1>2. PICK ts1 : At(m \o <<<<k>>>>, State(<<k>>, ts1), form \o <<<<k>>>>)
  BY <1>1, AtWord
<1> PICK n \in Pieces :
      /\ n = "<n>" /\ Kind(n) = "word" /\ n \notin DURATION_UNIT_WORDS /\ n \notin POSITION_KEYWORDS
  BY KindsAre
<1> DEFINE st1 == State(<<k>>, ts1)
           m1 == m \o <<<<k>>>>
           form1 == form \o <<<<k>>>>
           one == <<x>>
           tokens == Append(st1.tokens, Cut(<<>>, <<n>>, r))
<1>3. st1.core = <<k>>
  BY StateIs
<1>4. normalize_core(one, st1.core) = <<n>>
  BY <1>3, NormalPosition
<1>5. split_edge_punctuation(raw) = Cut(<<>>, one, r)
  OBVIOUS
<1>6. At(m1, st1, form1)
  BY <1>2
<1> HIDE DEF one, st1, m1, form1
<1>7. Makes(raw, st1.core, <<>>, <<n>>, r)
  BY <1>4, <1>5 DEF Makes
<1>8. At(m1 \o <<raw>>, State(<<n>>, tokens), form1 \o <<<<n>> \o r>>) /\ ~ Number(tokens)
  BY <1>6, <1>7, AtMark
<1>9. ~ Keyword(<<n>>)
  BY Singles
<1> HIDE DEF tokens
<1>10. State(<<n>>, tokens).core = <<n>> /\ State(<<n>>, tokens).tokens = tokens
  BY StateIs
<1> QED
  BY <1>8, <1>9, <1>10 DEF m1, form1

LEMMA GoesPosition ==
  ASSUME NEW m, NEW st, NEW form, At(m, st, form), NEW w \in Worlds, NEW item,
         item.kind = "position"
  PROVE  Goes(m, form, item, w)
<1>1. PICK x \in Pieces : x = w.line /\ Kind(x) = "integer"
  BY KindsAre
<1>2. PICK comma \in Pieces, n \in Pieces, line \in Pieces, column \in Pieces :
      /\ comma = "," /\ n = "<n>" /\ line = "line" /\ column = "column" /\ Edge(comma)
      /\ line \in POSITION_KEYWORDS /\ column \in POSITION_KEYWORDS
  BY KindsAre
<1> DEFINE none == <<>>
           a == <<line>>
           b == <<x, comma>>
           c == <<column>>
           d == <<x>>
           r == <<comma>>
           b2 == <<n>> \o r
           d2 == <<n>> \o none
<1>3. ~ Edge(x)
  BY <1>1, KindsAre
<1>4. split_edge_punctuation(b) = Cut(none, d, r) /\ split_edge_punctuation(d) = Cut(none, d, none)
  BY <1>3, <1>2, SplitOne, SplitTwo
<1>5. /\ none \in Tokens /\ a \in Tokens /\ b \in Tokens /\ c \in Tokens /\ d \in Tokens /\ r \in Tokens
      /\ <<n>> \in Tokens
  BY TokensAre
<1>6. b2 = <<n, comma>> /\ d2 = <<n>>
  <2>1. b2 = <<n, comma>>
    BY PairIs
  <2>2. d2 = <<n>>
    BY <1>5, ConcatEmptySeq DEF Tokens
  <2> QED
    BY <2>1, <2>2
<1>7. b2 \in Tokens /\ d2 \in Tokens
  <2>1. <<n, comma>> \in Tokens
    BY TokensAre
  <2> HIDE DEF b2, d2
  <2> QED
    BY <1>5, <1>6, <2>1
<1>8. PICK st2 : At((m \o <<a>>) \o <<b>>, st2, (form \o <<a>>) \o <<b2>>)
  <2> HIDE DEF b, r
  <2>1. split_edge_punctuation(b) = Cut(<<>>, <<x>>, r) /\ b \in Tokens /\ r \in Tokens
    BY <1>4, <1>5
  <2>2. PICK s2 : At((m \o <<<<line>>>>) \o <<b>>, s2, (form \o <<<<line>>>>) \o <<<<"<n>">> \o r>>)
    BY <1>1, <1>2, <2>1, AtPosition
  <2> QED
    BY <1>2, <2>2
<1> DEFINE m2 == (m \o <<a>>) \o <<b>>
           form2 == (form \o <<a>>) \o <<b2>>
<1>9. PICK st4 : /\ At((m2 \o <<c>>) \o <<d>>, st4, (form2 \o <<c>>) \o <<d2>>)
                 /\ ~ Keyword(st4.core) /\ ~ Number(st4.tokens)
  <2>1. At(m2, st2, form2)
    BY <1>8
  <2>2. split_edge_punctuation(d) = Cut(<<>>, <<x>>, none) /\ d \in Tokens /\ none \in Tokens
    BY <1>4, <1>5
  <2> HIDE DEF d, none, m2, form2
  <2>3. PICK s4 : /\ At((m2 \o <<<<column>>>>) \o <<d>>, s4, (form2 \o <<<<column>>>>) \o <<<<"<n>">> \o none>>)
                  /\ ~ Keyword(s4.core) /\ ~ Number(s4.tokens)
    BY <1>1, <1>2, <2>1, <2>2, AtPosition
  <2> QED
    BY <1>2, <2>3
<1>10. m \in Seq(Tokens) /\ form \in Seq(Tokens)
  BY RenderingIs DEF At
<1>11. /\ Rendered(item, w) = <<a, b, c, d>>
      /\ Form(item) = <<a, <<n, comma>>, c, <<n>>>>
  BY <1>1, <1>2 DEF Rendered, Form
<1>12. Form(item) = <<a, b2, c, d2>>
  <2> HIDE DEF b2, d2
  <2> QED
    BY <1>6, <1>11
<1> HIDE DEF a, b, c, d, b2, d2, none, r
<1>13. (m2 \o <<c>>) \o <<d>> = m \o <<a, b, c, d>>
  <2>1. Four(m, a, b, c, d)
    BY <1>5, <1>10, FourTokens
  <2> QED
    BY <2>1 DEF Four
<1>14. (form2 \o <<c>>) \o <<d2>> = form \o <<a, b2, c, d2>>
  <2>1. Four(form, a, b2, c, d2)
    BY <1>5, <1>7, <1>10, FourTokens
  <2> QED
    BY <2>1 DEF Four
<1>15. At(m \o <<a, b, c, d>>, st4, form \o <<a, b2, c, d2>>)
  BY <1>9, <1>13, <1>14
<1> QED
  BY <1>9, <1>11, <1>12, <1>15 DEF Goes, Leaves

LEMMA GoesLasted ==
  ASSUME NEW m, NEW st, NEW form, At(m, st, form), NEW w \in Worlds, NEW item, Lets(st, item),
         item.kind = "lasted"
  PROVE  Goes(m, form, item, w)
<1>1. PICK x \in Pieces : x = w.took /\ Kind(x) \in {"integer", "decimal"}
  BY KindsAre
<1>2. PICK ms \in Pieces, stop \in Pieces :
      /\ ms = "ms" /\ stop = "." /\ Edge(stop) /\ Kind(ms) = "word"
      /\ ms \in DURATION_UNIT_WORDS /\ ms \notin POSITION_KEYWORDS
  BY KindsAre
<1>3. x \notin DURATION_UNIT_WORDS /\ ~ Edge(ms)
  BY <1>1, <1>2, KindsAre
<1>4. ~ Keyword(st.core)
  BY DEF Lets
<1> DEFINE a == <<x>>
           b == <<ms, stop>>
           d == <<ms>>
           r == <<stop>>
           ts == st.tokens
           number == Cut(<<>>, <<x>>, <<>>)
           folded == Cut(<<>>, <<"<dur>">>, r)
<1>5. At(m \o <<a>>, State(a, Append(ts, number)), form \o <<a>>)
  BY <1>3, <1>4, <1>1, AtWord
<1>6. ts \in Seq(Kept) /\ Rendering(ts) = form /\ m \in Seq(Tokens)
  BY DEF At
<1>7. a \in Tokens /\ b \in Tokens /\ r \in Tokens /\ r # <<>>
  BY DEF Tokens
<1>8. split_edge_punctuation(b) = Cut(<<>>, d, r)
  BY <1>3, <1>2, SplitTwo
<1>9. normalize_core(d, a) = d
  <2>1. Kind(ms) = "word"
    BY <1>2
  <2>2. \A previous : normalize_core(<<ms>>, previous) = <<ms>>
    BY <2>1, NormalWord
  <2> QED
    BY <2>2
<1>10. Unit(d) /\ ~ Keyword(d)
  BY <1>2, Singles
<1>11. Makes(b, a, <<>>, d, r)
  <2> HIDE DEF a, b, d, r
  <2> QED
    BY <1>8, <1>9 DEF Makes
<1> DEFINE tokens == Append(ts, folded)
           m1 == m \o <<a>>
           form1 == form \o <<a>>
<1>12. At(m1 \o <<b>>, State(d, tokens), form \o <<<<"<dur>">> \o r>>) /\ ~ Number(tokens)
  <2>1. At(m1, State(a, Append(ts, Cut(<<>>, <<x>>, <<>>))), form1)
    BY <1>5
  <2> HIDE DEF a, b, d, r, m1, form1, ts
  <2>2. LET t == Cut(<<>>, <<"<dur>">>, r)
        IN  /\ At(m1 \o <<b>>, State(d, Append(ts, t)), Rendering(ts) \o <<<<"<dur>">> \o r>>)
            /\ ~ Number(Append(ts, t))
    <3>1. MakesAfterNumber(m1, ts, b, d, r)
      <4>1. PICK core, f : core = a /\ f = form1
        OBVIOUS
      <4>2. Kind(x) \in {"integer", "decimal"}
        BY <1>1
      <4>3. At(m1, State(core, Append(ts, Cut(<<>>, <<x>>, <<>>))), f) /\ Makes(b, core, <<>>, d, r)
        BY <1>11, <2>1, <4>1
      <4> QED
        BY <4>2, <4>3 DEF MakesAfterNumber
    <3>2. Unit(d) /\ r # <<>> /\ b \in Tokens /\ r \in Tokens /\ ts \in Seq(Kept)
      BY <1>6, <1>7, <1>10
    <3> QED
      BY <3>1, <3>2, AtFolded
  <2> QED
    BY <1>6, <2>2
<1>13. m1 \o <<b>> = m \o <<a, b>>
  <2> HIDE DEF a, b
  <2> QED
    BY <1>6, <1>7, PairOfTokens
<1>14. <<"<dur>">> \o r = <<"<dur>", stop>>
  BY PairIs
<1>15. Rendered(item, w) = <<a, b>> /\ Form(item) = <<<<"<dur>", stop>>>>
  BY <1>1, <1>2 DEF Rendered, Form
<1> HIDE DEF a, b, d, r, tokens, m1
<1>16. Leaves(State(d, tokens), item)
  BY <1>10, <1>12, StateIs DEF Leaves
<1> QED
  BY <1>12, <1>13, <1>14, <1>15, <1>16 DEF Goes

-----------------------------------------------------------------------------
(* A whole message.                                                        *)
Item(item) ==
  /\ item.kind \in {"word", "file", "relative", "position", "lasted", "took"}
  /\ item.kind \in {"word", "file", "relative"} => item.text \in Pieces
  /\ item.kind = "word" => Kind(item.text) \in {"word", "integer", "decimal"}
  /\ item.kind = "relative" => Kind(item.text) = "word"

LEMMA Goings ==
  ASSUME NEW m, NEW st, NEW form, At(m, st, form), NEW w \in Worlds, NEW item, Item(item), Lets(st, item)
  PROVE  Goes(m, form, item, w)
<1>1. CASE item.kind = "word"
  BY <1>1, GoesWord DEF Item
<1>2. CASE item.kind = "file"
  BY <1>2, GoesFile DEF Item
<1>3. CASE item.kind = "relative"
  BY <1>3, GoesRelative DEF Item
<1>4. CASE item.kind = "position"
  BY <1>4, GoesPosition
<1>5. CASE item.kind = "lasted"
  BY <1>5, GoesLasted
<1>6. CASE item.kind = "took"
  BY <1>6, GoesTook
<1> QED
  BY <1>1, <1>2, <1>3, <1>4, <1>5, <1>6 DEF Item

LEMMA Long ==
  /\ \A a, b, c \in Pieces : <<a, b, c>> \in Tokens
  /\ \A a, b, c, d, e \in Pieces : <<a, b, c, d, e>> \in Tokens
  /\ \A a, b, c, d, e, f, g, h \in Pieces : <<a, b, c, d, e, f, g, h>> \in Tokens
BY DEF Tokens

LEMMA TokenSeqs ==
  /\ \A a \in Tokens : <<a>> \in Seq(Tokens)
  /\ \A a, b \in Tokens : <<a, b>> \in Seq(Tokens)
  /\ \A a, b, c, d \in Tokens : <<a, b, c, d>> \in Seq(Tokens)
OBVIOUS

LEMMA ItemTypes ==
  ASSUME NEW w \in Worlds, NEW item, Item(item)
  PROVE  Rendered(item, w) \in Seq(Tokens) /\ Form(item) \in Seq(Tokens)
<1>1. PICK root \in Pieces, line \in Pieces, took \in Pieces, span \in Pieces :
        root = w.root /\ line = w.line /\ took = w.took /\ span = w.ran
  BY KindsAre
<1>2. PICK comma \in Pieces, stop \in Pieces, colon \in Pieces, open \in Pieces, close \in Pieces :
        comma = "," /\ stop = "." /\ colon = ":" /\ open = "(" /\ close = ")"
  BY KindsAre
<1>3. PICK slash \in Pieces, path \in Pieces, n \in Pieces, dur \in Pieces, l \in Pieces,
           c \in Pieces, ms \in Pieces :
        /\ slash = "/" /\ path = "<path>" /\ n = "<n>" /\ dur = "<dur>" /\ l = "line"
        /\ c = "column" /\ ms = "ms"
  BY KindsAre
<1>4. CASE item.kind = "word"
  <2>1. PICK x \in Pieces : x = item.text
    BY <1>4 DEF Item
  <2>2. Rendered(item, w) = <<<<x>>>> /\ Form(item) = <<<<x>>>>
    BY <1>4, <2>1 DEF Rendered, Form
  <2>3. <<x>> \in Tokens
    BY TokensAre
  <2> QED
    BY <2>2, <2>3, TokenSeqs
<1>5. CASE item.kind = "file"
  <2>1. PICK x \in Pieces : x = item.text
    BY <1>5 DEF Item
  <2>2. /\ Rendered(item, w) = <<<<root, slash, x, colon, line, colon, took, colon>>>>
        /\ Form(item) = <<<<path, colon>>>>
    BY <1>1, <1>2, <1>3, <1>5, <2>1 DEF Rendered, Form
  <2>3. <<root, slash, x, colon, line, colon, took, colon>> \in Tokens /\ <<path, colon>> \in Tokens
    BY TokensAre, Long
  <2> QED
    BY <2>2, <2>3, TokenSeqs
<1>6. CASE item.kind = "relative"
  <2>1. PICK x \in Pieces : x = item.text
    BY <1>6 DEF Item
  <2>2. /\ Rendered(item, w) = <<<<open, x, colon, line, close>>>>
        /\ Form(item) = <<<<open, x, close>>>>
    BY <1>1, <1>2, <1>6, <2>1 DEF Rendered, Form
  <2>3. <<open, x, colon, line, close>> \in Tokens /\ <<open, x, close>> \in Tokens
    BY Long
  <2> QED
    BY <2>2, <2>3, TokenSeqs
<1>7. CASE item.kind = "position"
  <2>1. /\ Rendered(item, w) = <<<<l>>, <<line, comma>>, <<c>>, <<line>>>>
        /\ Form(item) = <<<<l>>, <<n, comma>>, <<c>>, <<n>>>>
    BY <1>1, <1>2, <1>3, <1>7 DEF Rendered, Form
  <2>2. /\ <<l>> \in Tokens /\ <<line, comma>> \in Tokens /\ <<c>> \in Tokens /\ <<line>> \in Tokens
        /\ <<n, comma>> \in Tokens /\ <<n>> \in Tokens
    BY TokensAre
  <2> QED
    BY <2>1, <2>2, TokenSeqs
<1>8. CASE item.kind = "lasted"
  <2>1. Rendered(item, w) = <<<<took>>, <<ms, stop>>>> /\ Form(item) = <<<<dur, stop>>>>
    BY <1>1, <1>2, <1>3, <1>8 DEF Rendered, Form
  <2>2. <<took>> \in Tokens /\ <<ms, stop>> \in Tokens /\ <<dur, stop>> \in Tokens
    BY TokensAre
  <2> QED
    BY <2>1, <2>2, TokenSeqs
<1>9. CASE item.kind = "took"
  <2>1. Rendered(item, w) = <<<<span>>>> /\ Form(item) = <<<<dur>>>>
    BY <1>1, <1>3, <1>9 DEF Rendered, Form
  <2>2. <<span>> \in Tokens /\ <<dur>> \in Tokens
    BY TokensAre
  <2> QED
    BY <2>1, <2>2, TokenSeqs
<1> QED
  BY <1>4, <1>5, <1>6, <1>7, <1>8, <1>9 DEF Item

LEMMA Begins == At(<<>>, Fresh, <<>>) /\ ~ Keyword(Fresh.core) /\ ~ Number(Fresh.tokens)
<1>1. Fresh.core = <<>> /\ Fresh.tokens = <<>>
  BY DEF Fresh
<1>2. <<>> \in Seq(Tokens) /\ <<>> \in Seq(Kept)
  OBVIOUS
<1>3. Rendering(<<>>) = <<>>
  <2>1. Rendering(<<>>) \in Seq(Tokens) /\ Len(Rendering(<<>>)) = Len(<<>>)
    BY <1>2, RenderingIs
  <2> QED
    BY <2>1
<1>4. \A k : <<k>> # <<>>
  OBVIOUS
<1> QED
  BY <1>1, <1>2, <1>3, <1>4, StartsFresh DEF At, Keyword, Number

LEMMA Follow ==
  ASSUME NEW st, NEW item, NEW before, Leaves(st, before), Follows(item, before)
  PROVE  Lets(st, item)
BY DEF Leaves, Follows, Lets

LEMMA NormalForm ==
  ASSUME NEW f \in Findings, NEW w \in Worlds
  PROVE  normalize_message(Input(f, w).message) = FormOf(f)
<1> DEFINE items == f.items
           N == Len(items)
           s == [i \in DOMAIN items |-> Rendered(items[i], w)]
           t == [i \in DOMAIN items |-> Form(items[i])]
<1>1. Worded(items)
  BY IdAssumption DEF IdAssumption
<1>2. N \in Nat /\ DOMAIN items = 1 .. N
  BY <1>1 DEF Worded
<1>3. \A i \in 1 .. N : Item(items[i])
  <2> SUFFICES ASSUME NEW i \in 1 .. N PROVE Item(items[i])
    OBVIOUS
  <2>1. items[i].text \in Pieces
    <3> DEFINE texts(g) == {g.items[k].text : k \in DOMAIN g.items}
    <3>1. items[i].text \in texts(f)
      BY <1>2
    <3>2. \A g \in Findings : texts(g) \subseteq Pieces
      <4> SUFFICES ASSUME NEW g \in Findings, NEW x \in texts(g) PROVE x \in Pieces
        OBVIOUS
      <4>1. texts(g) \in {texts(h) : h \in Findings}
        OBVIOUS
      <4>2. x \in UNION {texts(h) : h \in Findings}
        BY <4>1
      <4> QED
        BY <4>2 DEF Pieces
    <3> QED
      BY <3>1, <3>2
  <2>2. /\ items[i].kind \in {"word", "file", "relative", "position", "lasted", "took"}
        /\ items[i].kind = "word" => Kind(items[i].text) \in {"word", "integer", "decimal"}
        /\ items[i].kind = "relative" => Kind(items[i].text) = "word"
    BY <1>1, <1>2 DEF Worded
  <2> QED
    BY <2>1, <2>2 DEF Item
<1>4. \A i \in 1 .. N : i > 1 => Follows(items[i], items[i - 1])
  BY <1>1, <1>2 DEF Worded
<1>5. Input(f, w).message = FlattenSeq(s) /\ FormOf(f) = FlattenSeq(t)
  BY DEF Input, FormOf
<1>6. s = [i \in 1 .. N |-> Rendered(items[i], w)] /\ t = [i \in 1 .. N |-> Form(items[i])]
  BY <1>2
<1>7. \A i \in 1 .. N : Rendered(items[i], w) \in Seq(Tokens) /\ Form(items[i]) \in Seq(Tokens)
  BY <1>3, ItemTypes
<1> HIDE DEF items, N, s, t
<1>8. /\ s \in Seq(Seq(Tokens)) /\ Len(s) = N /\ t \in Seq(Seq(Tokens)) /\ Len(t) = N
      /\ \A i \in 1 .. N : s[i] = Rendered(items[i], w) /\ t[i] = Form(items[i])
  BY <1>2, <1>6, <1>7
<1>9. PICK said : Flattens(said, s, Tokens) /\ FlattenSeq(s) = said[N]
  BY <1>8, FlattenIs
<1>10. PICK meant : Flattens(meant, t, Tokens) /\ FlattenSeq(t) = meant[N]
  BY <1>8, FlattenIs
<1>11. /\ said[0] = <<>> /\ meant[0] = <<>>
       /\ \A n \in 1 .. N : /\ said[n] = said[n - 1] \o Rendered(items[n], w)
                            /\ meant[n] = meant[n - 1] \o Form(items[n])
  BY <1>8, <1>9, <1>10 DEF Flattens
<1> DEFINE Stands(n) ==
             \E st : /\ At(said[n], st, meant[n])
                     /\ n = 0 => ~ Keyword(st.core) /\ ~ Number(st.tokens)
                     /\ n # 0 => Leaves(st, items[n])
           T == {n \in 0 .. N : Stands(n)}
<1>12. 0 \in T
  <2>1. At(said[0], Fresh, meant[0])
    BY <1>11, Begins
  <2>2. Stands(0)
    BY <2>1, Begins
  <2> QED
    BY <1>2, <2>2
<1>13. ASSUME NEW n \in 0 .. N - 1, n \in T PROVE n + 1 \in T
  <2>1. n + 1 \in 1 .. N /\ (n + 1) - 1 = n /\ n + 1 \in 0 .. N /\ n + 1 # 0
    BY <1>2
  <2>2. PICK st : /\ At(said[n], st, meant[n])
                  /\ n = 0 => ~ Keyword(st.core) /\ ~ Number(st.tokens)
                  /\ n # 0 => Leaves(st, items[n])
    BY <1>13
  <2>3. Lets(st, items[n + 1])
    <3>1. CASE n = 0
      BY <2>2, <3>1 DEF Lets
    <3>2. CASE n # 0
      <4>1. Follows(items[n + 1], items[n])
        BY <1>2, <1>4, <2>1, <3>2
      <4> QED
        BY <2>2, <3>2, <4>1, Follow
    <3> QED
      BY <3>1, <3>2
  <2>4. Goes(said[n], meant[n], items[n + 1], w)
    BY <1>3, <2>1, <2>2, <2>3, Goings
  <2>5. /\ said[n + 1] = said[n] \o Rendered(items[n + 1], w)
        /\ meant[n + 1] = meant[n] \o Form(items[n + 1])
    BY <1>11, <2>1
  <2>6. PICK st2 : At(said[n + 1], st2, meant[n + 1]) /\ Leaves(st2, items[n + 1])
    BY <2>4, <2>5 DEF Goes
  <2>7. Stands(n + 1)
    BY <2>1, <2>6
  <2> QED
    BY <2>1, <2>7
<1>14. Stands(N)
  <2>1. \A n \in 0 .. N : n \in T
    <3> HIDE DEF T
    <3> QED
      BY <1>2, <1>12, <1>13, Upwards
  <2> QED
    BY <1>2, <2>1
<1>15. PICK st : At(said[N], st, meant[N])
  BY <1>14
<1>16. normalize_message(said[N]) = meant[N]
  BY <1>15, NormalIs DEF At
<1> QED
  BY <1>5, <1>9, <1>10, <1>16

-----------------------------------------------------------------------------
(* The fingerprint depends on the world by the bytes alone.                *)
Anchor(f, w) == IF f.symbol # {} THEN {} ELSE {w.blob}

LEMMA Identities ==
  ASSUME NEW f \in Findings, NEW v \in Worlds, NEW g \in Findings, NEW w \in Worlds
  PROVE  fingerprint(Input(g, w)) = fingerprint(Input(f, v))
           <=> g = f /\ (f.symbol = {} => w.blob = v.blob)
<1> DEFINE Reads(h, u) == <<"judged/v1", h.rule, h.uri, h.symbol, Anchor(h, u), FormOf(h)>>
<1>1. ASSUME NEW h \in Findings, NEW u \in Worlds
      PROVE  fingerprint(Input(h, u)) = Reads(h, u)
  <2>1. normalize_message(Input(h, u).message) = FormOf(h)
    BY NormalForm
  <2>2. /\ Input(h, u).rule = h.rule /\ Input(h, u).uri = h.uri /\ Input(h, u).symbol = h.symbol
        /\ Input(h, u).blob = u.blob
    BY DEF Input
  <2>3. anchoring_blob_sha(Input(h, u)) = Anchor(h, u)
    BY <2>2 DEF anchoring_blob_sha, Anchor
  <2> QED
    BY <2>1, <2>2, <2>3 DEF fingerprint
<1>2. Reads(g, w) = Reads(f, v)
        <=> /\ g.rule = f.rule /\ g.uri = f.uri /\ g.symbol = f.symbol /\ Anchor(g, w) = Anchor(f, v)
            /\ FormOf(g) = FormOf(f)
  OBVIOUS
<1>3. g.rule = f.rule /\ g.uri = f.uri /\ g.symbol = f.symbol /\ FormOf(g) = FormOf(f) <=> g = f
  BY IdAssumption DEF IdAssumption
<1>4. g = f => (Anchor(g, w) = Anchor(f, v) <=> (f.symbol = {} => w.blob = v.blob))
  BY DEF Anchor
<1> QED
  BY <1>1, <1>2, <1>3, <1>4

(* What was reported was reported in some world, and is kept.              *)
IdInv ==
  /\ world \in Worlds
  /\ DOMAIN reported \subseteq Findings
  /\ \A f \in DOMAIN reported : \E w \in Worlds :
       /\ reported[f].blob = w.blob
       /\ reported[f].fingerprint = fingerprint(Input(f, w))

LEMMA IdInvInductive == IdInit /\ [][IdNext]_idVars => []IdInv
<1>1. IdInit => IdInv
  <2>1. DOMAIN <<>> = {}
    OBVIOUS
  <2> QED
    BY <2>1 DEF IdInit, IdInv
<1>2. IdInv /\ [IdNext]_idVars => IdInv'
  <2> SUFFICES ASSUME IdInv, [IdNext]_idVars PROVE IdInv'
    OBVIOUS
  <2>1. CASE report
    <3>1. PICK finding \in Findings \ DOMAIN reported :
            reported' = [f \in DOMAIN reported \cup {finding} |->
              IF f = finding THEN [blob |-> world.blob, fingerprint |-> fingerprint(Input(f, world))]
              ELSE reported[f]]
      BY <2>1 DEF report
    <3>2. world' = world
      BY <2>1 DEF report
    <3>3. DOMAIN reported' = DOMAIN reported \cup {finding}
      BY <3>1
    <3>4. ASSUME NEW f \in DOMAIN reported'
          PROVE  \E w \in Worlds : /\ reported'[f].blob = w.blob
                                   /\ reported'[f].fingerprint = fingerprint(Input(f, w))
      <4>1. CASE f = finding
        <5>1. reported'[f] = [blob |-> world.blob, fingerprint |-> fingerprint(Input(f, world))]
          BY <3>1, <4>1
        <5> QED
          BY <5>1 DEF IdInv
      <4>2. CASE f # finding
        <5>1. f \in DOMAIN reported /\ reported'[f] = reported[f]
          BY <3>1, <3>3, <3>4, <4>2
        <5> QED
          BY <5>1 DEF IdInv
      <4> QED
        BY <4>1, <4>2
    <3> QED
      BY <3>2, <3>3, <3>4 DEF IdInv
  <2>2. CASE elsewhere
    BY <2>2 DEF IdInv, elsewhere
  <2>3. CASE UNCHANGED idVars
    BY <2>3 DEF IdInv, idVars
  <2> QED
    BY <2>1, <2>2, <2>3 DEF IdNext
<1> QED
  BY <1>1, <1>2, PTL

(* A finding is known again by its fingerprint, whatever findings there    *)
(* are, wherever the tool runs, in whatever order and however often they   *)
(* are reported, and no finding is taken for another (fingerprint.rs).     *)
THEOREM KnownAgain == IdSpec => []IdentityOutlivesTheRun
<1>1. IdInv => IdentityOutlivesTheRun
  <2> SUFFICES ASSUME IdInv, NEW f \in DOMAIN reported, NEW g \in Findings
               PROVE  fingerprint(Input(g, world)) = reported[f].fingerprint
                        <=> g = f /\ (f.symbol = {} => world.blob = reported[f].blob)
    BY DEF IdentityOutlivesTheRun
  <2>1. f \in Findings /\ world \in Worlds
    BY DEF IdInv
  <2>2. PICK v \in Worlds : /\ reported[f].blob = v.blob
                            /\ reported[f].fingerprint = fingerprint(Input(f, v))
    BY DEF IdInv
  <2>3. fingerprint(Input(g, world)) = fingerprint(Input(f, v))
          <=> g = f /\ (f.symbol = {} => world.blob = v.blob)
    BY <2>1, Identities
  <2> QED
    BY <2>2, <2>3
<1> QED
  BY <1>1, IdInvInductive, PTL DEF IdSpec
=============================================================================
