------------------------------- MODULE Coverage -------------------------------
(***************************************************************************)
(* Family X (judged-core/src/coverage/lcov.rs and control.rs, and          *)
(* judged-mutants/src/coverage.rs): claims about what CI saw running are   *)
(* dropped.  CI runs the tests, writes one tracefile after another into    *)
(* the artifact, line by line, and may die while it does; the layer reads  *)
(* what is there, whenever it is asked.  CI is external.                   *)
(***************************************************************************)
EXTENDS RepoPath, FiniteSets

CONSTANTS
  SourceFiles,    \* the files of the tests' run, as CI spells them, in order
  FunctionsOf,    \* file -> the functions in it, as the instrumenter spells and lists them
  Dialects,       \* how an FN line is written: 1 or 2
  Counts,         \* how often a function may be entered in one run
  CountMax,       \* the largest number of calls there is room for, u64::MAX
  ControlFiles,   \* the control there may be: {} or {its lines}
  ClaimLists,     \* what an analyzer may claim: sequences of [kind, name]
  MaxCiRuns       \* bound: runs of the tests

VARIABLES
  ci,        \* external: the run of the tests, and what is left to write of it
  artifact,  \* the lines of coverage/lcov.info, or {} for no file
  layer      \* struct CoverageRun, and how far it got

covVars == <<ci, artifact, layer>>

-----------------------------------------------------------------------------
(* A line is [key, value]: the value is a text, in which "," is a piece.   *)
Line(key, value) == [key |-> key, value |-> value]
End == Line("end_of_record", <<>>)
Digits == <<"0", "1", "2", "3", "4", "5", "6", "7">>
NumberOf(piece) == CHOOSE n \in 0 .. 7 : Digits[n + 1] = piece
IsNumber(text) == Len(text) = 1 /\ Head(text) \in Range(Digits)

Comma(value) == SelectInSeq(value, LAMBDA x : x = ",")
BeforeComma(value) == SubSeq(value, 1, Comma(value) - 1)
AfterComma(value) == SubSeq(value, Comma(value) + 1, Len(value))

(* What a line says, as a set of one record; nothing if it is malformed.   *)
parse_fn(value) ==
  LET rest == AfterComma(value)
      tail == AfterComma(rest)
  IN  IF Comma(value) = 0 \/ ~ IsNumber(BeforeComma(value)) THEN {}
      ELSE IF Comma(rest) # 0 /\ IsNumber(BeforeComma(rest)) /\ tail # <<>>
        THEN {[name |-> tail, count |-> 0]}
      ELSE {[name |-> n, count |-> 0] : n \in {rest} \ {<<>>}}

parse_counted(value) ==
  IF Comma(value) = 0 \/ ~ IsNumber(BeforeComma(value)) THEN {}
  ELSE {[name |-> n, count |-> NumberOf(Head(value))] : n \in {AfterComma(value)} \ {<<>>}}

(* "-" is a line of which nothing is known.                                *)
parse_da(value) ==
  LET rest  == AfterComma(value) \o <<",">>
      count == BeforeComma(rest)
  IN  IF Comma(value) = 0 \/ ~ IsNumber(BeforeComma(value)) THEN {}
      ELSE IF count = <<"-">> THEN {[name |-> BeforeComma(value), count |-> 0]}
      ELSE IF IsNumber(count) THEN {[name |-> BeforeComma(value), count |-> NumberOf(Head(count))]}
      ELSE {}

Said(line) == CASE line.key = "FN"   -> parse_fn(line.value)
                [] line.key = "FNDA" -> parse_counted(line.value)
                [] line.key = "DA"   -> parse_da(line.value)

(* Mutant: the last count of a name is the one that stays.                 *)
last_count(counts, name, n) ==
  [m \in DOMAIN counts \cup {name} |-> IF m = name THEN n ELSE counts[m]]

(* Counts of the same name add up, and wrap in a release build.            *)
Added(counts, name, n) ==
  IF name \in DOMAIN counts THEN [counts EXCEPT ![name] = (@ + n) % (CountMax + 1)]
  ELSE [m \in DOMAIN counts \cup {name} |-> IF m = name THEN n ELSE counts[m]]

normalize_source(path) == IF Starts(path, <<".", "/">>) THEN SubSeq(path, 3, Len(path)) ELSE path

(* What is known so far: open is the record that is open, as a set; a      *)
(* record is [source, calls, lines], by the path it is about.              *)
NoRecords == [bad |-> FALSE, open |-> {}, records |-> <<>>]

parse_line(acc, line) ==
  LET bad == [acc EXCEPT !.bad = TRUE]
  IN  IF acc.bad \/ line.key \notin {"SF", "FN", "FNDA", "DA", "end_of_record"} THEN acc
      ELSE IF line.key = "end_of_record" THEN IF acc.open = {} THEN bad ELSE [acc EXCEPT !.open = {}]
      ELSE IF line.key = "SF"
        THEN LET key == normalize_source(line.value)
             IN  IF line.value = <<>> THEN bad
                 ELSE [acc EXCEPT !.open = {key}, !.records =
                   [k \in DOMAIN @ \cup {key} |-> IF k \in DOMAIN @ THEN @[k]
                      ELSE [source |-> line.value, calls |-> <<>>, lines |-> <<>>]]]
      ELSE IF acc.open = {} \/ Said(line) = {} THEN bad
      ELSE LET said  == CHOOSE s \in Said(line) : TRUE
               key   == CHOOSE k \in acc.open : TRUE
           IN  IF line.key = "DA"
                 THEN [acc EXCEPT !.records[key].lines = Added(@, said.name, said.count)]
                 ELSE [acc EXCEPT !.records[key].calls = Added(@, said.name, said.count)]

parsed(lines) ==
  LET after[n \in 0 .. Len(lines)] ==
        IF n = 0 THEN NoRecords ELSE parse_line(after[n - 1], lines[n])
  IN  after[Len(lines)]

(* Mutant: the file may end anywhere.                                      *)
parse_prefix(lines) == IF parsed(lines).bad THEN {} ELSE {parsed(lines).records}

(* The records of a tracefile, or nothing if it is malformed or its last   *)
(* record has no end.                                                      *)
parse(lines) ==
  LET acc == parsed(lines)
  IN  IF acc.bad \/ acc.open # {} THEN {} ELSE {acc.records}

-----------------------------------------------------------------------------
(* Names that two tools spell: one is the other, or ends with it after a   *)
(* separator.                                                              *)
SYMBOL_SEPARATORS == {"::", ".", "/", "#"}
ends_with_segment(qualified, bare) == \E s \in SYMBOL_SEPARATORS : Ends(qualified, <<s>> \o bare)
names_same_symbol(left, right) ==
  /\ left # <<>> /\ right # <<>>
  /\ left = right \/ ends_with_segment(left, right) \/ ends_with_segment(right, left)

path_ends_with(recorded, claim) == recorded = claim \/ Ends(recorded, <<"/">> \o claim)

Called(record) == {n \in DOMAIN record.calls : record.calls[n] > 0}
was_executed(record) == Called(record) # {} \/ \E l \in DOMAIN record.lines : record.lines[l] > 0

executed_file(coverage, path) ==
  {k \in DOMAIN coverage : path_ends_with(k, normalize_source(path)) /\ was_executed(coverage[k])}
called_function(coverage, symbol) ==
  {n \in UNION {Called(coverage[k]) : k \in DOMAIN coverage} : names_same_symbol(n, symbol)}
functions_called(coverage) ==
  FoldSet(LAMBDA k, sum : sum + Cardinality(Called(coverage[k])), 0, DOMAIN coverage)

-----------------------------------------------------------------------------
(* The control: symbols that are always called, and how many functions.    *)
parse_control(lines) ==
  LET symbols == {l.value : l \in {k \in Range(lines) : k.key = "symbol"}}
      floors  == SelectSeq(lines, LAMBDA l : l.key = "min-called-functions")
  IN  IF \/ symbols = {} \/ <<>> \in symbols
         \/ \E l \in Range(lines) : l.key \notin {"symbol", "min-called-functions"}
         \/ \E l \in Range(floors) : ~ IsNumber(l.value)
        THEN {}
      ELSE {[symbols |-> symbols, floor |->
              IF floors = <<>> THEN Cardinality(symbols) ELSE NumberOf(Head(Last(floors).value))]}

passed(control, coverage) ==
  /\ \A s \in control.symbols : called_function(coverage, s) # {}
  /\ functions_called(coverage) >= control.floor

-----------------------------------------------------------------------------
(* CI.  A run enters some functions, then writes its tracefile, which has  *)
(* a block of lines for each file.                                         *)
Functions0 == UNION {{<<f, n>> : n \in Range(FunctionsOf[f])} : f \in Range(SourceFiles)}

(* A run lists each file once and in it each function once; what stands    *)
(* before a comma in a name is no number.                                  *)
IsText(t) == t \in Seq(Range(t)) /\ t # <<>>
ASSUME CoverageAssumption ==
  /\ SourceFiles \in Seq(Range(SourceFiles)) \ {<<>>}
  /\ \A f \in Range(SourceFiles) : IsText(f)
  /\ \A i, j \in DOMAIN SourceFiles :
       normalize_source(SourceFiles[i]) = normalize_source(SourceFiles[j]) => i = j
  /\ \A f \in Range(SourceFiles) :
       /\ FunctionsOf[f] \in Seq(Range(FunctionsOf[f]))
       /\ \A i, j \in DOMAIN FunctionsOf[f] : FunctionsOf[f][i] = FunctionsOf[f][j] => i = j
       /\ \A n \in Range(FunctionsOf[f]) :
            IsText(n) /\ (Comma(n) = 0 \/ ~ IsNumber(BeforeComma(n)))
  /\ Counts \subseteq 0 .. 7 /\ CountMax \in Nat /\ MaxCiRuns \in Nat

Spelled(n) == Digits[n + 1]
FnPrefix(dialect) == IF dialect = 2 THEN <<"1", ",", "2", ",">> ELSE <<"1", ",">>

Block(f, counts, dialect) ==
  LET of == FunctionsOf[f]
      entered == \E n \in Range(of) : counts[<<f, n>>] > 0
  IN  <<Line("TN", <<>>), Line("SF", f)>>
        \o [k \in DOMAIN of |-> Line("FN", FnPrefix(dialect) \o of[k])]
        \o [k \in DOMAIN of |-> Line("FNDA", <<Spelled(counts[<<f, of[k]>>]), ",">> \o of[k])]
        \o <<Line("DA", <<"1", ",", IF entered THEN "1" ELSE "-">>), End>>

(* What happened is kept beside it: how often each function was entered by *)
(* the runs that the artifact is about, and by those of them that wrote    *)
(* their tracefile to its end; the file whose record a machine that died   *)
(* left open, and the files whose open record another record followed.     *)
Never == [fn \in Functions0 |-> 0]
NewCi == [runs |-> 0, file |-> 0, line |-> 0, dialect |-> 1, counts |-> Never,
          entered |-> Never, seen |-> Never, cut |-> {}, torn |-> {}]

Plus(total, counts) == [fn \in Functions0 |-> total[fn] + counts[fn]]

(* The tests run; the artifact is begun anew, or added to.                 *)
Test(anew) ==
  /\ ci.file = 0 /\ ci.runs < MaxCiRuns
  /\ \E counts \in [Functions0 -> Counts], dialect \in Dialects :
       ci' = [IF anew THEN NewCi ELSE ci EXCEPT
                !.runs = ci.runs + 1, !.file = 1, !.line = 1, !.counts = counts,
                !.dialect = dialect, !.entered = Plus(@, counts)]
  /\ artifact' = IF anew \/ artifact = {} THEN {<<>>} ELSE artifact
  /\ UNCHANGED layer

test_anew == Test(TRUE)
test_more == artifact # {} /\ Test(FALSE)

(* The next line of the block, and after the last one the next file.  The  *)
(* second line opens a record.                                             *)
write ==
  /\ ci.file # 0
  /\ LET block == Block(SourceFiles[ci.file], ci.counts, ci.dialect)
     IN  /\ artifact' = {Append(lines, block[ci.line]) : lines \in artifact}
         /\ \/ /\ ci.line < Len(block)
               /\ ci' = [ci EXCEPT !.line = @ + 1,
                                   !.cut = IF ci.line = 2 THEN {} ELSE @,
                                   !.torn = IF ci.line = 2 THEN @ \cup ci.cut ELSE @]
            \/ /\ ci.line = Len(block) /\ ci.file < Len(SourceFiles)
               /\ ci' = [ci EXCEPT !.file = @ + 1, !.line = 1]
            \/ /\ ci.line = Len(block) /\ ci.file = Len(SourceFiles)
               /\ ci' = [ci EXCEPT !.file = 0, !.line = 0, !.seen = Plus(@, ci.counts)]
  /\ UNCHANGED layer

(* The machine dies between two lines.  What it has written stays, and the *)
(* next run adds to it or begins anew.                                     *)
die ==
  /\ ci.file # 0
  /\ ci' = [ci EXCEPT !.file = 0, !.line = 0,
                      !.cut = IF ci.line > 2 THEN {SourceFiles[ci.file]} ELSE @]
  /\ UNCHANGED <<artifact, layer>>

-----------------------------------------------------------------------------
NewLayer == [pc |-> "run", claims |-> <<>>, gap |-> "none", coverage |-> <<>>,
             rescued |-> {}, survived |-> {}, ci |-> NewCi]

Gap(reason) == layer' = [layer EXCEPT !.pc = "done", !.gap = reason, !.survived = Range(layer.claims)]

run_covered ==
  /\ layer.pc = "run"
  /\ \E claims \in ClaimLists : layer' = [layer EXCEPT !.pc = "load", !.claims = claims]
  /\ UNCHANGED <<ci, artifact>>

(* No artifact, or none with a control that it passes, rescues nothing.    *)
load ==
  /\ layer.pc = "load"
  /\ \E file \in ControlFiles :
       LET controls  == UNION {parse_control(lines) : lines \in file}
           coverages == UNION {parse(lines) : lines \in artifact}
       IN  IF artifact = {} THEN Gap("NoArtifact")
           ELSE IF file = {} THEN Gap("NoControl")
           ELSE IF controls = {} \/ coverages = {} THEN Gap("Unreadable")
           ELSE LET coverage == CHOOSE c \in coverages : TRUE
                IN  IF \E control \in controls : passed(control, coverage)
                      THEN layer' = [layer EXCEPT !.pc = "judge", !.coverage = coverage,
                                       !.ci = ci]
                      ELSE Gap("ControlFailed")
  /\ UNCHANGED <<ci, artifact>>

ran(coverage, claim) ==
  IF claim.kind = "Path" THEN executed_file(coverage, claim.name) # {}
  ELSE called_function(coverage, claim.name) # {}

judge_covered ==
  /\ layer.pc = "judge"
  /\ LET rescued == {claim \in Range(layer.claims) : ran(layer.coverage, claim)}
     IN  layer' = [layer EXCEPT !.pc = "done", !.rescued = rescued,
                                !.survived = Range(layer.claims) \ rescued]
  /\ UNCHANGED <<ci, artifact>>

CovInit ==
  /\ ci = NewCi /\ artifact = {} /\ layer = NewLayer

CovNext == test_anew \/ test_more \/ write \/ die \/ run_covered \/ load \/ judge_covered

CovSpec == CovInit /\ [][CovNext]_covVars

-----------------------------------------------------------------------------
(* Once an artifact is believed, whatever of it was written by then and    *)
(* wherever a machine died in it: every claim about what ran in a run that *)
(* had written its tracefile is dropped (lcov.rs "the same file appears    *)
(* once per test run, and the counts add"), and none about what no run     *)
(* entered (coverage/mod.rs "A hit is proof. A miss is not evidence"), as  *)
(* long as no sum of counts wraps.  A symbol ran if a function of its name *)
(* was entered, a file if anything in it was.                              *)
About(claim, fn) ==
  IF claim.kind = "Path" THEN path_ends_with(normalize_source(fn[1]), normalize_source(claim.name))
  ELSE names_same_symbol(fn[2], claim.name)

RescuedIffRan ==
  layer.pc = "done" /\ layer.gap = "none" /\ (\A fn \in Functions0 : layer.ci.entered[fn] <= CountMax) =>
    \A claim \in Range(layer.claims) :
      /\ (\E fn \in Functions0 : About(claim, fn) /\ layer.ci.seen[fn] > 0) => claim \in layer.rescued
      /\ claim \in layer.rescued => \E fn \in Functions0 : About(claim, fn) /\ layer.ci.entered[fn] > 0

(* What is believed of a file is all that a run said of it, also while the *)
(* tracefile is being written and after a machine died in it: a function   *)
(* that is not heard of is not taken for one that was not called.  The one *)
(* exception is a record that a dead machine left open and another record  *)
(* followed (lcov.rs: an SF line opens the next record, whether or not one *)
(* is open); the last record is never such a one.                          *)
HalfRecordsAreTorn ==
  \A key \in DOMAIN layer.coverage : \A f \in Range(SourceFiles) :
    normalize_source(f) = key /\ f \notin layer.ci.torn =>
      /\ DOMAIN layer.coverage[key].calls = Range(FunctionsOf[f])
      /\ DOMAIN layer.coverage[key].lines # {}
=============================================================================
