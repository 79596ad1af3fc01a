----------------------------- MODULE SuiteProofs -----------------------------
(***************************************************************************)
(* Proofs about the precision suite, for any catalogue and any stack.      *)
(***************************************************************************)
EXTENDS Suite, RecursionFacts

(* What was lost is known: a failed analyzer or gate has ended the         *)
(* command, and a destroyed tree is on its way to close_repo.              *)
LostInv ==
  /\ outcome # "none" => pc = "done"
  /\ lost \subseteq {"analyzer", "tree", "gate"}
  /\ "tree" \in lost =>
       \/ pc \in {"layer", "close"} /\ tree = "gone"
       \/ pc = "done" /\ outcome = "incomplete"
  /\ "analyzer" \in lost \/ "gate" \in lost =>
       pc = "done" /\ outcome = "incomplete"

LEMMA LostInit == Init => LostInv
  BY DEF Init, LostInv

LEMMA LostStep == LostInv /\ [Next]_vars => LostInv'
<1> SUFFICES ASSUME LostInv, [Next]_vars PROVE LostInv'
  OBVIOUS
<1> USE DEF LostInv, Refuse
<1>1. CASE Start
  BY <1>1 DEF Start, history
<1>2. CASE SkipClass
  BY <1>2 DEF SkipClass, history, mutant
<1>3. CASE Materialize
  BY <1>3 DEF Materialize, history
<1>4. CASE AnalyzerAnswers
  BY <1>4 DEF AnalyzerAnswers
<1>5. CASE AnalyzerFails
  BY <1>5 DEF AnalyzerFails, AnalyzerError
<1>6. CASE Gate1Run
  BY <1>6 DEF Gate1Run, Filter, history
<1>7. CASE Gate3fRun
  BY <1>7 DEF Gate3fRun, Filter, history
<1>8. CASE CoverageRun
  BY <1>8 DEF CoverageRun, Filter, history
<1>9. CASE RootsRun
  BY <1>9 DEF RootsRun, Filter, history
<1>10. CASE VetoRun
  BY <1>10 DEF VetoRun, Filter, history
<1>11. CASE GateFails
  BY <1>11 DEF GateFails, Turn
<1>12. CASE Grade
  BY <1>12 DEF Grade, history
<1>13. CASE CloseRepo
  BY <1>13 DEF CloseRepo, RemoveResults, closed, retried, history
<1>14. CASE EndRun
  BY <1>14 DEF EndRun, history, mutant
<1>15. CASE Compare
  BY <1>15 DEF Compare, history
<1>16. CASE Gate
  BY <1>16 DEF Gate, history
<1>17. CASE Uninstall
  BY <1>17 DEF Uninstall, history, mutant
<1>18. CASE UNCHANGED vars
  BY <1>18 DEF vars, history, mutant
<1> QED
  BY <1>1, <1>2, <1>3, <1>4, <1>5, <1>6, <1>7, <1>8, <1>9, <1>10, <1>11, <1>12,
     <1>13, <1>14, <1>15, <1>16, <1>17, <1>18 DEF Next, Step

(* Whatever the catalogue, the layers and the analyzer, no verdict is      *)
(* published after an analyzer or a gate failed or a tree was destroyed.   *)
THEOREM Measured == Spec => []NothingUnmeasured
<1>1. LostInv => NothingUnmeasured
  BY DEF LostInv, NothingUnmeasured, Published
<1> QED
  BY <1>1, LostInit, LostStep, PTL DEF Spec

-----------------------------------------------------------------------------
(* The records of the stack in the gated run: before the bare run is over  *)
(* there are none, and afterwards each layer has one for each answer of    *)
(* the analyzer, except those whose turn at the last one is to come.       *)
SetOfClaims == SUBSET AllClaims

Record == [claimed : Nat, survived : Nat, dropped : SetOfClaims]

Recorded(n) ==
  Len(runs[stack[n]]) =
    IF pc = "layer" /\ at <= n THEN Len(said["gated"]) - 1
                                 ELSE Len(said["gated"])

StackInv ==
  /\ stack \in Stacks
  /\ run \in Runs
  /\ class \in Nat /\ (pc \in {"analyze", "layer"} => class \in Classes)
  /\ claims \in SUBSET AllClaims
  /\ pc = "layer" => claims \subseteq Claimable[class]
  /\ at \in Nat \ {0}
  /\ said \in [Runs -> Seq(SetOfClaims)]
  /\ runs \in [Layers -> Seq(Record)]
  /\ run = "bare" =>
       /\ said["gated"] = <<>>
       /\ \A l \in Layers : runs[l] = <<>>
  /\ run = "gated" /\ pc \in {"class", "analyze", "layer", "close", "compare"} =>
       \A n \in DOMAIN stack : Recorded(n)
  /\ run = "gated" /\ pc = "layer" =>
       /\ Len(said["gated"]) > 0
       /\ at <= Len(stack) + 1
  /\ pc = "preflight" => run = "bare"
  /\ DropIsAbsorbing
LEMMA StackFacts ==
  ASSUME StackInv
  PROVE  /\ stack \in Seq(Layers)
         /\ \A m, n \in DOMAIN stack : stack[m] = stack[n] => m = n
  BY SuiteAssumption DEF StackInv

LEMMA AnswerStep == StackInv /\ AnalyzerAnswers => StackInv'
<1> SUFFICES ASSUME StackInv, AnalyzerAnswers PROVE StackInv'
  OBVIOUS
<1>1. PICK verdict \in SUBSET Claimable[class] :
        claims' = verdict /\ said' = [said EXCEPT ![run] = Append(@, verdict)]
  BY DEF AnalyzerAnswers
<1>2. /\ pc = "analyze" /\ pc' = "layer" /\ at' = 1
      /\ UNCHANGED <<stack, run, class, runs>>
  BY DEF AnalyzerAnswers, setup, records
<1>3. verdict \in SetOfClaims
  BY <1>2 DEF StackInv, SetOfClaims, AllClaims
<1>4. /\ said' \in [Runs -> Seq(SetOfClaims)]
      /\ said'[run] = Append(said[run], verdict)
      /\ run = "bare" => said'["gated"] = said["gated"]
  BY <1>1, <1>3 DEF StackInv, Runs
<1>5. ASSUME run = "gated", NEW n \in DOMAIN stack PROVE Recorded(n)'
  <2>1. Len(runs[stack[n]]) = Len(said["gated"])
    BY <1>2, <1>5 DEF StackInv, Recorded
  <2>2. Len(said'["gated"]) = Len(said["gated"]) + 1
    BY <1>3, <1>4, <1>5 DEF StackInv, Runs
  <2>3. n >= 1 /\ Len(said["gated"]) \in Nat
    BY <1>5, StackFacts DEF StackInv, Runs
  <2> QED
    BY <1>2, <2>1, <2>2, <2>3 DEF Recorded
<1>6. ASSUME run = "gated"
      PROVE  /\ Len(said'["gated"]) > 0
             /\ said'[run][Len(said'[run])] = claims'
  BY <1>1, <1>3, <1>4, <1>6 DEF StackInv, Runs
<1>7. at' <= Len(stack) + 1 /\ 1 .. at' - 1 = {}
  BY <1>2, StackFacts
<1>8. DropIsAbsorbing'
  BY <1>2, <1>6, <1>7 DEF DropIsAbsorbing
<1>9. class \in Classes /\ claims' \subseteq Claimable[class] /\ claims' \in SUBSET AllClaims
  BY <1>1, <1>2, <1>3 DEF StackInv, SetOfClaims
<1>10. /\ run = "bare" => /\ said'["gated"] = <<>>
                          /\ \A l \in Layers : runs'[l] = <<>>
       /\ run = "gated" => \A n \in DOMAIN stack : Recorded(n)'
  BY <1>2, <1>4, <1>5 DEF StackInv
<1> QED
  BY <1>2, <1>4, <1>6, <1>7, <1>8, <1>9, <1>10 DEF StackInv

LEMMA FilterStep ==
  ASSUME StackInv, NEW layer, NEW dropped \in SUBSET claims,
         Turn(layer), Filter(layer, dropped)
  PROVE  StackInv'
<1> DEFINE j == Len(said["gated"])
<1>1. /\ pc = "layer" /\ run = "gated" /\ at \in DOMAIN stack /\ layer = stack[at]
  BY DEF Turn, layers, StackInv, Runs
<1>2. /\ UNCHANGED <<stack, pc, run, class, said>>
      /\ at' = at + 1
      /\ claims' = claims \ dropped
  BY DEF Filter, setup, history, surviving
<1>3. /\ layer \in Layers /\ at \in 1 .. Len(stack)
      /\ stack \in Seq(Layers)
  BY <1>1, StackFacts
<1>4. Cardinality(claims) \in Nat /\ Cardinality(claims \ dropped) \in Nat
  <2>1. IsFiniteSet(claims)
    BY <1>1, SuiteAssumption, FS_Subset DEF StackInv
  <2> QED
    BY <2>1, FS_Subset, FS_CardinalityType
<1>5. PICK r \in Record :
        /\ r.dropped = dropped
        /\ runs' = [runs EXCEPT ![layer] = Append(@, r)]
  <2> DEFINE r == [claimed |-> Cardinality(claims),
                   survived |-> Cardinality(claims \ dropped),
                   dropped |-> dropped]
  <2>1. r \in Record
    BY <1>4 DEF Record, SetOfClaims, StackInv
  <2> QED
    BY <2>1 DEF Filter, surviving
<1>6. /\ runs' \in [Layers -> Seq(Record)]
      /\ runs'[stack[at]] = Append(runs[stack[at]], r)
  BY <1>1, <1>3, <1>5 DEF StackInv
<1>7. \A n \in DOMAIN stack : n # at => runs'[stack[n]] = runs[stack[n]]
  BY <1>1, <1>3, <1>5, StackFacts DEF StackInv
<1>8. /\ j \in Nat /\ j > 0
      /\ \A n \in DOMAIN stack : Len(runs[stack[n]]) = IF at <= n THEN j - 1 ELSE j
  BY <1>1 DEF StackInv, Recorded, Runs
<1>9. \A n \in DOMAIN stack : Recorded(n)'
  <2> TAKE n \in DOMAIN stack
  <2>1. n \in Nat /\ stack[n] \in Layers /\ runs[stack[n]] \in Seq(Record)
    BY <1>3 DEF StackInv
  <2>2. CASE n = at
    BY <2>2, <2>1, <1>1, <1>2, <1>3, <1>6, <1>8 DEF Recorded
  <2>3. CASE n # at
    BY <2>3, <2>1, <1>1, <1>2, <1>3, <1>7, <1>8 DEF Recorded
  <2> QED
    BY <2>2, <2>3
<1>10. runs'[stack[at]][j].dropped = dropped
  <2>1. runs[stack[at]] \in Seq(Record) /\ Len(runs[stack[at]]) = j - 1
    BY <1>1, <1>3, <1>8 DEF StackInv
  <2>2. Append(runs[stack[at]], r)[j] = r
    BY <2>1, <1>8
  <2> QED
    BY <2>2, <1>5, <1>6
<1>11. DropIsAbsorbing'
  <2> DEFINE d(n) == runs[stack[n]][j].dropped
             e(n) == runs'[stack[n]][j].dropped
             done == 1 .. at - 1
  <2>1. /\ said["gated"][j] = claims \cup UNION {d(n) : n \in done}
        /\ \A n \in done : d(n) \cap claims = {}
        /\ \A m, n \in done : m # n => d(m) \cap d(n) = {}
    <3>1. DropIsAbsorbing /\ pc = "layer" /\ run = "gated"
      BY <1>1 DEF StackInv
    <3> QED
      BY ONLY <3>1 DEF DropIsAbsorbing
  <2>0. run' = "gated" /\ said' = said /\ stack' = stack /\ claims' = claims \ dropped /\ at' \in Nat
    BY <1>1, <1>2, <1>3
  <2>2. at' - 1 = at /\ 1 .. at = done \cup {at} /\ at \notin done
    BY <1>2, <1>3
  <2>3. \A n \in done : e(n) = d(n)
    BY <1>3, <1>7
  <2>4. e(at) = dropped /\ dropped \subseteq claims
    BY <1>10
  <2> HIDE DEF d, e, done, j
  <2>5. said["gated"][j] = (claims \ dropped) \cup UNION {e(n) : n \in 1 .. at}
    <3>1. UNION {e(n) : n \in 1 .. at} = dropped \cup UNION {d(n) : n \in done}
      BY <2>2, <2>3, <2>4
    <3> QED
      BY <3>1, <2>1, <2>4
  <2>6. \A n \in 1 .. at : e(n) \cap (claims \ dropped) = {}
    BY <2>1, <2>2, <2>3, <2>4
  <2>7. \A m, n \in 1 .. at : m # n => e(m) \cap e(n) = {}
    BY <2>1, <2>2, <2>3, <2>4
  <2>8. 1 .. at' - 1 = 1 .. at /\ said'[run'] = said["gated"] /\ j = Len(said'[run'])
    BY ONLY <2>0, <2>2 DEF j
  <2>9. said'[run'][j] = claims' \cup UNION {runs'[stack'[n]][j].dropped : n \in 1 .. at' - 1}
    BY ONLY <2>0, <2>5, <2>8 DEF e
  <2>10. \A n \in 1 .. at' - 1 : runs'[stack'[n]][j].dropped \cap claims' = {}
    BY ONLY <2>0, <2>6, <2>8 DEF e
  <2>11. \A m, n \in 1 .. at' - 1 :
            m # n => runs'[stack'[m]][j].dropped \cap runs'[stack'[n]][j].dropped = {}
    BY ONLY <2>0, <2>7, <2>8 DEF e
  <2> QED
    BY ONLY <2>8, <2>9, <2>10, <2>11 DEF DropIsAbsorbing
<1> QED
  BY <1>1, <1>2, <1>3, <1>6, <1>8, <1>9, <1>11 DEF StackInv

LEMMA StackStep == StackInv /\ [Next]_vars => StackInv'
<1> SUFFICES ASSUME StackInv, [Next]_vars PROVE StackInv'
  OBVIOUS
<1>1. CASE AnalyzerAnswers
  BY <1>1, AnswerStep
<1>2. CASE Gate1Run
  <2>1. PICK refused \in SUBSET claims : Filter("gate1", refused)
    BY <1>2 DEF Gate1Run
  <2> QED
    BY <2>1, <1>2, FilterStep DEF Gate1Run
<1>3. CASE Gate3fRun
  <2>1. PICK refused \in SUBSET claims : Filter("gate3f", refused)
    BY <1>3 DEF Gate3fRun
  <2> QED
    BY <2>1, <1>3, FilterStep DEF Gate3fRun
<1>4. CASE VetoRun
  <2>1. PICK blocked \in SUBSET claims : Filter("veto", blocked)
    BY <1>4 DEF VetoRun
  <2> QED
    BY <2>1, <1>4, FilterStep DEF VetoRun
<1>5. CASE CoverageRun
  <2>1. PICK executed \in SUBSET claims : Filter("coverage", executed)
    BY <1>5 DEF CoverageRun
  <2> QED
    BY <2>1, <1>5, FilterStep DEF CoverageRun
<1>6. CASE RootsRun
  <2>1. PICK declared \in SUBSET claims : Filter("roots", declared)
    BY <1>6 DEF RootsRun
  <2> QED
    BY <2>1, <1>6, FilterStep DEF RootsRun
<1> USE DEF StackInv, Recorded, DropIsAbsorbing, Refuse, setup, history, mutant,
            records
<1>7. CASE Start
  BY <1>7 DEF Start
<1>8. CASE SkipClass
  BY <1>8 DEF SkipClass
<1>9. CASE Materialize
  BY <1>9 DEF Materialize
<1>10. CASE AnalyzerFails
  BY <1>10 DEF AnalyzerFails, AnalyzerError
<1>11. CASE GateFails
  BY <1>11 DEF GateFails
<1>12. CASE Grade
  <2>1. run = "gated" => at = Len(stack) + 1
    BY <1>12, StackFacts DEF Grade, layers
  <2> QED
    BY <2>1, <1>12, StackFacts DEF Grade
<1>13. CASE CloseRepo
  BY <1>13 DEF CloseRepo
<1>14. CASE EndRun
  BY <1>14, StackFacts DEF EndRun, Runs
<1>15. CASE Compare
  BY <1>15 DEF Compare
<1>16. CASE Gate
  BY <1>16 DEF Gate
<1>17. CASE Uninstall
  BY <1>17 DEF Uninstall
<1>18. CASE UNCHANGED vars
  <2>1. UNCHANGED <<stack, pc, run, class, at, claims, runs, said>>
    BY <1>18 DEF vars
  <2> QED
    BY <2>1
<1> QED
  BY <1>1, <1>2, <1>3, <1>4, <1>5, <1>6, <1>7, <1>8, <1>9, <1>10, <1>11, <1>12,
     <1>13, <1>14, <1>15, <1>16, <1>17, <1>18 DEF Next, Step

(* Initially the stack has neither dropped nor recorded anything.          *)
LEMMA StackInit == Init => StackInv
<1> SUFFICES ASSUME Init PROVE StackInv
  OBVIOUS
<1>1. 1 \in Classes
  BY SuiteAssumption DEF Classes
<1>2. /\ runs \in [Layers -> Seq(Record)]
      /\ said \in [Runs -> Seq(SetOfClaims)]
  BY DEF Init
<1> QED
  BY <1>1, <1>2 DEF Init, StackInv, Runs, DropIsAbsorbing

(* Whatever the stack, each claim of the analyzer is in flight or was      *)
(* dropped by exactly one layer: no claim comes back, none is lost, and    *)
(* none is dropped twice.                                                  *)
THEOREM Absorbing == Spec => []DropIsAbsorbing
<1>1. StackInv => DropIsAbsorbing
  BY DEF StackInv
<1> QED
  BY <1>1, StackInit, StackStep, PTL DEF Spec

-----------------------------------------------------------------------------
(* What the comparison computed is not touched again: with layers only a   *)
(* gated run whose comparison went through reaches the gate.               *)
Balanced ==
  \A i \in DOMAIN rows["bare"] :
    rows["bare"][i].false_removals =
      rows["gated"][i].false_removals \cup {p.name : p \in {q \in summary : q.class = i}}

TradeInv ==
  /\ outcome # "none" => pc = "done"
  /\ pc = "gate" /\ stack # <<>> => Balanced
  /\ Published /\ stack # <<>> => Balanced

(* What was prevented is credited under its class, and comparable runs     *)
(* differ by nothing else.                                                 *)
LEMMA ComparedBalances ==
  ASSUME Compare, comparable
  PROVE  Balanced'
<1>1. \A i \in DOMAIN rows["bare"] :
        rows["gated"][i].false_removals \subseteq rows["bare"][i].false_removals
  BY DEF comparable, only_rescued
<1>2. summary' =
        UNION {{[class |-> i, name |-> a, layer |-> attribute(a, Position(i))] :
                  a \in prevented(i)} : i \in DOMAIN rows["bare"]}
  BY DEF Compare
<1>3. UNCHANGED rows
  BY DEF Compare, records
<1>4. ASSUME NEW i \in DOMAIN rows["bare"]
      PROVE  {p.name : p \in {q \in summary' : q.class = i}} = prevented(i)
  <2> DEFINE credit(k, a) == [class |-> k, name |-> a, layer |-> attribute(a, Position(k))]
  <2>1. \A k, a : credit(k, a).class = k /\ credit(k, a).name = a
    OBVIOUS
  <2>0. summary' = UNION {{credit(k, a) : a \in prevented(k)} : k \in DOMAIN rows["bare"]}
    BY <1>2
  <2> HIDE DEF credit
  <2>2. \A q : q \in summary' <=>
                \E k \in DOMAIN rows["bare"] : \E a \in prevented(k) : q = credit(k, a)
    BY <2>0
  <2>3. ASSUME NEW q \in summary', q.class = i
        PROVE  q.name \in prevented(i)
    BY <2>1, <2>2, <2>3
  <2>4. ASSUME NEW a \in prevented(i)
        PROVE  \E q \in summary' : q.class = i /\ q.name = a
    BY <2>1, <2>2, <2>4
  <2> QED
    BY <2>3, <2>4
<1> QED
  BY <1>1, <1>3, <1>4 DEF Balanced, prevented

LEMMA TradeStep == TradeInv /\ [Next]_vars => TradeInv'
<1> SUFFICES ASSUME TradeInv, [Next]_vars PROVE TradeInv'
  OBVIOUS
<1> USE DEF Published
<1>1. CASE Compare
  <2>1. comparable => Balanced'
    BY <1>1, ComparedBalances
  <2> QED
    BY <1>1, <2>1 DEF TradeInv, Compare, Refuse
<1>2. CASE Gate \/ Uninstall \/ UNCHANGED vars
  <2>1. UNCHANGED <<stack, rows, summary>>
    BY <1>2 DEF Gate, Uninstall, vars, setup, records
  <2>2. Balanced => Balanced'
    BY <2>1 DEF Balanced
  <2>3. pc' \in {pc, "done"} /\ (pc' = "done" => pc \in {"gate", "done"})
    BY <1>2 DEF Gate, Uninstall, vars, Refuse
  <2>4. pc # "gate" => UNCHANGED <<pc, outcome>>
    BY <1>2 DEF Gate, Uninstall, vars
  <2>5. pc = "gate" => (outcome' = "none" /\ UNCHANGED pc) \/ pc' = "done"
    BY <1>2 DEF Gate, Uninstall, vars, Refuse, TradeInv
  <2> QED
    BY <2>1, <2>2, <2>3, <2>4, <2>5 DEF TradeInv
<1>3. CASE EndRun
  BY <1>3 DEF TradeInv, EndRun, setup, records
<1>4. CASE Start \/ SkipClass \/ Materialize \/ AnalyzerAnswers \/ AnalyzerFails
  BY <1>4 DEF TradeInv, Start, SkipClass, Materialize, AnalyzerAnswers, AnalyzerFails,
              AnalyzerError, Refuse
<1>5. CASE Gate1Run \/ Gate3fRun \/ CoverageRun \/ RootsRun \/ VetoRun
  <2>1. pc = "layer" /\ UNCHANGED <<pc, outcome>>
    BY <1>5 DEF Gate1Run, Gate3fRun, CoverageRun, RootsRun, VetoRun, Filter, Turn
  <2> QED
    BY <2>1 DEF TradeInv
<1>6. CASE GateFails \/ Grade \/ CloseRepo
  BY <1>6 DEF TradeInv, GateFails, Turn, Grade, CloseRepo, Refuse
<1> QED
  BY <1>1, <1>2, <1>3, <1>4, <1>5, <1>6 DEF Next, Step

(* Whatever the analyzer said in the two runs, the trade of a published    *)
(* verdict balances class by class (compare_runs).                         *)
THEOREM Trade == Spec => []TradeBalances
<1>1. Init => TradeInv
  BY DEF Init, TradeInv, Published
<1>2. TradeInv => TradeBalances
  BY DEF TradeInv, TradeBalances, Balanced
<1> QED
  BY <1>1, <1>2, TradeStep, PTL DEF Spec

-----------------------------------------------------------------------------
(* A non-empty set of natural numbers has a least element.                 *)
LEMMA LeastIndex ==
  ASSUME NEW S, S \subseteq Nat, S # {}
  PROVE  Min(S) \in S
<1>1. PICK least \in S : \A other \in S : <<other, least>> \notin OpToRel(<, Nat)
  BY NatLessThanWellFounded, WFMin
<1>2. \A other \in S : ~ (other < least)
  BY <1>1 DEF OpToRel
<1>3. least \in S /\ \A other \in S : least <= other
  BY <1>2
<1>4. \E x \in S : \A y \in S : x <= y
  BY <1>3
<1> QED
  BY <1>4 DEF Min

(***************************************************************************)
(* The type invariant with what it rests on: a run has a row for each      *)
(* class before the one in progress, and the bare run is complete once the *)
(* gated one has begun.                                                    *)
(***************************************************************************)
RowsInv ==
  /\ pc \in {"class", "analyze", "layer"} => Len(rows[run]) = class - 1
  /\ pc = "close" => Len(rows[run]) = class
  /\ pc \in {"analyze", "layer", "close"} => class \in Classes
  /\ run = "bare" => rows["gated"] = <<>>
  /\ run = "gated" => Len(rows["bare"]) = NumClasses
  /\ pc = "preflight" => run = "bare" /\ class = 1 /\ rows["bare"] = <<>>
  /\ pc = "compare" => run = "gated"

TypeInv == TypeOK /\ RowsInv

LiveNames == UNION {{a.name : a \in Live[c]} : c \in Classes}

(* Grading yields a row, whatever was claimed.                             *)
LEMMA RowTypes ==
  ASSUME NEW c \in Classes, NEW claimed
  PROVE  NotReadRow(c) \in Row /\ grade(c, claimed) \in Row
<1>1. false_removals(c, claimed) \subseteq LiveNames
  BY DEF false_removals, LiveNames
<1>2. Cardinality(Decoys[c]) \in Nat
  BY SuiteAssumption, FS_CardinalityType
<1>3. Cardinality({d \in Decoys[c] : found(d, claimed)}) \in Nat
  BY SuiteAssumption, FS_Subset, FS_CardinalityType
<1>4. grade(c, claimed) \in Row
  <2> DEFINE fr == false_removals(c, claimed)
             decoys == {d \in Decoys[c] : found(d, claimed)}
             total == Cardinality(Decoys[c])
             g == IF fr = {} /\ decoys = Decoys[c] THEN "Passed" ELSE "Failed"
  <2>1. grade(c, claimed) = [class |-> c, grade |-> g, false_removals |-> fr,
                             decoys_found |-> Cardinality(decoys), decoys_total |-> total]
    BY DEF grade
  <2>2. g \in {"Passed", "Failed", "NotRead"}
    OBVIOUS
  <2> HIDE DEF g, fr, decoys, total
  <2>3. fr \subseteq LiveNames /\ Cardinality(decoys) \in Nat /\ total \in Nat
    BY <1>1, <1>2, <1>3 DEF fr, decoys, total
  <2> QED
    BY <2>1, <2>2, <2>3 DEF Row, LiveNames
<1> QED
  BY <1>4 DEF NotReadRow, Row

(* Credit goes to a layer of the stack, or to none.                        *)
LEMMA AttributeTypes ==
  ASSUME StackInv
  PROVE  \A a, j : attribute(a, j) \in Layers \cup {"none"}
<1> SUFFICES ASSUME NEW a, NEW j
             PROVE  attribute(a, j) \in Layers \cup {"none"}
  OBVIOUS
<1> DEFINE earners == {n \in DOMAIN stack :
                         \E k \in runs[stack[n]][j].dropped : EndsIn(k, a)}
<1>1. attribute(a, j) = IF earners = {} THEN "none" ELSE stack[Min(earners)]
  BY DEF attribute
<1>2. earners \subseteq DOMAIN stack
  OBVIOUS
<1> HIDE DEF earners
<1>3. DOMAIN stack \subseteq Nat /\ \A n \in DOMAIN stack : stack[n] \in Layers
  BY StackFacts
<1>4. earners # {} => Min(earners) \in earners
  BY <1>2, <1>3, LeastIndex
<1> QED
  BY <1>1, <1>2, <1>3, <1>4

(* The summary of a comparison names classes, living artifacts and layers. *)
LEMMA SummaryTypes ==
  ASSUME TypeInv, StackInv, pc = "compare"
  PROVE  UNION {{[class |-> i, name |-> a, layer |-> attribute(a, Position(i))] :
                  a \in prevented(i)} : i \in DOMAIN rows["bare"]}
           \in SUBSET [class : Classes, layer : Layers \cup {"none"}, name : LiveNames]
<1>1. rows["bare"] \in Seq(Row) /\ Len(rows["bare"]) = NumClasses
  BY DEF TypeInv, RowsInv, TypeOK, Runs
<1>2. ASSUME NEW i \in DOMAIN rows["bare"]
      PROVE  i \in Classes /\ prevented(i) \subseteq LiveNames
  <2>1. rows["bare"][i] \in Row /\ i \in 1 .. NumClasses
    BY <1>1
  <2>2. rows["bare"][i].false_removals \subseteq LiveNames
    BY <2>1 DEF Row, LiveNames
  <2> QED
    BY <2>1, <2>2 DEF prevented, Classes
<1>3. \A i, a : attribute(a, Position(i)) \in Layers \cup {"none"}
  BY AttributeTypes
<1> QED
  BY <1>2, <1>3

(* A refusal ends the command, and may leave the tree.                     *)
LEMMA RefuseTypes ==
  ASSUME TypeInv, StackInv', NEW reason \in {"missing", "incomplete", "not_a_veto", "nothing_graded"},
         Refuse(reason), lost' \in SUBSET {"analyzer", "tree", "gate"},
         attempt' = attempt, class' = class,
         UNCHANGED <<sut, installed, run, rows, summary>>
  PROVE  TypeInv'
<1>1. pc' = "done" /\ outcome' = reason /\ tree' \in {tree, "none"}
  BY DEF Refuse
<1>2. RowsInv'
  BY <1>1 DEF TypeInv, RowsInv
<1>3. TypeOK'
  BY <1>1 DEF TypeInv, TypeOK, StackInv, SetOfClaims, Record, Runs, Layers
<1> QED
  BY <1>2, <1>3 DEF TypeInv

(* What neither moves on to another class nor refuses keeps the rows.      *)
LEMMA SameRowsTypes ==
  ASSUME TypeInv, StackInv', UNCHANGED <<sut, run, class, rows, summary, outcome>>,
         installed' \in BOOLEAN, lost' \in SUBSET {"analyzer", "tree", "gate"},
         attempt' \in 1 .. ATTEMPTS, tree' \in {"none", "present", "gone"},
         \/ pc' = pc /\ (pc \in {"preflight", "class", "compare", "gate"} => tree' = tree)
         \/ pc = "preflight" /\ pc' = "class" /\ UNCHANGED tree
         \/ pc = "class" /\ pc' = "analyze" /\ class \in Classes
         \/ pc = "analyze" /\ pc' = "layer"
  PROVE  TypeInv'
<1>1. RowsInv'
  <2>1. pc = "preflight" => Len(rows[run]) = class - 1
    BY DEF TypeInv, RowsInv
  <2> QED
    BY <2>1 DEF TypeInv, RowsInv
<1>2. TypeOK'
  BY DEF TypeInv, TypeOK, StackInv, SetOfClaims, Record, Runs, Layers
<1> QED
  BY <1>1, <1>2 DEF TypeInv

(* A row is added for the class in progress.                               *)
LEMMA RowAddedTypes ==
  ASSUME TypeInv, StackInv', NEW row \in Row, class \in Classes,
         rows' = [rows EXCEPT ![run] = Append(@, row)],
         attempt' \in 1 .. ATTEMPTS, UNCHANGED <<sut, installed, run, tree, summary, outcome, lost>>,
         \/ pc = "class" /\ pc' = "class" /\ class' = class + 1
         \/ pc = "layer" /\ pc' = "close" /\ class' = class
  PROVE  TypeInv'
<1>1. rows \in [Runs -> Seq(Row)] /\ run \in Runs /\ Len(rows[run]) = class - 1
  BY DEF TypeInv, TypeOK, RowsInv
<1>2. rows' \in [Runs -> Seq(Row)] /\ Len(rows'[run]) = Len(rows[run]) + 1
  BY <1>1
<1>3. \A r \in Runs : r # run => rows'[r] = rows[r]
  BY <1>1
<1>4. class \in Nat /\ class \in 1 .. NumClasses /\ NumClasses \in Nat
  BY SuiteAssumption DEF Classes
<1>5. RowsInv'
  BY <1>1, <1>2, <1>3, <1>4 DEF TypeInv, RowsInv, Runs
<1>6. TypeOK'
  <2>1. /\ class' \in 1 .. NumClasses + 1 /\ pc' \in {"class", "close"}
        /\ pc' = "class" => tree' = "none"
    BY <1>4 DEF TypeInv, TypeOK
  <2>2. /\ runs' \in [Layers -> Seq([claimed : Nat, survived : Nat, dropped : SUBSET AllClaims])]
        /\ said' \in [Runs -> Seq(SUBSET AllClaims)] /\ stack' \in Stacks
        /\ claims' \in SUBSET AllClaims /\ at' \in Nat \ {0}
    BY DEF StackInv, SetOfClaims, Record
  <2>3. UNCHANGED <<sut, installed, run, tree, summary, outcome, lost>> /\ TypeOK
    BY DEF TypeInv
  <2> QED
    BY <1>2, <2>1, <2>2, <2>3 DEF TypeOK
<1> QED
  BY <1>5, <1>6 DEF TypeInv

LEMMA TypeStep == TypeInv /\ StackInv /\ StackInv' /\ [Next]_vars => TypeInv'
<1> SUFFICES ASSUME TypeInv, StackInv, StackInv', [Next]_vars PROVE TypeInv'
  OBVIOUS
<1>0. /\ lost \in SUBSET {"analyzer", "tree", "gate"} /\ attempt \in 1 .. ATTEMPTS
      /\ installed \in BOOLEAN /\ tree \in {"none", "present", "gone"}
  BY DEF TypeInv, TypeOK
<1>1. CASE Start
  <2>1. CASE Refuse("missing")
    BY <1>0, <1>1, <2>1, RefuseTypes DEF Start, history, setup, records
  <2>2. CASE pc' = "class" /\ UNCHANGED <<outcome, tree>>
    BY <1>0, <1>1, <2>2, SameRowsTypes DEF Start, history, setup, records
  <2> QED
    BY <1>1, <2>1, <2>2 DEF Start
<1>2. CASE SkipClass
  <2>1. NotReadRow(class) \in Row
    BY <1>2, RowTypes DEF SkipClass
  <2> QED
    BY <1>0, <1>2, <2>1, RowAddedTypes DEF SkipClass, setup, mutant, history
<1>3. CASE Materialize
  <2>1. CASE Refuse("incomplete")
    BY <1>0, <1>3, <2>1, RefuseTypes DEF Materialize, history, setup, records
  <2>2. CASE pc' = "analyze" /\ tree' = "present" /\ UNCHANGED outcome
    BY <1>0, <1>3, <2>2, SameRowsTypes DEF Materialize, history, setup, records
  <2> QED
    BY <1>3, <2>1, <2>2 DEF Materialize
<1>4. CASE AnalyzerAnswers
  <2>1. tree' \in {"none", "present", "gone"} /\ lost' \in SUBSET {"analyzer", "tree", "gate"}
    BY <1>0, <1>4 DEF AnalyzerAnswers
  <2> QED
    BY <1>0, <1>4, <2>1, SameRowsTypes DEF AnalyzerAnswers, setup, records
<1>5. CASE AnalyzerFails
  BY <1>0, <1>5, RefuseTypes DEF AnalyzerFails, AnalyzerError, setup, records
<1>6. CASE Gate1Run \/ Gate3fRun \/ CoverageRun \/ RootsRun \/ VetoRun
  <2>1. UNCHANGED <<sut, installed, pc, run, class, tree, attempt, rows, summary, outcome, lost>>
    BY <1>6 DEF Gate1Run, Gate3fRun, CoverageRun, RootsRun, VetoRun, Filter, setup, history
  <2> QED
    BY <1>0, <2>1, SameRowsTypes
<1>7. CASE GateFails
  BY <1>0, <1>7, RefuseTypes DEF GateFails, setup, records
<1>8. CASE Grade
  <2>1. class \in Classes /\ pc = "layer"
    BY <1>8 DEF Grade, StackInv
  <2>2. grade(class, claims) \in Row /\ 1 \in 1 .. ATTEMPTS
    BY <2>1, RowTypes DEF ATTEMPTS
  <2> QED
    BY <1>8, <2>1, <2>2, RowAddedTypes DEF Grade, setup, history
<1>9. CASE CloseRepo
  <2>1. UNCHANGED <<sut, installed, run, rows, summary, lost>> /\ pc = "close"
    BY <1>9 DEF CloseRepo, setup, records, history
  <2>2. CASE pc' = "class" /\ class' = class + 1 /\ tree' = "none" /\ attempt' = 1 /\ UNCHANGED outcome
    <3>1. class \in 1 .. NumClasses /\ NumClasses \in Nat /\ Len(rows[run]) = class
      BY <2>1, SuiteAssumption DEF TypeInv, RowsInv, Classes
    <3>2. RowsInv'
      BY <2>1, <2>2, <3>1 DEF TypeInv, RowsInv
    <3>3. TypeOK'
      <4>1. /\ stack' \in Stacks /\ run' \in Runs /\ at' \in Nat \ {0}
            /\ claims' \in SUBSET AllClaims
            /\ said' \in [Runs -> Seq(SUBSET AllClaims)]
            /\ runs' \in [Layers -> Seq([claimed : Nat, survived : Nat, dropped : SUBSET AllClaims])]
        BY ONLY StackInv' DEF StackInv, SetOfClaims, Record
      <4>2. /\ sut \in [external : BOOLEAN, reads : Declarations] /\ installed \in BOOLEAN
            /\ rows \in [Runs -> Seq(Row)] /\ lost \in SUBSET {"analyzer", "tree", "gate"}
            /\ summary \in SUBSET [class : Classes, layer : Layers \cup {"none"},
                                  name : UNION {{a.name : a \in Live[c]} : c \in Classes}]
            /\ outcome \in {"none", "missing", "incomplete", "not_a_veto",
                            "nothing_graded", "exit0", "exit1"}
        BY ONLY TypeInv DEF TypeInv, TypeOK
      <4>3. class' \in 1 .. NumClasses + 1 /\ attempt' \in 1 .. ATTEMPTS
        BY ONLY <2>2, <3>1 DEF ATTEMPTS
      <4> QED
        BY ONLY <2>1, <2>2, <4>1, <4>2, <4>3 DEF TypeOK
    <3> QED
      BY <3>2, <3>3 DEF TypeInv
  <2>3. CASE /\ attempt < ATTEMPTS /\ attempt' = attempt + 1
             /\ UNCHANGED <<pc, class, tree, outcome>>
    <3>1. attempt' \in 1 .. ATTEMPTS
      BY <1>0, <2>3 DEF ATTEMPTS
    <3> QED
      BY <1>0, <2>1, <2>3, <3>1, SameRowsTypes
  <2>4. CASE Refuse("incomplete") /\ UNCHANGED <<class, attempt>>
    BY <1>0, <2>1, <2>4, RefuseTypes
  <2> QED
    BY <1>9, <2>2, <2>3, <2>4 DEF CloseRepo, retried, next_attempt
<1>10. CASE EndRun
  <2>1. /\ pc = "class" /\ class \notin Classes
        /\ UNCHANGED <<sut, stack, installed, tree, attempt, rows, summary, outcome, lost>>
    BY <1>10 DEF EndRun, setup, mutant, records, history
  <2>2. class = NumClasses + 1 /\ NumClasses \in Nat \ {0} /\ Len(rows[run]) = NumClasses
    BY <2>1, SuiteAssumption DEF TypeInv, TypeOK, RowsInv, Classes
  <2>3. CASE run = "bare" /\ run' = "gated" /\ class' = 1 /\ pc' = "class"
    <3>1. RowsInv'
      BY <2>1, <2>2, <2>3 DEF TypeInv, RowsInv
    <3>2. TypeOK'
      <4>1. /\ stack' \in Stacks /\ run' \in Runs /\ at' \in Nat \ {0}
            /\ claims' \in SUBSET AllClaims
            /\ said' \in [Runs -> Seq(SUBSET AllClaims)]
            /\ runs' \in [Layers -> Seq([claimed : Nat, survived : Nat, dropped : SUBSET AllClaims])]
        BY ONLY StackInv' DEF StackInv, SetOfClaims, Record
      <4>2. /\ sut \in [external : BOOLEAN, reads : Declarations] /\ installed \in BOOLEAN
            /\ rows \in [Runs -> Seq(Row)] /\ lost \in SUBSET {"analyzer", "tree", "gate"}
            /\ summary \in SUBSET [class : Classes, layer : Layers \cup {"none"},
                                  name : UNION {{a.name : a \in Live[c]} : c \in Classes}]
            /\ outcome \in {"none", "missing", "incomplete", "not_a_veto",
                            "nothing_graded", "exit0", "exit1"}
            /\ tree = "none" /\ attempt \in 1 .. ATTEMPTS
        BY ONLY TypeInv, <2>1 DEF TypeInv, TypeOK
      <4>3. class' \in 1 .. NumClasses + 1 /\ tree' = "none" /\ attempt' \in 1 .. ATTEMPTS
        BY ONLY <2>1, <2>2, <2>3, <4>2
      <4> QED
        BY ONLY <2>1, <2>3, <4>1, <4>2, <4>3 DEF TypeOK
    <3> QED
      BY <3>1, <3>2 DEF TypeInv
  <2>4. CASE pc' = (IF run = "bare" THEN "gate" ELSE "compare") /\ UNCHANGED <<run, class>>
    <3>1. RowsInv'
      BY <2>1, <2>2, <2>4 DEF TypeInv, TypeOK, RowsInv, Runs
    <3>2. TypeOK'
      BY <2>1, <2>2, <2>4 DEF TypeInv, TypeOK, StackInv, SetOfClaims, Record, Runs, Layers
    <3> QED
      BY <3>1, <3>2 DEF TypeInv
  <2> QED
    BY <1>10, <2>3, <2>4 DEF EndRun
<1>11. CASE Compare
  <2>1. UNCHANGED <<sut, installed, run, class, attempt, rows, lost>> /\ pc = "compare"
    BY <1>11 DEF Compare, setup, records, history
  <2>2. CASE Refuse("not_a_veto") /\ UNCHANGED summary
    BY <1>0, <2>1, <2>2, RefuseTypes
  <2>3. CASE /\ pc' = "gate" /\ UNCHANGED <<outcome, tree>>
             /\ summary' \in SUBSET [class : Classes, layer : Layers \cup {"none"}, name : LiveNames]
    <3>1. RowsInv'
      BY <2>1, <2>3 DEF TypeInv, RowsInv
    <3>2. TypeOK'
      BY <2>1, <2>3 DEF TypeInv, TypeOK, LiveNames, StackInv, SetOfClaims, Record, Runs, Layers
    <3> QED
      BY <3>1, <3>2 DEF TypeInv
  <2> QED
    BY <1>11, <2>1, <2>2, <2>3, SummaryTypes DEF Compare
<1>12. CASE Gate
  <2>1. UNCHANGED <<sut, installed, run, class, attempt, rows, summary, lost>> /\ pc = "gate"
    BY <1>12 DEF Gate, setup, records, history
  <2>2. CASE Refuse("nothing_graded")
    BY <1>0, <2>1, <2>2, RefuseTypes
  <2>3. CASE pc' = "done" /\ outcome' \in {"exit0", "exit1"} /\ UNCHANGED tree
    <3>1. RowsInv'
      BY <2>1, <2>3 DEF TypeInv, RowsInv
    <3>2. TypeOK'
      BY <2>1, <2>3 DEF TypeInv, TypeOK, StackInv, SetOfClaims, Record, Runs, Layers
    <3> QED
      BY <3>1, <3>2 DEF TypeInv
  <2> QED
    BY <1>12, <2>2, <2>3 DEF Gate
<1>13. CASE Uninstall
  BY <1>0, <1>13, SameRowsTypes DEF Uninstall, setup, mutant, records, history
<1>14. CASE UNCHANGED vars
  BY <1>0, <1>14, SameRowsTypes DEF vars, setup, mutant, records, history
<1> QED
  BY <1>1, <1>2, <1>3, <1>4, <1>5, <1>6, <1>7, <1>8, <1>9, <1>10, <1>11, <1>12,
     <1>13, <1>14 DEF Next, Step

(* Initially there is no tree, no row and no record.                       *)
LEMMA TypeInit == Init => TypeInv
<1> SUFFICES ASSUME Init PROVE TypeInv
  OBVIOUS
<1>1. 1 \in 1 .. NumClasses + 1 /\ 1 \in 1 .. ATTEMPTS
  BY SuiteAssumption DEF ATTEMPTS
<1>2. RowsInv
  BY DEF Init, RowsInv, Runs
<1>3. /\ rows \in [Runs -> Seq(Row)] /\ said \in [Runs -> Seq(SUBSET AllClaims)]
      /\ runs \in [Layers -> Seq([claimed : Nat, survived : Nat, dropped : SUBSET AllClaims])]
  BY DEF Init
<1>4. TypeOK
  <2>1. /\ sut \in [external : BOOLEAN, reads : Declarations] /\ stack \in Stacks
        /\ installed \in BOOLEAN
    BY DEF Init
  <2>2. /\ pc = "preflight" /\ run \in Runs /\ class = 1 /\ at = 1 /\ attempt = 1
        /\ claims = {} /\ tree = "none" /\ summary = {} /\ outcome = "none" /\ lost = {}
    BY DEF Init, Runs
  <2>3. /\ pc \in {"preflight", "class", "analyze", "layer", "close", "compare", "gate", "done"}
        /\ at \in Nat \ {0} /\ claims \in SUBSET AllClaims
        /\ tree \in {"none", "present", "gone"}
        /\ summary \in SUBSET [class : Classes, layer : Layers \cup {"none"},
                               name : UNION {{a.name : a \in Live[c]} : c \in Classes}]
        /\ outcome \in {"none", "missing", "incomplete", "not_a_veto",
                        "nothing_graded", "exit0", "exit1"}
        /\ lost \in SUBSET {"analyzer", "tree", "gate"}
    BY <2>2
  <2> QED
    BY <1>1, <1>3, <2>1, <2>2, <2>3 DEF TypeOK
<1> QED
  BY <1>2, <1>4 DEF TypeInv

(* The variables have their types for every catalogue, and between two     *)
(* classes there is no throwaway repository (close_repo).                  *)
THEOREM TypeCorrect == Spec => []TypeOK
<1>1. TypeInv => TypeOK
  BY DEF TypeInv
<1> QED
  BY <1>1, StackInit, StackStep, TypeInit, TypeStep, PTL DEF Spec

-----------------------------------------------------------------------------
(* The verdict: what a published exit code rests on, and what an analyzer  *)
(* that answers twice the same gets.                                       *)

(* The first n rows of a run grade what the stack kept of the answers.     *)
RowsOf(r, n) ==
  \A c \in 1 .. n :
    rows[r][c] = IF reads_mutant(c) THEN grade(c, Kept(r, Answered(c)))
                                    ELSE NotReadRow(c)

VerdictInv ==
  /\ RowsOf(run, Len(rows[run]))
  /\ pc # "done" =>
       Len(said[run]) = Answered(Len(rows[run])) + (IF pc = "layer" THEN 1 ELSE 0)
  /\ pc \in {"analyze", "layer"} => reads_mutant(class)
  /\ pc \in {"compare", "gate"} => Len(rows[run]) = NumClasses
  /\ run = "gated" =>
       /\ RowsOf("bare", NumClasses)
       /\ Len(said["bare"]) = Answered(NumClasses)
  /\ run = "bare" /\ pc = "layer" => claims = said["bare"][Len(said["bare"])]
  /\ VerdictIsEarned

(* The accounts of the stack balance as they are written: each layer is    *)
(* handed what the one inside it passed on.                                *)
AccountInv ==
  run = "gated" =>
    /\ \A n \in DOMAIN stack : \A j \in DOMAIN runs[stack[n]] :
         LET mine == runs[stack[n]][j]
         IN  /\ mine.survived + Cardinality(mine.dropped) = mine.claimed
             /\ n > 1 => mine.claimed = runs[stack[n - 1]][j].survived
    /\ pc = "layer" /\ at > 1 =>
         runs[stack[at - 1]][Len(said["gated"])].survived = Cardinality(claims)

(* Nothing is summed up before the comparison.                             *)
HealthInv ==
  /\ pc \notin {"gate", "done"} => summary = {}
  /\ outcome # "none" => pc = "done"
  /\ HealthyRunAttributes

-----------------------------------------------------------------------------
(* How many answers a run has had.                                         *)
LEMMA AnsweredNext ==
  /\ Answered(0) = 0
  /\ \A n \in Nat :
       /\ Answered(n) \in Nat
       /\ Answered(n + 1) = IF reads_mutant(n + 1) THEN Answered(n) + 1 ELSE Answered(n)
<1> DEFINE A(n) == {c \in 1 .. n : reads_mutant(c)}
<1>1. A(0) = {}
  OBVIOUS
<1>2. ASSUME NEW n \in Nat
      PROVE  /\ IsFiniteSet(A(n))
             /\ n + 1 \notin A(n)
             /\ A(n + 1) = IF reads_mutant(n + 1) THEN A(n) \cup {n + 1} ELSE A(n)
  <2>1. A(n) \in SUBSET (1 .. n) /\ IsFiniteSet(1 .. n)
    BY FS_Interval
  <2>2. IsFiniteSet(A(n))
    BY <2>1, FS_Subset
  <2>3. 1 .. n + 1 = (1 .. n) \cup {n + 1} /\ n + 1 \notin 1 .. n
    OBVIOUS
  <2> QED
    BY <2>2, <2>3
<1>3. \A n : Answered(n) = Cardinality(A(n))
  BY DEF Answered
<1> HIDE DEF A
<1>4. Answered(0) = 0
  BY <1>1, <1>3, FS_EmptySet
<1>5. ASSUME NEW n \in Nat
      PROVE  /\ Answered(n) \in Nat
             /\ Answered(n + 1) = IF reads_mutant(n + 1) THEN Answered(n) + 1 ELSE Answered(n)
  <2>1. IsFiniteSet(A(n)) /\ n + 1 \notin A(n)
    BY <1>2, <1>5
  <2>2. Cardinality(A(n)) \in Nat
    BY ONLY <2>1, FS_CardinalityType
  <2>3. Cardinality(A(n) \cup {n + 1}) = Cardinality(A(n)) + 1
    BY ONLY <2>1, FS_AddElement
  <2> QED
    BY <1>2, <1>3, <1>5, <2>2, <2>3
<1> QED
  BY <1>4, <1>5

LEMMA AnsweredGrows ==
  ASSUME NEW m \in Nat, NEW n \in Nat, m <= n
  PROVE  /\ Answered(m) <= Answered(n)
         /\ reads_mutant(n) /\ m < n => Answered(m) < Answered(n)
<1> DEFINE T == {k \in 0 .. n : k >= m => Answered(m) <= Answered(k)}
<1>1. 0 \in T
  BY AnsweredNext
<1>2. ASSUME NEW k \in 0 .. n - 1, k \in T
      PROVE  k + 1 \in T
  <2>1. k \in Nat /\ Answered(k) \in Nat /\ Answered(k + 1) \in Nat /\ Answered(m) \in Nat
    BY AnsweredNext
  <2>2. Answered(k) <= Answered(k + 1)
    BY <2>1, AnsweredNext
  <2>3. CASE m = k + 1
    BY <2>1, <2>3
  <2>4. CASE m <= k
    BY <1>2, <2>1, <2>2, <2>4
  <2> QED
    BY <2>1, <2>3, <2>4
<1>3. \A k \in 0 .. n : k \in T
  <2>1. \A k \in 0 .. n - 1 : k \in T => k + 1 \in T
    BY <1>2
  <2> HIDE DEF T
  <2> QED
    BY <1>1, <2>1, Upwards
<1>4. Answered(m) <= Answered(n)
  BY <1>3
<1>5. ASSUME reads_mutant(n), m < n
      PROVE  Answered(m) < Answered(n)
  <2>1. n - 1 \in 0 .. n /\ n - 1 \in Nat /\ (n - 1) + 1 = n /\ n - 1 >= m
    BY <1>5
  <2>2. Answered(m) <= Answered(n - 1)
    BY <1>3, <2>1
  <2>3. Answered(n) = Answered(n - 1) + 1
    BY <1>5, <2>1, AnsweredNext
  <2>4. Answered(m) \in Nat /\ Answered(n - 1) \in Nat
    BY <2>1, AnsweredNext
  <2> QED
    BY <2>2, <2>3, <2>4
<1> QED
  BY <1>4, <1>5

(* The answer of an analyzed class is one of the answers so far.           *)
LEMMA AnswerOf ==
  ASSUME NEW n \in Nat, NEW c \in 1 .. n, reads_mutant(c)
  PROVE  Answered(c) \in 1 .. Answered(n)
<1>1. /\ c \in Nat /\ c - 1 \in Nat /\ (c - 1) + 1 = c /\ c <= n
      /\ Answered(c) \in Nat /\ Answered(c - 1) \in Nat /\ Answered(n) \in Nat
  <2>1. c \in Nat /\ c - 1 \in Nat /\ (c - 1) + 1 = c /\ c <= n
    OBVIOUS
  <2> QED
    BY <2>1, AnsweredNext
<1>2. Answered(c) = Answered(c - 1) + 1
  BY <1>1, AnsweredNext
<1>3. Answered(c) <= Answered(n)
  BY <1>1, AnsweredGrows
<1> QED
  BY <1>1, <1>2, <1>3

-----------------------------------------------------------------------------
(* Once the last layer has had its turn the claims in flight are what the  *)
(* stack kept of the answer.                                               *)
LEMMA KeptInFlight ==
  ASSUME StackInv, pc = "layer", run = "gated", at \notin DOMAIN stack
  PROVE  claims = Kept("gated", Len(said["gated"]))
<1> DEFINE J == Len(said["gated"])
           d(n) == runs[stack[n]][J].dropped
<1>1. /\ stack \in Seq(Layers) /\ J \in Nat /\ J > 0
      /\ at = Len(stack) + 1 /\ DOMAIN stack = 1 .. at - 1
  BY StackFacts DEF StackInv, Runs
<1>2. /\ said["gated"][J] = claims \cup UNION {d(n) : n \in DOMAIN stack}
      /\ \A n \in DOMAIN stack : d(n) \cap claims = {}
  <2>1. DropIsAbsorbing
    BY DEF StackInv
  <2> QED
    BY <1>1, <2>1 DEF DropIsAbsorbing
<1>3. ASSUME NEW n \in DOMAIN stack
      PROVE  J \in DOMAIN runs[stack[n]] /\ d(n) \subseteq AllClaims
  <2>1. stack[n] \in Layers /\ runs[stack[n]] \in Seq(Record) /\ n \in Nat /\ n < at
    BY <1>1, <1>3 DEF StackInv
  <2>2. Recorded(n)
    BY <1>3 DEF StackInv
  <2>3. Len(runs[stack[n]]) = J
    BY <1>1, <2>1, <2>2 DEF Recorded
  <2>4. runs[stack[n]][J] \in Record
    BY <1>1, <2>1, <2>3
  <2>5. \A r \in Record : r.dropped \subseteq AllClaims
    BY ONLY DEF Record, SetOfClaims
  <2> QED
    BY <1>1, <2>1, <2>3, <2>4, <2>5
<1>4. DroppedFrom(J) = UNION {d(n) : n \in DOMAIN stack}
  BY <1>3 DEF DroppedFrom
<1> QED
  BY <1>2, <1>4 DEF Kept

(* A layer adds to the drops of the last answer only.                      *)
LEMMA DropsOfOthers ==
  ASSUME StackInv, NEW layer, NEW dropped \in SUBSET claims,
         Turn(layer), Filter(layer, dropped), NEW j, j # Len(said["gated"])
  PROVE  DroppedFrom(j)' = DroppedFrom(j)
<1> DEFINE J == Len(said["gated"])
<1>1. /\ pc = "layer" /\ run = "gated" /\ at \in DOMAIN stack /\ layer = stack[at]
      /\ stack \in Seq(Layers) /\ UNCHANGED stack
  BY StackFacts DEF Turn, layers, StackInv, Runs, Filter, setup
<1>2. /\ layer \in Layers /\ runs[layer] \in Seq(Record)
      /\ J \in Nat /\ J > 0 /\ Len(runs[layer]) = J - 1
  <2>1. Recorded(at) /\ at \in Nat
    BY <1>1 DEF StackInv
  <2> QED
    BY <1>1, <2>1 DEF StackInv, Recorded, Runs
<1>3. PICK r : runs' = [runs EXCEPT ![layer] = Append(@, r)]
  BY DEF Filter
<1>4. ASSUME NEW n \in DOMAIN stack, NEW k
      PROVE  j \in DOMAIN runs'[stack[n]] /\ k \in runs'[stack[n]][j].dropped
             <=> j \in DOMAIN runs[stack[n]] /\ k \in runs[stack[n]][j].dropped
  <2>1. stack[n] \in Layers /\ runs \in [Layers -> Seq(Record)]
    BY <1>1, <1>4 DEF StackInv
  <2>2. CASE stack[n] # layer
    BY <1>3, <2>1, <2>2
  <2>3. CASE stack[n] = layer
    <3>1. runs'[stack[n]] = Append(runs[layer], r)
      BY <1>2, <1>3, <2>1, <2>3
    <3>2. /\ DOMAIN runs[layer] = 1 .. J - 1
          /\ DOMAIN Append(runs[layer], r) = 1 .. J
          /\ \A i \in 1 .. J - 1 : Append(runs[layer], r)[i] = runs[layer][i]
      BY <1>2
    <3>3. j \in 1 .. J <=> j \in 1 .. J - 1
      BY <1>2
    <3> QED
      BY <2>3, <3>1, <3>2, <3>3
  <2> QED
    BY <2>2, <2>3
<1> QED
  BY <1>1, <1>4 DEF DroppedFrom

-----------------------------------------------------------------------------
(* What leaves the reports and the answers alone leaves what was kept.     *)
LEMMA KeptSame ==
  ASSUME UNCHANGED <<sut, stack, rows, runs, said>>
  PROVE  /\ \A n : Answered(n)' = Answered(n)
         /\ \A c : reads_mutant(c)' = reads_mutant(c)
         /\ \A r, j : Kept(r, j)' = Kept(r, j)
         /\ \A r, n : RowsOf(r, n) => RowsOf(r, n)'
<1>1. \A c : reads_mutant(c)' = reads_mutant(c)
  BY DEF reads_mutant
<1>2. \A n : Answered(n)' = Answered(n)
  BY <1>1 DEF Answered
<1>3. \A j : DroppedFrom(j)' = DroppedFrom(j)
  BY DEF DroppedFrom
<1>4. \A r, j : Kept(r, j)' = Kept(r, j)
  BY <1>3 DEF Kept
<1> QED
  BY <1>1, <1>2, <1>4 DEF RowsOf

(* A step that neither grades nor answers, and does not publish.           *)
LEMMA QuietStep ==
  ASSUME VerdictInv, LostInv,
         UNCHANGED <<sut, stack, run, rows, runs, said>>,
         (~ Published') \/ (UNCHANGED outcome /\ UNCHANGED pc),
         \/ pc' = pc /\ UNCHANGED <<class, claims>>
         \/ pc' = "done"
         \/ pc = "preflight" /\ pc' = "class"
         \/ pc = "class" /\ pc' = "analyze" /\ reads_mutant(class) /\ UNCHANGED class
         \/ pc = "close" /\ pc' = "class"
         \/ pc = "compare" /\ pc' = "gate"
         \/ pc = "class" /\ pc' \in {"compare", "gate"} /\ Len(rows[run]) = NumClasses
  PROVE  VerdictInv'
<1>1. /\ \A n : Answered(n)' = Answered(n)
      /\ \A c : reads_mutant(c)' = reads_mutant(c)
      /\ \A r, j : Kept(r, j)' = Kept(r, j)
      /\ \A r, n : RowsOf(r, n) => RowsOf(r, n)'
  BY KeptSame
<1>2. RowsOf(run, Len(rows[run]))'
  <2>1. RowsOf(run, Len(rows[run]))
    BY DEF VerdictInv
  <2>2. RowsOf(run, Len(rows[run]))'
    BY <1>1, <2>1 DEF RowsOf
  <2> QED
    BY <2>2
<1>3. run' = "gated" =>
        RowsOf("bare", NumClasses)' /\ Len(said'["bare"]) = Answered(NumClasses)'
  BY <1>1 DEF VerdictInv
<1>4. (pc # "done" =>
         Len(said[run]) = Answered(Len(rows[run])) + (IF pc = "layer" THEN 1 ELSE 0))'
  <2>1. Answered(Len(rows[run]))' = Answered(Len(rows[run]))
    BY <1>1 DEF Answered
  <2> QED
    BY <2>1 DEF VerdictInv
<1>6. /\ (pc \in {"analyze", "layer"} => reads_mutant(class))'
      /\ (pc \in {"compare", "gate"} => Len(rows[run]) = NumClasses)'
      /\ (run = "bare" /\ pc = "layer" => claims = said["bare"][Len(said["bare"])])'
  BY <1>1 DEF VerdictInv, reads_mutant
<1>5. VerdictIsEarned'
  <2>1. CASE ~ Published'
    BY <2>1 DEF VerdictIsEarned
  <2>2. CASE UNCHANGED outcome
    <3>1. VerdictIsEarned
      BY DEF VerdictInv
    <3>2. \A c, K : false_removals(c, K)' = false_removals(c, K)
      BY DEF false_removals
    <3> QED
      BY <1>1, <2>2, <3>1 DEF VerdictIsEarned, Published
  <2> QED
    BY <2>1, <2>2
<1> QED
  BY <1>2, <1>3, <1>4, <1>5, <1>6 DEF VerdictInv

(* A row is added for the class in progress, graded as it should be.       *)
LEMMA RowAddedStep ==
  ASSUME VerdictInv, LostInv, TypeInv, NEW row,
         row = (IF reads_mutant(class) THEN grade(class, Kept(run, Answered(class)))
                                       ELSE NotReadRow(class)),
         pc \in {"class", "layer"}, class \in Classes,
         pc = "class" => ~ reads_mutant(class),
         pc' = (IF pc = "class" THEN "class" ELSE "close"),
         rows' = [rows EXCEPT ![run] = Append(@, row)],
         UNCHANGED <<sut, stack, run, runs, said, outcome>>
  PROVE  VerdictInv'
<1>1. /\ \A n : Answered(n)' = Answered(n)
      /\ \A r, j : Kept(r, j)' = Kept(r, j)
      /\ \A c : reads_mutant(c)' = reads_mutant(c)
  <2>1. \A c : reads_mutant(c)' = reads_mutant(c)
    BY DEF reads_mutant
  <2>2. \A n : Answered(n)' = Answered(n)
    BY <2>1 DEF Answered
  <2>3. \A j : DroppedFrom(j)' = DroppedFrom(j)
    BY DEF DroppedFrom
  <2> QED
    BY <2>1, <2>2, <2>3 DEF Kept
<1>2. /\ rows \in [Runs -> Seq(Row)] /\ run \in Runs /\ Len(rows[run]) = class - 1
      /\ class \in Nat /\ class - 1 \in Nat /\ (class - 1) + 1 = class /\ class \in 1 .. class
  BY DEF TypeInv, TypeOK, RowsInv, Classes
<1>3. /\ rows'[run] = Append(rows[run], row) /\ Len(rows'[run]) = class
      /\ rows'[run][class] = row
      /\ \A c \in 1 .. class - 1 : rows'[run][c] = rows[run][c]
      /\ \A r \in Runs : r # run => rows'[r] = rows[r]
  BY <1>2
<1>4. RowsOf(run, Len(rows[run]))'
  <2>1. RowsOf(run, class - 1)
    BY <1>2 DEF VerdictInv
  <2>2. ASSUME NEW c \in 1 .. class
        PROVE  rows'[run][c] = IF reads_mutant(c) THEN grade(c, Kept(run, Answered(c)))
                                                  ELSE NotReadRow(c)
    <3>1. c = class \/ c \in 1 .. class - 1
      BY <1>2
    <3> QED
      BY <1>3, <2>1, <3>1 DEF RowsOf
  <2>3. \A c, K : grade(c, K)' = grade(c, K) /\ NotReadRow(c)' = NotReadRow(c)
    BY DEF grade, false_removals, NotReadRow
  <2> QED
    BY <1>1, <1>3, <2>2, <2>3 DEF RowsOf
<1>5. Len(said[run]) = Answered(class)
  <2>1. Answered(class) = IF reads_mutant(class) THEN Answered(class - 1) + 1
                                                 ELSE Answered(class - 1)
    BY <1>2, AnsweredNext
  <2>2. Answered(class - 1) \in Nat
    BY <1>2, AnsweredNext
  <2>3. Len(said[run]) = Answered(class - 1) + (IF pc = "layer" THEN 1 ELSE 0)
    BY <1>2 DEF VerdictInv
  <2>4. pc = "layer" => reads_mutant(class)
    BY DEF VerdictInv
  <2> QED
    BY <2>1, <2>2, <2>3, <2>4
<1>6. (run = "gated" => RowsOf("bare", NumClasses) /\ Len(said["bare"]) = Answered(NumClasses))'
  <2> SUFFICES ASSUME run = "gated"
               PROVE  (RowsOf("bare", NumClasses) /\ Len(said["bare"]) = Answered(NumClasses))'
    OBVIOUS
  <2>1. RowsOf("bare", NumClasses) /\ Len(said["bare"]) = Answered(NumClasses)
    BY DEF VerdictInv
  <2>2. rows'["bare"] = rows["bare"]
    BY <1>3 DEF Runs
  <2> QED
    BY <1>1, <2>1, <2>2 DEF RowsOf
<1>7. VerdictIsEarned'
  BY DEF VerdictIsEarned, Published, LostInv
<1>8. (pc # "done" =>
         Len(said[run]) = Answered(Len(rows[run])) + (IF pc = "layer" THEN 1 ELSE 0))'
  <2>1. Answered(Len(rows[run]))' = Answered(class)
    BY <1>1, <1>3 DEF Answered
  <2>2. Answered(class) \in Nat
    BY <1>2, AnsweredNext
  <2> QED
    BY <1>5, <2>1, <2>2
<1> QED
  BY <1>4, <1>6, <1>7, <1>8 DEF VerdictInv

(* The analyzer's answer is the last one, and belongs to no row yet.       *)
LEMMA AnswerVerdictStep ==
  ASSUME VerdictInv, LostInv, TypeInv, StackInv, AnalyzerAnswers
  PROVE  VerdictInv'
<1>1. PICK verdict \in SUBSET Claimable[class] :
        claims' = verdict /\ said' = [said EXCEPT ![run] = Append(@, verdict)]
  BY DEF AnalyzerAnswers
<1>2. /\ pc = "analyze" /\ pc' = "layer"
      /\ UNCHANGED <<sut, stack, run, class, rows, runs, outcome>>
  BY DEF AnalyzerAnswers, setup, records
<1>3. /\ class \in Classes /\ class \in Nat /\ reads_mutant(class)
      /\ verdict \in SetOfClaims /\ run \in Runs
      /\ said \in [Runs -> Seq(SetOfClaims)]
  BY <1>2 DEF VerdictInv, StackInv, SetOfClaims, AllClaims
<1>4. /\ Len(said'[run]) = Len(said[run]) + 1
      /\ said'[run][Len(said'[run])] = verdict
      /\ \A j \in 1 .. Len(said[run]) : said'[run][j] = said[run][j]
      /\ \A r \in Runs : r # run => said'[r] = said[r]
  BY <1>1, <1>3
<1>5. Len(said[run]) = Answered(Len(rows[run])) /\ Answered(Len(rows[run])) \in Nat
  <2>1. Len(said[run]) = Answered(Len(rows[run])) + 0
    BY <1>2 DEF VerdictInv
  <2>2. Len(rows[run]) \in Nat
    BY DEF TypeInv, TypeOK
  <2>3. Answered(Len(rows[run])) \in Nat
    BY <2>2, AnsweredNext
  <2> QED
    BY <2>1, <2>3
<1>6. /\ \A c : reads_mutant(c)' = reads_mutant(c)
      /\ \A n : Answered(n)' = Answered(n)
      /\ \A j : DroppedFrom(j)' = DroppedFrom(j)
      /\ \A c, K : grade(c, K)' = grade(c, K) /\ NotReadRow(c)' = NotReadRow(c)
  <2>1. \A c : reads_mutant(c)' = reads_mutant(c)
    BY <1>2 DEF reads_mutant
  <2>2. \A n : Answered(n)' = Answered(n)
    BY <2>1 DEF Answered
  <2>3. \A j : DroppedFrom(j)' = DroppedFrom(j)
    BY <1>2 DEF DroppedFrom
  <2> QED
    BY <2>1, <2>2, <2>3 DEF grade, false_removals, NotReadRow
<1>7. /\ \A j \in 1 .. Len(said[run]) : Kept(run, j)' = Kept(run, j)
      /\ \A r \in Runs : \A j : r # run => Kept(r, j)' = Kept(r, j)
  BY <1>2, <1>4, <1>6 DEF Kept
<1>8. RowsOf(run, Len(rows[run]))'
  <2>1. \A c \in 1 .. Len(rows[run]) : reads_mutant(c) =>
          Answered(c) \in 1 .. Len(said[run])
    <3>1. Len(rows[run]) \in Nat
      BY DEF TypeInv, TypeOK
    <3> QED
      BY <1>5, <3>1, AnswerOf
  <2>2. RowsOf(run, Len(rows[run]))
    BY DEF VerdictInv
  <2>3. \A c \in 1 .. Len(rows[run]) : reads_mutant(c) =>
          Kept(run, Answered(c))' = Kept(run, Answered(c))
    <3> SUFFICES ASSUME NEW c \in 1 .. Len(rows[run]), reads_mutant(c)
                 PROVE  Kept(run, Answered(c))' = Kept(run, Answered(c))
      OBVIOUS
    <3>1. Answered(c) \in 1 .. Len(said[run]) /\ Answered(c)' = Answered(c)
      BY <1>6, <2>1
    <3>2. \A j \in 1 .. Len(said[run]) : Kept(run, j)' = Kept(run, j)
      BY <1>7
    <3>3. \A j : Kept(run, j)' = said'[run'][j] \ (IF run' = "gated" THEN DroppedFrom(j)' ELSE {})
      BY DEF Kept
    <3> QED
      BY <3>1, <3>2, <3>3 DEF Kept
  <2> QED
    BY <1>2, <1>6, <2>2, <2>3 DEF RowsOf
<1>9. (run = "gated" => RowsOf("bare", NumClasses) /\ Len(said["bare"]) = Answered(NumClasses))'
  <2> SUFFICES ASSUME run = "gated"
               PROVE  (RowsOf("bare", NumClasses) /\ Len(said["bare"]) = Answered(NumClasses))'
    BY <1>2
  <2>1. RowsOf("bare", NumClasses) /\ Len(said["bare"]) = Answered(NumClasses)
    BY DEF VerdictInv
  <2>2. said'["bare"] = said["bare"] /\ UNCHANGED rows
    BY <1>2, <1>4 DEF Runs
  <2>3. \A c : reads_mutant(c) => Kept("bare", Answered(c))' = Kept("bare", Answered(c))
    BY <1>6, <2>2 DEF Kept
  <2>4. RowsOf("bare", NumClasses)'
    BY <1>6, <2>1, <2>2, <2>3 DEF RowsOf
  <2>5. Answered(NumClasses)' = Answered(NumClasses)
    BY <1>6
  <2> QED
    BY <2>1, <2>2, <2>4, <2>5
<1>10. (pc # "done" =>
         Len(said[run]) = Answered(Len(rows[run])) + (IF pc = "layer" THEN 1 ELSE 0))'
  <2>1. Answered(Len(rows[run]))' = Answered(Len(rows[run]))
    BY <1>2, <1>6 DEF Answered
  <2> QED
    BY <1>2, <1>4, <1>5, <2>1
<1>11. VerdictIsEarned'
  BY <1>2 DEF VerdictIsEarned, Published, LostInv
<1>12. reads_mutant(class)'
  BY <1>2, <1>3 DEF reads_mutant
<1>13. run' = "bare" => claims' = said'["bare"][Len(said'["bare"])]
  BY <1>1, <1>2, <1>4
<1> QED
  BY <1>2, <1>8, <1>9, <1>10, <1>11, <1>12, <1>13 DEF VerdictInv

(* A layer's drops concern the class in progress, which has no row yet.    *)
LEMMA FilterVerdictStep ==
  ASSUME VerdictInv, LostInv, TypeInv, StackInv,
         NEW layer, NEW dropped \in SUBSET claims,
         Turn(layer), Filter(layer, dropped)
  PROVE  VerdictInv'
<1>1. /\ pc = "layer" /\ run = "gated"
      /\ UNCHANGED <<sut, stack, pc, run, class, rows, said, outcome>>
  BY DEF Turn, layers, StackInv, Runs, Filter, setup, history
<1>2. /\ \A c : reads_mutant(c)' = reads_mutant(c)
      /\ \A n : Answered(n)' = Answered(n)
      /\ \A c, K : grade(c, K)' = grade(c, K) /\ NotReadRow(c)' = NotReadRow(c)
  <2>1. \A c : reads_mutant(c)' = reads_mutant(c)
    BY <1>1 DEF reads_mutant
  <2>2. \A n : Answered(n)' = Answered(n)
    BY <2>1 DEF Answered
  <2> QED
    BY <2>1, <2>2 DEF grade, false_removals, NotReadRow
<1>3. /\ Len(rows[run]) \in Nat
      /\ Len(said[run]) = Answered(Len(rows[run])) + 1
      /\ Answered(Len(rows[run])) \in Nat
  <2>1. Len(rows[run]) \in Nat
    BY DEF TypeInv, TypeOK
  <2>2. Len(said[run]) = Answered(Len(rows[run])) + 1
    BY <1>1 DEF VerdictInv
  <2> QED
    BY <2>1, <2>2, AnsweredNext
<1>4. ASSUME NEW j, j # Len(said["gated"]), NEW r
      PROVE  Kept(r, j)' = Kept(r, j)
  <2>1. DroppedFrom(j)' = DroppedFrom(j)
    BY <1>4, DropsOfOthers
  <2> QED
    BY <1>1, <2>1 DEF Kept
<1>5. RowsOf(run, Len(rows[run]))'
  <2>1. \A c \in 1 .. Len(rows[run]) : reads_mutant(c) =>
          Answered(c) # Len(said["gated"])
    <3>1. \A c \in 1 .. Len(rows[run]) : reads_mutant(c) =>
            Answered(c) \in 1 .. Answered(Len(rows[run]))
      BY <1>3, AnswerOf
    <3> QED
      BY <1>1, <1>3, <3>1
  <2>2. RowsOf(run, Len(rows[run]))
    BY DEF VerdictInv
  <2>3. \A c \in 1 .. Len(rows[run]) : reads_mutant(c) =>
          Kept(run, Answered(c))' = Kept(run, Answered(c))
    <3>1. \A c \in 1 .. Len(rows[run]) : reads_mutant(c) =>
            DroppedFrom(Answered(c))' = DroppedFrom(Answered(c))
      <4> TAKE c \in 1 .. Len(rows[run])
      <4> HAVE reads_mutant(c)
      <4>1. PICK j : j = Answered(c)
        OBVIOUS
      <4>2. j # Len(said["gated"]) /\ Answered(c)' = j
        BY <1>2, <2>1, <4>1
      <4>3. DroppedFrom(j)' = DroppedFrom(j)
        BY <4>2, DropsOfOthers
      <4> QED
        BY <4>1, <4>2, <4>3 DEF DroppedFrom
    <3> QED
      BY <1>1, <1>2, <3>1 DEF Kept
  <2> QED
    BY <1>1, <1>2, <2>2, <2>3 DEF RowsOf
<1>6. (run = "gated" => RowsOf("bare", NumClasses) /\ Len(said["bare"]) = Answered(NumClasses))'
  <2>1. RowsOf("bare", NumClasses) /\ Len(said["bare"]) = Answered(NumClasses)
    BY <1>1 DEF VerdictInv
  <2>2. \A j : Kept("bare", j)' = Kept("bare", j)
    BY <1>1 DEF Kept
  <2>3. RowsOf("bare", NumClasses)'
    BY <1>1, <1>2, <2>1, <2>2 DEF RowsOf
  <2>4. Answered(NumClasses)' = Answered(NumClasses)
    BY <1>2
  <2> QED
    BY <1>1, <2>1, <2>3, <2>4
<1>7. (pc # "done" =>
         Len(said[run]) = Answered(Len(rows[run])) + (IF pc = "layer" THEN 1 ELSE 0))'
  <2>1. Answered(Len(rows[run]))' = Answered(Len(rows[run]))
    BY <1>1, <1>2 DEF Answered
  <2> QED
    BY <1>1, <1>3, <2>1
<1>8. VerdictIsEarned'
  BY <1>1 DEF VerdictIsEarned, Published, LostInv
<1>9. reads_mutant(class)'
  BY <1>1 DEF VerdictInv, reads_mutant
<1> QED
  BY <1>1, <1>5, <1>6, <1>7, <1>8, <1>9 DEF VerdictInv

LEMMA GradeStep ==
  ASSUME VerdictInv, LostInv, TypeInv, StackInv, Grade
  PROVE  VerdictInv'
<1>1. /\ pc = "layer" /\ pc' = "close" /\ at \notin DOMAIN layers
      /\ rows' = [rows EXCEPT ![run] = Append(@, grade(class, claims))]
      /\ UNCHANGED <<sut, stack, run, runs, said, outcome>>
  BY DEF Grade, setup, history
<1>2. class \in Classes /\ reads_mutant(class) /\ run \in Runs
  BY <1>1 DEF StackInv, VerdictInv
<1>3. Len(said[run]) = Answered(class)
  <2>1. class \in Nat /\ class - 1 \in Nat /\ (class - 1) + 1 = class
    BY <1>2 DEF Classes
  <2>2. Len(rows[run]) = class - 1
    BY <1>1 DEF TypeInv, RowsInv
  <2>3. Len(said[run]) = Answered(class - 1) + 1
    BY <1>1, <2>2 DEF VerdictInv
  <2> QED
    BY <1>2, <2>1, <2>3, AnsweredNext
<1>4. claims = Kept(run, Len(said[run]))
  <2>1. CASE run = "gated"
    BY <1>1, <2>1, KeptInFlight DEF layers
  <2>2. CASE run = "bare"
    BY <1>1, <2>2 DEF VerdictInv, Kept
  <2> QED
    BY <1>2, <2>1, <2>2 DEF Runs
<1> DEFINE row == grade(class, claims)
<1>5. row = (IF reads_mutant(class) THEN grade(class, Kept(run, Answered(class)))
                                    ELSE NotReadRow(class))
  BY <1>2, <1>3, <1>4
<1> HIDE DEF row
<1>6. rows' = [rows EXCEPT ![run] = Append(@, row)]
  BY <1>1 DEF row
<1> QED
  BY <1>1, <1>2, <1>5, <1>6, RowAddedStep

LEMMA EndRunStep ==
  ASSUME VerdictInv, LostInv, TypeInv, StackInv, EndRun
  PROVE  VerdictInv'
<1>1. /\ pc = "class" /\ class \notin Classes
      /\ UNCHANGED <<sut, stack, rows, runs, said, outcome>>
  BY DEF EndRun, setup, records, history
<1>2. class = NumClasses + 1 /\ Len(rows[run]) = NumClasses /\ NumClasses \in Nat
  BY <1>1, SuiteAssumption DEF TypeInv, TypeOK, RowsInv, Classes
<1>3. CASE run = "bare" /\ run' = "gated" /\ pc' = "class"
  <2>1. /\ \A n : Answered(n)' = Answered(n)
        /\ \A r, n : RowsOf(r, n) => RowsOf(r, n)'
    BY <1>1, KeptSame
  <2>2. rows["gated"] = <<>> /\ said["gated"] = <<>>
    BY <1>3 DEF TypeInv, RowsInv, StackInv
  <2>3. RowsOf(run, Len(rows[run]))'
    <3>1. Len(rows'[run']) = 0
      BY <1>1, <1>3, <2>2
    <3> QED
      BY <3>1 DEF RowsOf
  <2>4. (run = "gated" => RowsOf("bare", NumClasses) /\ Len(said["bare"]) = Answered(NumClasses))'
    <3>1. RowsOf("bare", NumClasses) /\ Len(said["bare"]) = Answered(NumClasses)
      <4>1. RowsOf(run, Len(rows[run]))
        BY DEF VerdictInv
      <4>2. Len(said[run]) = Answered(Len(rows[run])) + 0
        BY <1>1 DEF VerdictInv
      <4>3. Answered(NumClasses) \in Nat
        BY <1>2, AnsweredNext
      <4> QED
        BY <1>2, <1>3, <4>1, <4>2, <4>3
    <3>2. RowsOf("bare", NumClasses)'
      BY <2>1, <3>1
    <3>3. Answered(NumClasses)' = Answered(NumClasses)
      BY <2>1
    <3> QED
      BY <1>1, <3>1, <3>2, <3>3
  <2>5. (pc # "done" =>
           Len(said[run]) = Answered(Len(rows[run])) + (IF pc = "layer" THEN 1 ELSE 0))'
    <3>1. Len(said'[run']) = 0 /\ Len(rows'[run']) = 0
      BY <1>1, <1>3, <2>2
    <3>2. Answered(Len(rows[run]))' = Answered(0)
      BY <2>1, <3>1 DEF Answered
    <3> QED
      BY <1>3, <3>1, <3>2, AnsweredNext
  <2>6. VerdictIsEarned'
    BY <1>1 DEF VerdictIsEarned, Published, LostInv
  <2> QED
    BY <1>3, <2>3, <2>4, <2>5, <2>6 DEF VerdictInv
<1>4. CASE pc' = (IF run = "bare" THEN "gate" ELSE "compare") /\ UNCHANGED run
  <2>1. ~ Published'
    BY <1>1 DEF Published, LostInv
  <2> QED
    BY <1>1, <1>2, <1>4, <2>1, QuietStep
<1> QED
  BY <1>3, <1>4 DEF EndRun

(* What grading says of a class, and what a class nobody read says.        *)
LEMMA GradeFields ==
  \A c, K : /\ grade(c, K).class = c
            /\ grade(c, K).false_removals = false_removals(c, K)
            /\ grade(c, K).decoys_found = Cardinality({d \in Decoys[c] : found(d, K)})
<1> TAKE c, K
<1> DEFINE fr == false_removals(c, K)
           decoys == {d \in Decoys[c] : found(d, K)}
           g == IF fr = {} /\ decoys = Decoys[c] THEN "Passed" ELSE "Failed"
<1>1. grade(c, K) = [class |-> c, grade |-> g, false_removals |-> fr,
                     decoys_found |-> Cardinality(decoys),
                     decoys_total |-> Cardinality(Decoys[c])]
  BY DEF grade
<1> HIDE DEF g, fr, decoys
<1>2. /\ grade(c, K).class = c
      /\ grade(c, K).false_removals = fr
      /\ grade(c, K).decoys_found = Cardinality(decoys)
  BY <1>1
<1> QED
  BY <1>2 DEF fr, decoys

LEMMA NotReadFields ==
  \A c : /\ NotReadRow(c).class = c
         /\ NotReadRow(c).false_removals = {}
         /\ NotReadRow(c).decoys_found = 0
  BY DEF NotReadRow

(* When a class is graded, a class is read.                                *)
LEMMA GradedIsRead ==
  ASSUME VerdictInv, TypeInv, Len(rows[run]) = NumClasses, any_graded(rows[run])
  PROVE  \E c \in Classes : reads_mutant(c)
<1> DEFINE rs == rows[run]
           P == {i \in DOMAIN rs : rs[i].grade # "NotRead"}
<1>1. /\ rs \in Seq(Row) /\ DOMAIN rs = Classes /\ RowsOf(run, NumClasses)
  BY DEF TypeInv, TypeOK, Classes, VerdictInv
<1>2. P # {}
  <2> SUFFICES ASSUME P = {} PROVE FALSE
    OBVIOUS
  <2>1. Picked(rs, P) # <<>> /\ Picked(rs, P) \in Seq(Row)
    <3>1. Picked(rs, P) # <<>>
      BY DEF any_graded, graded
    <3> HIDE DEF P, rs
    <3> QED
      BY <1>1, <3>1, PickedPlaces
  <2>2. Len(Picked(rs, P)) = Cardinality(P \cap (1 .. Len(rs)))
    <3> HIDE DEF P, rs
    <3> QED
      BY <1>1, PickedLength
  <2>3. Len(Picked(rs, P)) = 0
    BY <2>2, FS_EmptySet
  <2> HIDE DEF P
  <2> QED
    BY <2>1, <2>3
<1>3. PICK c \in Classes : rs[c].grade # "NotRead"
  BY <1>1, <1>2
<1>4. reads_mutant(c)
  <2>1. ~ reads_mutant(c) => rs[c] = NotReadRow(c)
    BY <1>1 DEF RowsOf, Classes
  <2> QED
    BY <1>3, <2>1 DEF NotReadRow
<1> QED
  BY <1>4

LEMMA GateStep ==
  ASSUME VerdictInv, LostInv, TypeInv, Gate
  PROVE  VerdictInv'
<1>1. /\ pc = "gate" /\ Len(rows[run]) = NumClasses
      /\ UNCHANGED <<sut, stack, run, rows, runs, said>>
  BY DEF Gate, setup, records, history, VerdictInv
<1>2. CASE Refuse("nothing_graded")
  <2>1. pc' = "done" /\ ~ Published'
    BY <1>2 DEF Refuse, Published
  <2> QED
    BY <1>1, <2>1, QuietStep
<1>3. CASE /\ any_graded(rows[run])
           /\ pc' = "done"
           /\ outcome' = (IF removes_nothing(rows[run]) THEN "exit0" ELSE "exit1")
  <2> DEFINE analyzed == {c \in Classes : reads_mutant(c)}
             kept(c) == Kept(run, Answered(c))
  <2>1. analyzed # {}
    BY <1>1, <1>3, GradedIsRead
  <2>2. Len(said[run]) = Cardinality(analyzed)
    <3>1. Len(said[run]) = Answered(NumClasses) + 0
      BY <1>1 DEF VerdictInv
    <3>2. Answered(NumClasses) \in Nat
      BY AnsweredNext, SuiteAssumption
    <3> QED
      BY <3>1, <3>2 DEF Answered, Classes
  <2>3. removes_nothing(rows[run]) <=> \A c \in analyzed : false_removals(c, kept(c)) = {}
    <3>1. /\ DOMAIN rows[run] = Classes
          /\ RowsOf(run, NumClasses)
      BY <1>1 DEF TypeInv, TypeOK, Classes, VerdictInv
    <3>2. \A c \in Classes :
            rows[run][c].false_removals =
              IF reads_mutant(c) THEN false_removals(c, kept(c)) ELSE {}
      <4> TAKE c \in Classes
      <4>1. rows[run][c] = IF reads_mutant(c) THEN grade(c, kept(c)) ELSE NotReadRow(c)
        BY <3>1 DEF RowsOf, Classes
      <4> HIDE DEF kept
      <4>2. /\ grade(c, kept(c)).false_removals = false_removals(c, kept(c))
            /\ NotReadRow(c).false_removals = {}
        BY GradeFields, NotReadFields
      <4> QED
        BY <4>1, <4>2
    <3> HIDE DEF kept
    <3> QED
      BY <3>1, <3>2 DEF removes_nothing
  <2>4. (outcome' = "exit0") <=> removes_nothing(rows[run])
    BY <1>3
  <2>5. /\ \A n : Answered(n)' = Answered(n)
        /\ \A c : reads_mutant(c)' = reads_mutant(c)
        /\ \A r, j : Kept(r, j)' = Kept(r, j)
        /\ \A r, n : RowsOf(r, n) => RowsOf(r, n)'
    BY <1>1, KeptSame
  <2>6. VerdictIsEarned'
    <3>1. {c \in Classes : reads_mutant(c)}' = analyzed
      BY <2>5
    <3>2. \A c \in analyzed : (false_removals(c, Kept(run, Answered(c))) = {})'
                               <=> false_removals(c, kept(c)) = {}
      <4>1. \A c : Kept(run, Answered(c))' = kept(c)
        BY <1>1, <2>5 DEF Kept
      <4> HIDE DEF kept
      <4> QED
        BY <4>1 DEF false_removals
    <3> HIDE DEF kept
    <3> QED
      BY <1>1, <2>1, <2>2, <2>3, <2>4, <2>5, <3>1, <3>2 DEF VerdictIsEarned
  <2>7. RowsOf(run, Len(rows[run]))'
    <3>1. RowsOf(run, Len(rows[run]))
      BY DEF VerdictInv
    <3> QED
      BY <1>1, <2>5, <3>1 DEF RowsOf
  <2>8. (run = "gated" => RowsOf("bare", NumClasses) /\ Len(said["bare"]) = Answered(NumClasses))'
    BY <1>1, <2>5 DEF VerdictInv
  <2> QED
    BY <1>3, <2>6, <2>7, <2>8 DEF VerdictInv
<1> QED
  BY <1>2, <1>3 DEF Gate

LEMMA VerdictStep ==
  VerdictInv /\ LostInv /\ TypeInv /\ StackInv /\ [Next]_vars => VerdictInv'
<1> SUFFICES ASSUME VerdictInv, LostInv, TypeInv, StackInv, [Next]_vars
             PROVE  VerdictInv'
  OBVIOUS
<1> USE DEF setup, mutant, records, history
<1>1. CASE Start
  <2>1. ~ Published'
    BY <1>1 DEF Start, Refuse, Published, LostInv
  <2> QED
    BY <1>1, <2>1, QuietStep DEF Start, Refuse
<1>2. CASE SkipClass
  <2> DEFINE row == NotReadRow(class)
  <2>1. row = (IF reads_mutant(class) THEN grade(class, Kept(run, Answered(class)))
                                      ELSE NotReadRow(class))
    BY <1>2 DEF SkipClass
  <2>2. /\ rows' = [rows EXCEPT ![run] = Append(@, row)]
        /\ pc = "class" /\ pc' = "class" /\ class \in Classes /\ ~ reads_mutant(class)
        /\ UNCHANGED <<sut, stack, run, runs, said, outcome>>
    BY <1>2 DEF SkipClass
  <2> HIDE DEF row
  <2> QED
    BY <2>1, <2>2, RowAddedStep
<1>3. CASE Materialize
  <2>1. ~ Published'
    BY <1>3 DEF Materialize, Refuse, Published, LostInv
  <2> QED
    BY <1>3, <2>1, QuietStep DEF Materialize, Refuse
<1>4. CASE AnalyzerAnswers
  BY <1>4, AnswerVerdictStep
<1>5. CASE AnalyzerFails \/ GateFails
  <2>1. ~ Published' /\ pc' = "done"
    BY <1>5 DEF AnalyzerFails, AnalyzerError, GateFails, Refuse, Published
  <2> QED
    BY <1>5, <2>1, QuietStep DEF AnalyzerFails, AnalyzerError, GateFails
<1>6. CASE Gate1Run \/ Gate3fRun \/ CoverageRun \/ RootsRun \/ VetoRun
  <2>1. PICK layer \in Layers, dropped \in SUBSET claims :
          Turn(layer) /\ Filter(layer, dropped)
    BY <1>6 DEF Gate1Run, Gate3fRun, CoverageRun, RootsRun, VetoRun, Layers
  <2> QED
    BY <2>1, FilterVerdictStep
<1>7. CASE Grade
  BY <1>7, GradeStep
<1>8. CASE CloseRepo
  <2>1. ~ Published'
    BY <1>8 DEF CloseRepo, Refuse, Published, LostInv
  <2> QED
    BY <1>8, <2>1, QuietStep DEF CloseRepo, Refuse
<1>9. CASE EndRun
  BY <1>9, EndRunStep
<1>10. CASE Compare
  <2>1. ~ Published'
    BY <1>10 DEF Compare, Refuse, Published, LostInv
  <2> QED
    BY <1>10, <2>1, QuietStep DEF Compare, Refuse
<1>11. CASE Gate
  BY <1>11, GateStep
<1>12. CASE Uninstall
  <2>1. ~ Published'
    BY <1>12 DEF Uninstall, Published, LostInv
  <2> QED
    BY <1>12, <2>1, QuietStep DEF Uninstall
<1>13. CASE UNCHANGED vars
  BY <1>13, QuietStep DEF vars
<1> QED
  BY <1>1, <1>2, <1>3, <1>4, <1>5, <1>6, <1>7, <1>8, <1>9, <1>10, <1>11, <1>12,
     <1>13 DEF Next, Step

LEMMA VerdictInit == Init => VerdictInv
<1> SUFFICES ASSUME Init PROVE VerdictInv
  OBVIOUS
<1>1. /\ rows[run] = <<>> /\ said[run] = <<>> /\ pc = "preflight" /\ run = "bare"
      /\ outcome = "none"
  BY DEF Init, Runs
<1>2. Len(rows[run]) = 0 /\ Len(said[run]) = 0 /\ 1 .. 0 = {}
  BY <1>1
<1>3. RowsOf(run, Len(rows[run]))
  BY <1>2 DEF RowsOf
<1>4. Answered(Len(rows[run])) = 0
  BY <1>2, AnsweredNext
<1> QED
  BY <1>1, <1>2, <1>3, <1>4 DEF VerdictInv, VerdictIsEarned, Published

(* The exit code of a published verdict says what is left of the answers   *)
(* of the run that is gated, for every catalogue, analyzer and stack.      *)
THEOREM Earned == Spec => []VerdictIsEarned
<1>1. VerdictInv => VerdictIsEarned
  BY DEF VerdictInv
<1>2. Spec => []VerdictInv
  BY VerdictInit, VerdictStep, LostInit, LostStep, TypeInit, TypeStep, StackInit, StackStep,
     PTL DEF Spec
<1> QED
  BY <1>1, <1>2, PTL

-----------------------------------------------------------------------------
(* What a layer passes on and what it drops are what it was handed.        *)
LEMMA Splits ==
  ASSUME NEW S, IsFiniteSet(S), NEW D \in SUBSET S
  PROVE  /\ Cardinality(S) \in Nat /\ Cardinality(D) \in Nat /\ Cardinality(S \ D) \in Nat
         /\ Cardinality(S \ D) + Cardinality(D) = Cardinality(S)
<1>1. /\ IsFiniteSet(D) /\ IsFiniteSet(S \ D)
  BY FS_Subset
<1>2. Cardinality(S \ D) = Cardinality(S) - Cardinality(S \cap D)
  BY FS_Difference
<1>3. Cardinality(S \cap D) = Cardinality(D)
  <2>1. S \cap D = D
    OBVIOUS
  <2> QED
    BY <2>1
<1>4. Cardinality(S) \in Nat /\ Cardinality(D) \in Nat /\ Cardinality(S \ D) \in Nat
  BY <1>1, FS_CardinalityType
<1> QED
  BY <1>2, <1>3, <1>4

LEMMA FilterAccountStep ==
  ASSUME AccountInv, StackInv, NEW layer, NEW dropped \in SUBSET claims,
         Turn(layer), Filter(layer, dropped)
  PROVE  AccountInv'
<1> DEFINE J == Len(said["gated"])
           r == [claimed |-> Cardinality(claims),
                 survived |-> Cardinality(claims \ dropped),
                 dropped |-> dropped]
<1>1. /\ pc = "layer" /\ run = "gated" /\ at \in DOMAIN stack /\ layer = stack[at]
      /\ UNCHANGED <<stack, pc, run, said>> /\ at' = at + 1 /\ claims' = claims \ dropped
      /\ runs' = [runs EXCEPT ![layer] = Append(@, r)]
  BY DEF Turn, layers, StackInv, Runs, Filter, setup, history, surviving
<1>2. /\ r.survived = Cardinality(claims \ dropped)
      /\ r.survived + Cardinality(r.dropped) = r.claimed
      /\ r.claimed = Cardinality(claims)
  <2>1. IsFiniteSet(claims)
    BY <1>1, SuiteAssumption, FS_Subset DEF StackInv
  <2> QED
    BY <2>1, Splits
<1> HIDE DEF r
<1>3. /\ J \in Nat /\ J > 0 /\ stack \in Seq(Layers) /\ runs \in [Layers -> Seq(Record)]
      /\ \A n \in DOMAIN stack : /\ stack[n] \in Layers /\ n \in Nat /\ n > 0
                                  /\ Len(runs[stack[n]]) = IF at <= n THEN J - 1 ELSE J
      /\ \A n \in DOMAIN stack : n > 1 => n - 1 \in DOMAIN stack
  <2>1. stack \in Seq(Layers) /\ J \in Nat /\ J > 0 /\ runs \in [Layers -> Seq(Record)]
    BY <1>1, StackFacts DEF StackInv, Runs
  <2>2. \A n \in DOMAIN stack : Len(runs[stack[n]]) = IF at <= n THEN J - 1 ELSE J
    BY <1>1 DEF StackInv, Recorded
  <2> QED
    BY <2>1, <2>2
<1>4. /\ runs'[stack[at]] = Append(runs[stack[at]], r)
      /\ \A n \in DOMAIN stack : n # at => runs'[stack[n]] = runs[stack[n]]
  BY <1>1, <1>3, StackFacts
<1>5. /\ DOMAIN runs'[stack[at]] = 1 .. J /\ runs'[stack[at]][J] = r
      /\ DOMAIN runs[stack[at]] = 1 .. J - 1
      /\ \A j \in 1 .. J - 1 : runs'[stack[at]][j] = runs[stack[at]][j]
  <2>0. at \in Nat /\ stack[at] \in Layers /\ Len(runs[stack[at]]) = IF at <= at THEN J - 1 ELSE J
    BY ONLY <1>1, <1>3
  <2>1. runs[stack[at]] \in Seq(Record) /\ Len(runs[stack[at]]) = J - 1
    BY ONLY <1>3, <2>0
  <2> QED
    BY <1>3, <1>4, <2>1
<1>6. /\ \A n \in DOMAIN stack : \A j \in DOMAIN runs[stack[n]] :
           /\ runs[stack[n]][j].survived + Cardinality(runs[stack[n]][j].dropped)
                = runs[stack[n]][j].claimed
           /\ n > 1 => runs[stack[n]][j].claimed = runs[stack[n - 1]][j].survived
      /\ at > 1 => runs[stack[at - 1]][J].survived = Cardinality(claims)
  BY <1>1 DEF AccountInv
<1> HIDE DEF J
<1>7. ASSUME NEW n \in DOMAIN stack, NEW j \in DOMAIN runs'[stack[n]]
      PROVE  /\ runs'[stack[n]][j].survived + Cardinality(runs'[stack[n]][j].dropped)
                  = runs'[stack[n]][j].claimed
             /\ n > 1 => runs'[stack[n]][j].claimed = runs'[stack[n - 1]][j].survived
  <2>1. CASE n = at /\ j = J
    <3>1. n > 1 => runs'[stack[n - 1]] = runs[stack[n - 1]]
      <4>1. n > 1 => n - 1 \in DOMAIN stack /\ n - 1 # at
        BY <1>3, <2>1
      <4> QED
        BY <1>4, <4>1
    <3> QED
      BY <1>2, <1>5, <1>6, <2>1, <3>1
  <2>2. CASE n = at /\ j # J
    <3>1. j \in 1 .. J - 1
      BY <1>3, <1>5, <1>7, <2>2
    <3>2. n > 1 => runs'[stack[n - 1]] = runs[stack[n - 1]]
      <4>1. n > 1 => n - 1 \in DOMAIN stack /\ n - 1 # at
        BY <1>3, <2>2
      <4> QED
        BY <1>4, <4>1
    <3>3. j \in DOMAIN runs[stack[n]] /\ runs'[stack[n]][j] = runs[stack[n]][j]
      BY <1>5, <2>2, <3>1
    <3> QED
      BY <1>6, <3>2, <3>3
  <2>3. CASE n # at
    <3>1. runs'[stack[n]] = runs[stack[n]] /\ j \in DOMAIN runs[stack[n]]
      BY <1>4, <1>7, <2>3
    <3>2. n > 1 => runs'[stack[n - 1]][j] = runs[stack[n - 1]][j]
      <4>1. CASE n - 1 = at
        <5>0. n \in DOMAIN stack
          OBVIOUS
        <5>1. Len(runs[stack[n]]) = J - 1 /\ runs[stack[n]] \in Seq(Record)
          <6>1. /\ n \in Nat /\ n > 0 /\ stack[n] \in Layers
                /\ Len(runs[stack[n]]) = IF at <= n THEN J - 1 ELSE J
            BY ONLY <1>3, <5>0
          <6>2. at <= n
            BY ONLY <4>1, <6>1
          <6> QED
            BY ONLY <1>3, <6>1, <6>2
        <5>2. j \in 1 .. J - 1
          BY <3>1, <5>1
        <5> QED
          BY <1>5, <4>1, <5>2
      <4>2. CASE n - 1 # at
        BY <1>3, <1>4, <4>2
      <4> QED
        BY <4>1, <4>2
    <3> QED
      BY <1>6, <3>1, <3>2
  <2> QED
    BY <2>1, <2>2, <2>3
<1>8. runs'[stack[at' - 1]][J].survived = Cardinality(claims')
  <2>1. at' - 1 = at
    BY <1>1, <1>3
  <2> QED
    BY <1>1, <1>2, <1>5, <2>1
<1>9. \A n \in DOMAIN stack' : \A j \in DOMAIN runs'[stack'[n]] :
        /\ runs'[stack'[n]][j].survived + Cardinality(runs'[stack'[n]][j].dropped)
             = runs'[stack'[n]][j].claimed
        /\ n > 1 => runs'[stack'[n]][j].claimed = runs'[stack'[n - 1]][j].survived
  <2>1. stack' = stack
    BY <1>1
  <2> QED
    BY <1>7, <2>1
<1>10. runs'[stack'[at' - 1]][Len(said'["gated"])].survived = Cardinality(claims')
  BY <1>1, <1>8 DEF J
<1> QED
  BY <1>9, <1>10 DEF AccountInv

LEMMA AccountStep == AccountInv /\ StackInv /\ StackInv' /\ [Next]_vars => AccountInv'
<1> SUFFICES ASSUME AccountInv, StackInv, StackInv', [Next]_vars PROVE AccountInv'
  OBVIOUS
<1>1. CASE Gate1Run \/ Gate3fRun \/ CoverageRun \/ RootsRun \/ VetoRun
  <2>1. PICK layer \in Layers, dropped \in SUBSET claims :
          Turn(layer) /\ Filter(layer, dropped)
    BY <1>1 DEF Gate1Run, Gate3fRun, CoverageRun, RootsRun, VetoRun, Layers
  <2> QED
    BY <2>1, FilterAccountStep
<1>2. CASE EndRun
  <2>1. CASE run' = "gated" /\ run = "bare" /\ pc' = "class"
    <3>1. UNCHANGED <<stack, runs>> /\ stack \in Seq(Layers)
      BY <1>2, StackFacts DEF EndRun, setup, records
    <3>2. \A n \in DOMAIN stack : runs[stack[n]] = <<>>
      BY <2>1, <3>1 DEF StackInv
    <3>3. \A n \in DOMAIN stack' : DOMAIN runs'[stack'[n]] = {}
      BY <3>1, <3>2
    <3> QED
      BY <2>1, <3>3 DEF AccountInv
  <2>2. CASE UNCHANGED run
    <3>1. UNCHANGED <<stack, runs, run>> /\ pc' # "layer"
      BY <1>2, <2>2 DEF EndRun, setup, records
    <3> QED
      BY <3>1 DEF AccountInv
  <2> QED
    BY <1>2, <2>1, <2>2 DEF EndRun
<1>3. CASE AnalyzerAnswers
  <2>1. UNCHANGED <<stack, runs, run>> /\ at' = 1
    BY <1>3 DEF AnalyzerAnswers, setup, records
  <2> QED
    BY <2>1 DEF AccountInv
<1>4. ASSUME UNCHANGED <<stack, runs, run>>,
             pc' # "layer" \/ UNCHANGED <<pc, at, claims, said>>
      PROVE  AccountInv'
  BY <1>4 DEF AccountInv
<1> USE DEF setup, mutant, records, history
<1>5. CASE Start \/ SkipClass \/ Materialize \/ AnalyzerFails \/ GateFails
  BY <1>4, <1>5 DEF Start, SkipClass, Materialize, AnalyzerFails, AnalyzerError,
                    GateFails, Refuse
<1>6. CASE Grade \/ CloseRepo \/ Compare \/ Gate
  BY <1>4, <1>6 DEF Grade, CloseRepo, Compare, Gate, Refuse
<1>7. CASE Uninstall \/ UNCHANGED vars
  BY <1>4, <1>7 DEF Uninstall, vars
<1> QED
  BY <1>1, <1>2, <1>3, <1>5, <1>6, <1>7 DEF Next, Step

LEMMA AccountInit == Init => AccountInv
  BY DEF Init, AccountInv

-----------------------------------------------------------------------------
(* At the comparison each class has its row in both reports, and a graded  *)
(* class the same place among the graded rows as among the answers.        *)
LEMMA AtComparison ==
  ASSUME VerdictInv, TypeInv, StackInv, pc = "compare"
  PROVE  /\ rows["bare"] \in Seq(Row) /\ rows["gated"] \in Seq(Row)
         /\ Len(rows["bare"]) = NumClasses /\ Len(rows["gated"]) = NumClasses
         /\ RowsOf("bare", NumClasses) /\ RowsOf("gated", NumClasses)
         /\ Len(said["gated"]) = Answered(NumClasses)
         /\ \A c \in 0 .. NumClasses :
              Len(graded(SubSeq(rows["gated"], 1, c))) = Answered(c)
<1>1. /\ run = "gated" /\ rows \in [Runs -> Seq(Row)]
      /\ Len(rows["bare"]) = NumClasses /\ Len(rows["gated"]) = NumClasses
      /\ RowsOf("bare", NumClasses) /\ RowsOf("gated", NumClasses)
  BY DEF VerdictInv, TypeInv, TypeOK, RowsInv
<1>2. rows["bare"] \in Seq(Row) /\ rows["gated"] \in Seq(Row)
  BY <1>1 DEF Runs
<1>3. Len(said["gated"]) = Answered(NumClasses)
  <2>1. Len(said["gated"]) = Answered(NumClasses) + 0
    BY <1>1 DEF VerdictInv
  <2>2. Answered(NumClasses) \in Nat
    BY AnsweredNext, SuiteAssumption
  <2> QED
    BY <2>1, <2>2
<1>4. ASSUME NEW c \in 0 .. NumClasses
      PROVE  Len(graded(SubSeq(rows["gated"], 1, c))) = Answered(c)
  <2> DEFINE rs == SubSeq(rows["gated"], 1, c)
             P == {i \in DOMAIN rs : rs[i].grade # "NotRead"}
  <2>1. rs \in Seq(Row) /\ Len(rs) = c /\ \A i \in 1 .. c : rs[i] = rows["gated"][i]
    BY <1>1, <1>2
  <2>2. Len(graded(rs)) = Cardinality(P \cap (1 .. Len(rs)))
    <3>1. graded(rs) = Picked(rs, P)
      BY DEF graded
    <3> HIDE DEF P, rs
    <3> QED
      BY <2>1, <3>1, PickedLength
  <2>3. P \cap (1 .. Len(rs)) = {i \in 1 .. c : reads_mutant(i)}
    <3>1. DOMAIN rs = 1 .. c
      BY <2>1
    <3>2. ASSUME NEW i \in 1 .. c
          PROVE  rs[i].grade # "NotRead" <=> reads_mutant(i)
      <4>1. i \in 1 .. NumClasses
        BY SuiteAssumption
      <4>2. rs[i] = IF reads_mutant(i) THEN grade(i, Kept("gated", Answered(i)))
                                       ELSE NotReadRow(i)
        BY <1>1, <2>1, <4>1 DEF RowsOf
      <4>3. NotReadRow(i).grade = "NotRead"
        BY DEF NotReadRow
      <4>4. \A K : grade(i, K).grade # "NotRead"
        BY DEF grade
      <4> QED
        BY <4>2, <4>3, <4>4
    <3> HIDE DEF rs
    <3> QED
      BY <2>1, <3>1, <3>2
  <2> QED
    BY <2>2, <2>3 DEF Answered
<1> QED
  BY <1>1, <1>2, <1>3, <1>4

(* Fewer claims remove and find no more.                                   *)
LEMMA FewerClaims ==
  ASSUME NEW c \in Classes, NEW K, NEW L, K \subseteq L
  PROVE  /\ false_removals(c, K) \subseteq false_removals(c, L)
         /\ grade(c, K).decoys_found <= grade(c, L).decoys_found
<1> DEFINE D(M) == {d \in Decoys[c] : found(d, M)}
<1>1. false_removals(c, K) \subseteq false_removals(c, L)
  BY DEF false_removals
<1>2. D(K) \subseteq D(L)
  BY DEF found
<1>3. IsFiniteSet(D(L))
  <2>1. IsFiniteSet(Decoys[c]) /\ D(L) \in SUBSET Decoys[c]
    BY SuiteAssumption
  <2> QED
    BY <2>1, FS_Subset
<1>4. grade(c, K).decoys_found = Cardinality(D(K)) /\ grade(c, L).decoys_found = Cardinality(D(L))
  BY GradeFields
<1> HIDE DEF D
<1> QED
  BY <1>1, <1>2, <1>3, <1>4, FS_Subset

LEMMA SameAnswersCompare ==
  ASSUME VerdictInv, AccountInv, TypeInv, StackInv, pc = "compare",
         said["bare"] = said["gated"]
  PROVE  comparable
<1>1. /\ rows["bare"] \in Seq(Row) /\ rows["gated"] \in Seq(Row)
      /\ Len(rows["bare"]) = NumClasses /\ Len(rows["gated"]) = NumClasses
      /\ RowsOf("bare", NumClasses) /\ RowsOf("gated", NumClasses)
      /\ Len(said["gated"]) = Answered(NumClasses)
      /\ Len(graded(SubSeq(rows["gated"], 1, NumClasses))) = Answered(NumClasses)
  BY AtComparison, SuiteAssumption
<1>2. accounted
  <2>1. run = "gated"
    BY DEF TypeInv, RowsInv
  <2>2. SubSeq(rows["gated"], 1, NumClasses) = rows["gated"]
    BY <1>1
  <2>3. \A n \in DOMAIN stack : Len(runs[stack[n]]) = Len(graded(rows["gated"]))
    <3>1. \A n \in DOMAIN stack : Len(runs[stack[n]]) = Len(said["gated"])
      BY <2>1 DEF StackInv, Recorded
    <3> QED
      BY <1>1, <2>2, <3>1
  <2>4. \A n \in DOMAIN stack : \A j \in DOMAIN runs[stack[n]] :
          /\ runs[stack[n]][j].survived + Cardinality(runs[stack[n]][j].dropped)
               = runs[stack[n]][j].claimed
          /\ n > 1 => runs[stack[n]][j].claimed = runs[stack[n - 1]][j].survived
    BY <2>1 DEF AccountInv
  <2> QED
    BY <2>3, <2>4 DEF accounted
<1>3. ASSUME NEW c \in 1 .. NumClasses
      PROVE  /\ rows["bare"][c].class = rows["gated"][c].class
             /\ rows["gated"][c].false_removals \subseteq rows["bare"][c].false_removals
             /\ rows["gated"][c].decoys_found <= rows["bare"][c].decoys_found
  <2>1. CASE ~ reads_mutant(c)
    <3>1. rows["bare"][c] = NotReadRow(c) /\ rows["gated"][c] = NotReadRow(c)
      BY <1>1, <2>1 DEF RowsOf
    <3> QED
      BY <3>1, NotReadFields
  <2>2. CASE reads_mutant(c)
    <3> DEFINE K == Kept("gated", Answered(c))
               L == Kept("bare", Answered(c))
    <3>1. rows["bare"][c] = grade(c, L) /\ rows["gated"][c] = grade(c, K)
      BY <1>1, <2>2 DEF RowsOf
    <3>2. K \subseteq L
      BY DEF Kept
    <3>3. c \in Classes
      BY DEF Classes
    <3> HIDE DEF K, L
    <3>4. /\ false_removals(c, K) \subseteq false_removals(c, L)
          /\ grade(c, K).decoys_found <= grade(c, L).decoys_found
      BY <3>2, <3>3, FewerClaims
    <3>5. /\ grade(c, K).class = c /\ grade(c, L).class = c
          /\ grade(c, K).false_removals = false_removals(c, K)
          /\ grade(c, L).false_removals = false_removals(c, L)
      BY GradeFields
    <3> QED
      BY <3>1, <3>4, <3>5
  <2> QED
    BY <2>1, <2>2
<1> QED
  BY <1>1, <1>2, <1>3 DEF comparable, only_rescued

(* A claim that names a living artifact ends in the artifact's name.       *)
LEMMA NamesEndIn ==
  ASSUME NEW c \in Classes, NEW a \in Live[c], NEW k, Names(k, a)
  PROVE  EndsIn(k, a.name)
<1>1. CASE k.kind = "path"
  <2> DEFINE back == Reverse(a.name)
  <2>1. k.name = a.name
    BY <1>1 DEF Names
  <2>2. a.name \in Seq(Range(a.name))
    BY SuiteAssumption
  <2>3. Len(back) \in Nat
    BY <2>2 DEF Reverse
  <2> HIDE DEF back
  <2>4. IsPrefix(back, back)
    BY <2>3 DEF IsPrefix
  <2> QED
    BY <2>1, <2>4 DEF EndsIn, IsSuffix, back
<1>2. CASE k.kind # "path"
  BY <1>2 DEF Names, EndsIn
<1> QED
  BY <1>1, <1>2

(* What was prevented was dropped by some layer, which is credited.        *)
LEMMA SameAnswersCredit ==
  ASSUME VerdictInv, TypeInv, StackInv, pc = "compare", said["bare"] = said["gated"],
         NEW i \in DOMAIN rows["bare"], NEW name \in prevented(i)
  PROVE  attribute(name, Position(i)) # "none"
<1>1. /\ Len(rows["bare"]) = NumClasses /\ RowsOf("bare", NumClasses)
      /\ RowsOf("gated", NumClasses) /\ rows["bare"] \in Seq(Row)
      /\ \A c \in 0 .. NumClasses : Len(graded(SubSeq(rows["gated"], 1, c))) = Answered(c)
  BY AtComparison
<1>2. i \in 1 .. NumClasses /\ i \in 0 .. NumClasses /\ i \in Classes
  BY <1>1, SuiteAssumption DEF Classes
<1> DEFINE j == Answered(i)
<1>3. Position(i) = j
  BY <1>1, <1>2 DEF Position
<1>4. name \in rows["bare"][i].false_removals /\ name \notin rows["gated"][i].false_removals
  BY DEF prevented
<1>5. reads_mutant(i)
  <2>1. ~ reads_mutant(i) => rows["bare"][i] = NotReadRow(i)
    BY <1>1, <1>2 DEF RowsOf
  <2> QED
    BY <1>4, <2>1, NotReadFields
<1> HIDE DEF j
<1>6. /\ name \in false_removals(i, said["bare"][j])
      /\ name \notin false_removals(i, said["gated"][j] \ DroppedFrom(j))
  <2>1. /\ rows["bare"][i] = grade(i, Kept("bare", j))
        /\ rows["gated"][i] = grade(i, Kept("gated", j))
    BY <1>1, <1>2, <1>5 DEF RowsOf, j
  <2>2. Kept("bare", j) = said["bare"][j] /\ Kept("gated", j) = said["gated"][j] \ DroppedFrom(j)
    BY DEF Kept
  <2>3. /\ name \in false_removals(i, Kept("bare", j))
        /\ name \notin false_removals(i, Kept("gated", j))
    BY <1>4, <2>1, GradeFields
  <2> QED
    BY <2>2, <2>3
<1>7. PICK a \in Live[i], k \in said["bare"][j] : name = a.name /\ Names(k, a)
  BY <1>6 DEF false_removals
<1>8. k \in DroppedFrom(j)
  BY <1>6, <1>7 DEF false_removals
<1>9. PICK n \in DOMAIN stack : k \in runs[stack[n]][j].dropped
  BY <1>8 DEF DroppedFrom
<1>10. EndsIn(k, name)
  BY <1>2, <1>7, NamesEndIn
<1> DEFINE earners == {m \in DOMAIN stack :
                         \E d \in runs[stack[m]][j].dropped : EndsIn(d, name)}
<1>11. earners # {} /\ earners \subseteq DOMAIN stack
  BY <1>9, <1>10
<1>12. attribute(name, j) = IF earners = {} THEN "none" ELSE stack[Min(earners)]
  BY DEF attribute
<1>13. DOMAIN stack \subseteq Nat /\ \A m \in DOMAIN stack : stack[m] \in Layers
  BY StackFacts
<1> HIDE DEF earners
<1>14. Min(earners) \in DOMAIN stack
  BY <1>11, <1>13, LeastIndex
<1>15. attribute(name, j) \in Layers
  BY <1>11, <1>12, <1>13, <1>14
<1> QED
  BY <1>3, <1>15 DEF Layers

LEMMA HealthStep ==
  HealthInv /\ VerdictInv /\ AccountInv /\ TypeInv /\ StackInv /\ [Next]_vars => HealthInv'
<1> SUFFICES ASSUME HealthInv, VerdictInv, AccountInv, TypeInv, StackInv, [Next]_vars
             PROVE  HealthInv'
  OBVIOUS
<1>1. CASE Compare
  <2>1. pc = "compare" /\ UNCHANGED said
    BY <1>1 DEF Compare, history
  <2>2. CASE /\ comparable /\ pc' = "gate" /\ UNCHANGED outcome
             /\ summary' =
                  UNION {{[class |-> i, name |-> a, layer |-> attribute(a, Position(i))] :
                            a \in prevented(i)} : i \in DOMAIN rows["bare"]}
    <3>1. ASSUME said["bare"] = said["gated"], NEW p \in summary'
          PROVE  p.layer # "none"
      <4>1. PICK i \in DOMAIN rows["bare"] :
              p \in {[class |-> i, name |-> a, layer |-> attribute(a, Position(i))] :
                       a \in prevented(i)}
        BY <2>2
      <4>2. PICK a \in prevented(i) :
              p = [class |-> i, name |-> a, layer |-> attribute(a, Position(i))]
        BY <4>1
      <4>3. attribute(a, Position(i)) # "none"
        BY <2>1, <3>1, SameAnswersCredit
      <4> QED
        BY <4>2, <4>3
    <3>2. outcome' = "none"
      BY <2>1, <2>2 DEF HealthInv
    <3> QED
      BY <2>1, <2>2, <3>1, <3>2 DEF HealthInv, HealthyRunAttributes
  <2>3. CASE ~ comparable /\ Refuse("not_a_veto") /\ UNCHANGED summary
    <3>1. said["bare"] # said["gated"]
      BY <2>1, <2>3, SameAnswersCompare
    <3> QED
      BY <2>1, <2>3, <3>1 DEF HealthInv, HealthyRunAttributes, Refuse
  <2> QED
    BY <1>1, <2>2, <2>3 DEF Compare
<1> USE DEF HealthInv, HealthyRunAttributes, Refuse, setup, mutant, records, history
<1>2. CASE AnalyzerAnswers
  BY <1>2 DEF AnalyzerAnswers
<1>3. CASE Start \/ SkipClass \/ Materialize \/ AnalyzerFails \/ GateFails
  BY <1>3 DEF Start, SkipClass, Materialize, AnalyzerFails, AnalyzerError, GateFails
<1>4. CASE Gate1Run \/ Gate3fRun \/ CoverageRun \/ RootsRun \/ VetoRun
  <2>1. UNCHANGED <<pc, summary, outcome, said>>
    BY <1>4 DEF Gate1Run, Gate3fRun, CoverageRun, RootsRun, VetoRun, Filter
  <2> QED
    BY <2>1
<1>5. CASE Grade \/ CloseRepo \/ EndRun
  <2>1. /\ pc \notin {"gate", "done"} /\ UNCHANGED <<summary, said>>
        /\ outcome' \in {outcome, "incomplete"} /\ (outcome' # outcome => pc' = "done")
    BY <1>5 DEF Grade, CloseRepo, EndRun
  <2> QED
    BY <2>1
<1>6. CASE Gate
  <2>1. /\ pc = "gate" /\ pc' = "done" /\ UNCHANGED <<summary, said>>
        /\ outcome' \in {"exit0", "exit1", "nothing_graded"}
    BY <1>6 DEF Gate
  <2> QED
    BY <2>1
<1>7. CASE Uninstall \/ UNCHANGED vars
  BY <1>7 DEF Uninstall, vars
<1> QED
  BY <1>1, <1>2, <1>3, <1>4, <1>5, <1>6, <1>7 DEF Next, Step

(* An analyzer that answers the same twice is never told that its gates    *)
(* did not only veto, and every prevented removal is credited to a layer.  *)
THEOREM Attributed == Spec => []HealthyRunAttributes
<1>1. Init => HealthInv
  BY DEF Init, HealthInv, HealthyRunAttributes
<1>2. HealthInv => HealthyRunAttributes
  BY DEF HealthInv
<1>3. Spec => []HealthInv
  BY <1>1, HealthStep, VerdictInit, VerdictStep, AccountInit, AccountStep, LostInit, LostStep,
     TypeInit, TypeStep, StackInit, StackStep, PTL DEF Spec
<1> QED
  BY <1>2, <1>3, PTL
=============================================================================
