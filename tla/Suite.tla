-------------------------------- MODULE Suite --------------------------------
(***************************************************************************)
(* `judged mutants`: the precision suite (judged-mutants/src/runner.rs)    *)
(* over a system under test wrapped in rescue layers (sut.rs, gate1.rs,    *)
(* gate3f.rs, coverage.rs, roots.rs), and the verdict its caller draws     *)
(* from one or two runs of it (judged-cli/src/mutants_cmd.rs).             *)
(*                                                                         *)
(* A claim is a path or a symbol; its name is the sequence of its          *)
(* segments, whichever separator joins them.  Which claims the evidence of *)
(* a layer drops is chosen anew at each judgement.                         *)
(***************************************************************************)
EXTENDS Integers, FiniteSets, SequencesExt, Subsequences

CONSTANTS
  NumClasses,      \* the catalogue is the mutant classes 1 .. NumClasses
  LanguagesOf,     \* class -> the languages in its repository
  Claimable,       \* class -> the claims an analyzer can make about it
  Live,            \* class -> the artifacts of its ground truth that live
  Decoys,          \* class -> its decoys: a path and a symbol, or <<>>
  Declarations,    \* the values of Sut::reads, {} for None, {set} for Some
  Stacks           \* the stacks of layers, innermost first, that flags ask for

Classes == 1 .. NumClasses
Layers  == {"gate1", "gate3f", "coverage", "roots", "veto"}
Runs    == {"bare", "gated"}

ASSUME SuiteAssumption ==
  /\ NumClasses \in Nat \ {0}
  /\ \A c \in Classes : IsFiniteSet(Claimable[c]) /\ IsFiniteSet(Decoys[c])
  /\ \A c \in Classes : \A a \in Live[c] : a.name \in Seq(Range(a.name))
  /\ Stacks \subseteq Seq(Layers)
  /\ \A s \in Stacks : \A m, n \in DOMAIN s : s[m] = s[n] => m = n

VARIABLES
  sut,         \* is the analyzer a command, and which languages it declares
  stack,       \* the layers of the gated run
  installed,   \* is the analyzer's program on this machine
  pc,          \* what the process does next
  run,         \* the run in progress
  class,       \* the class in progress
  at,          \* the layer whose turn it is
  claims,      \* the verdict in flight
  tree,        \* the throwaway repository
  attempt,     \* the attempt of close_repo
  rows,        \* run -> the rows of its report
  runs,        \* layer -> its records
  summary,     \* the live artifacts whose removal was prevented, with credit
  outcome,     \* how the command ended
  said,        \* history: run -> what the analyzer said, by graded class
  lost         \* history: what failed or was destroyed

setup   == <<sut, stack>>
mutant  == <<at, claims, tree, attempt>>
records == <<rows, runs>>
history == <<said, lost>>
vars == <<setup, installed, pc, run, class, mutant, records, summary, outcome,
          history>>

ATTEMPTS == 5

(* Reading any language of a class is reading the class.                   *)
reads_mutant(c) ==
  \A declared \in sut.reads : LanguagesOf[c] \cap declared # {}

(***************************************************************************)
(* Grading: paths by equality, symbols by trailing segments.               *)
(***************************************************************************)
Names(claim, artifact) ==
  /\ claim.kind = artifact.kind
  /\ IF claim.kind = "path" THEN claim.name = artifact.name
                            ELSE IsSuffix(artifact.name, claim.name)

false_removals(c, claimed) ==
  {a.name : a \in {l \in Live[c] : \E k \in claimed : Names(k, l)}}

found(decoy, claimed) ==
  \E k \in claimed :
    \/ Names(k, [kind |-> "path", name |-> decoy.path])
    \/ decoy.symbol # <<>> /\ Names(k, [kind |-> "symbol", name |-> decoy.symbol])

NotReadRow(c) ==
  [class |-> c, grade |-> "NotRead", false_removals |-> {},
   decoys_found |-> 0, decoys_total |-> 0]

grade(c, claimed) ==
  LET removed == false_removals(c, claimed)
      decoys  == {d \in Decoys[c] : found(d, claimed)}
  IN  [class |-> c,
       grade |-> IF removed = {} /\ decoys = Decoys[c] THEN "Passed" ELSE "Failed",
       false_removals |-> removed,
       decoys_found |-> Cardinality(decoys),
       decoys_total |-> Cardinality(Decoys[c])]

graded(rs) == Picked(rs, {i \in DOMAIN rs : rs[i].grade # "NotRead"})

(***************************************************************************)
(* A refusal: nothing is published.  TempDir removes the tree on drop and  *)
(* discards the error, so the tree may be left.                            *)
(***************************************************************************)
Refuse(reason) ==
  /\ pc' = "done"
  /\ outcome' = reason
  /\ tree' \in {tree, "none"}

Start ==
  /\ pc = "preflight"
  /\ IF sut.external /\ ~ installed
       THEN Refuse("missing")
       ELSE pc' = "class" /\ UNCHANGED <<outcome, tree>>
  /\ UNCHANGED <<setup, installed, run, class, at, claims, attempt, records,
                 summary, history>>

(***************************************************************************)
(* One class of run_suite_with.                                            *)
(***************************************************************************)
SkipClass ==
  /\ pc = "class" /\ class \in Classes
  /\ ~ reads_mutant(class)
  /\ rows' = [rows EXCEPT ![run] = Append(@, NotReadRow(class))]
  /\ class' = class + 1
  /\ UNCHANGED <<setup, installed, pc, run, mutant, runs, summary, outcome,
                 history>>

(* The fixture is built and, if asked, the coverage artifact planted.      *)
Materialize ==
  /\ pc = "class" /\ class \in Classes
  /\ reads_mutant(class)
  /\ \/ pc' = "analyze" /\ tree' = "present" /\ UNCHANGED outcome
     \/ Refuse("incomplete")
  /\ UNCHANGED <<setup, installed, run, class, at, claims, attempt, records,
                 summary, history>>

(* The analyzer ends and its output is read.  It may have removed the tree. *)
AnalyzerAnswers ==
  /\ pc = "analyze"
  /\ sut.external => installed
  /\ \E verdict \in SUBSET Claimable[class] :
       /\ claims' = verdict
       /\ said' = [said EXCEPT ![run] = Append(@, verdict)]
  /\ \/ UNCHANGED <<tree, lost>>
     \/ tree' = "gone" /\ lost' = lost \cup {"tree"}
  /\ at' = 1
  /\ pc' = "layer"
  /\ UNCHANGED <<setup, installed, run, class, attempt, records, summary, outcome>>

(* Mutant: an analyzer that did not answer claims nothing.                 *)
ClaimsNothing ==
  /\ claims' = {}
  /\ said' = [said EXCEPT ![run] = Append(@, {})]
  /\ at' = 1
  /\ pc' = "layer"
  /\ UNCHANGED <<tree, outcome>>

AnalyzerError ==
  /\ Refuse("incomplete")
  /\ UNCHANGED <<at, claims, said>>

(* No process, a bad exit, a signal, output that cannot be read, a path    *)
(* outside the repository.                                                 *)
AnalyzerFails ==
  /\ pc = "analyze"
  /\ lost' = lost \cup {"analyzer"}
  /\ AnalyzerError
  /\ UNCHANGED <<setup, installed, run, class, attempt, records, summary>>

(***************************************************************************)
(* The layers.  Each hands on what it does not drop and records both.      *)
(***************************************************************************)
layers == IF run = "gated" THEN stack ELSE <<>>

(* Mutant: a layer records its rescues and hands everything on.            *)
handed_untouched(dropped) == claims

surviving(dropped) == claims \ dropped

Turn(layer) ==
  /\ pc = "layer" /\ at \in DOMAIN layers
  /\ layers[at] = layer

Filter(layer, dropped) ==
  /\ claims' = surviving(dropped)
  /\ runs' = [runs EXCEPT ![layer] =
       Append(@, [claimed |-> Cardinality(claims),
                  survived |-> Cardinality(surviving(dropped)),
                  dropped |-> dropped])]
  /\ at' = at + 1
  /\ UNCHANGED <<setup, installed, pc, run, class, tree, attempt, rows, summary,
                 outcome, history>>

unattributed == {k \in claims : k.kind = "symbol" /\ ~ k.attributed}

(* Gate 1 refuses every symbol that has no declaring file to judge.        *)
Gate1Run ==
  /\ Turn("gate1") /\ tree = "present"
  /\ \E refused \in SUBSET claims :
       unattributed \subseteq refused /\ Filter("gate1", refused)

(* Gate 3f cannot read one, and lets it pass.                              *)
Gate3fRun ==
  /\ Turn("gate3f") /\ tree = "present"
  /\ \E refused \in SUBSET (claims \ unattributed) : Filter("gate3f", refused)

VetoRun ==
  /\ Turn("veto") /\ tree = "present"
  /\ \E blocked \in SUBSET claims : Filter("veto", blocked)

(* A gate that cannot open the repository, or whose judgement fails.       *)
GateFails ==
  /\ \E gate \in {"gate1", "gate3f", "veto"} : Turn(gate)
  /\ lost' = lost \cup {"gate"}
  /\ Refuse("incomplete")
  /\ UNCHANGED <<setup, installed, run, class, at, claims, attempt, records,
                 summary, said>>

(* Without an artifact that passed its control every claim stands; with a  *)
(* gap in what it could scan the root set rescues less.                    *)
CoverageRun ==
  /\ Turn("coverage")
  /\ \E executed \in SUBSET claims :
       (tree = "gone" => executed = {}) /\ Filter("coverage", executed)

RootsRun ==
  /\ Turn("roots")
  /\ \E declared \in SUBSET claims :
       (tree = "gone" => declared = {}) /\ Filter("roots", declared)

Grade ==
  /\ pc = "layer" /\ at \notin DOMAIN layers
  /\ rows' = [rows EXCEPT ![run] = Append(@, grade(class, claims))]
  /\ pc' = "close"
  /\ attempt' = 1
  /\ UNCHANGED <<setup, installed, run, class, at, claims, tree, runs, summary,
                 outcome, history>>

(***************************************************************************)
(* close_repo                                                              *)
(***************************************************************************)
RemoveResults ==
  IF tree = "gone" THEN {"not_found"} ELSE {"ok", "not_empty", "other"}

(* Mutant: a tree that is already absent is closed.                        *)
closed_or_absent(result) == result \in {"ok", "not_found"}

closed(result) == result = "ok"

(* Mutant: the last attempt is retried too.                                *)
retried_to_the_last(result) == result = "not_empty" /\ attempt <= ATTEMPTS

(* Only the race with a git that still writes is retried.                  *)
retried(result) == result = "not_empty" /\ attempt < ATTEMPTS

(* Mutant: the attempts wrap around before the last, as an index would.    *)
wrapped == (attempt % (ATTEMPTS - 1)) + 1

next_attempt == attempt + 1

CloseRepo ==
  /\ pc = "close"
  /\ \E result \in RemoveResults :
       \/ /\ closed(result)
          /\ pc' = "class" /\ class' = class + 1
          /\ tree' = "none" /\ claims' = {} /\ at' = 1 /\ attempt' = 1
          /\ UNCHANGED outcome
       \/ /\ ~ closed(result) /\ retried(result)
          /\ attempt' = next_attempt
          /\ UNCHANGED <<pc, class, tree, claims, at, outcome>>
       \/ /\ ~ closed(result) /\ ~ retried(result)
          /\ Refuse("incomplete")
          /\ UNCHANGED <<class, claims, at, attempt>>
  /\ UNCHANGED <<setup, installed, run, records, summary, history>>

(***************************************************************************)
(* mutants_cmd::run around the suite: a second run if there are layers.    *)
(***************************************************************************)
EndRun ==
  /\ pc = "class" /\ class \notin Classes
  /\ IF run = "bare" /\ stack # <<>>
       THEN run' = "gated" /\ class' = 1 /\ pc' = "class"
       ELSE pc' = (IF run = "bare" THEN "gate" ELSE "compare")
            /\ UNCHANGED <<run, class>>
  /\ UNCHANGED <<setup, installed, mutant, records, summary, outcome, history>>

(* Mutant: only an identical name earns a rescue.                          *)
SameName(claim, artifact) == claim.name = artifact

(* attribute asks for a trailing segment, of paths as of symbols.          *)
EndsIn(claim, artifact) == IsSuffix(artifact, claim.name)

(* The innermost layer that dropped a claim ending in the artifact's name, *)
(* in the j-th graded class.                                               *)
attribute(artifact, j) ==
  LET earners == {n \in DOMAIN stack :
                    \E k \in runs[stack[n]][j].dropped : EndsIn(k, artifact)}
  IN  IF earners = {} THEN "none" ELSE stack[Min(earners)]

(* Where the i-th row of the gated report is among the graded ones.        *)
Position(i) == Len(graded(SubSeq(rows["gated"], 1, i)))

prevented(i) == rows["bare"][i].false_removals \ rows["gated"][i].false_removals

(* Mutant: sizes of the false-removal sets are compared, not the sets.     *)
no_more_removed(before, after) == Cardinality(after) <= Cardinality(before)

only_rescued(before, after) == after \subseteq before

(* The accounts of the layers: one record per graded class, every claim    *)
(* accounted for, and each layer handed what the one inside it passed on.  *)
accounted ==
  \A n \in DOMAIN stack :
    LET mine == runs[stack[n]]
    IN  /\ Len(mine) = Len(graded(rows["gated"]))
        /\ \A j \in DOMAIN mine :
             /\ mine[j].survived + Cardinality(mine[j].dropped) = mine[j].claimed
             /\ n > 1 => mine[j].claimed = runs[stack[n - 1]][j].survived

comparable ==
  /\ Len(rows["bare"]) = Len(rows["gated"])
  /\ accounted
  /\ \A i \in DOMAIN rows["bare"] :
       LET before == rows["bare"][i]
           after  == rows["gated"][i]
       IN  /\ before.class = after.class
           /\ only_rescued(before.false_removals, after.false_removals)
           /\ after.decoys_found <= before.decoys_found

Compare ==
  /\ pc = "compare"
  /\ \/ /\ comparable
        /\ pc' = "gate"
        /\ summary' =
             UNION {{[class |-> i, name |-> a, layer |-> attribute(a, Position(i))] :
                       a \in prevented(i)} : i \in DOMAIN rows["bare"]}
        /\ UNCHANGED <<outcome, tree>>
     \/ /\ ~ comparable
        /\ Refuse("not_a_veto")
        /\ UNCHANGED summary
  /\ UNCHANGED <<setup, installed, run, class, at, claims, attempt, records,
                 history>>

(* Mutant: a report of any length is gated.                                *)
any_row(rs) == rs # <<>>

any_graded(rs) == graded(rs) # <<>>

removes_nothing(rs) == \A i \in DOMAIN rs : rs[i].false_removals = {}

Gate ==
  /\ pc = "gate"
  /\ IF any_graded(rows[run])
       THEN /\ pc' = "done"
            /\ outcome' = (IF removes_nothing(rows[run]) THEN "exit0" ELSE "exit1")
            /\ UNCHANGED tree
       ELSE Refuse("nothing_graded")
  /\ UNCHANGED <<setup, installed, run, class, at, claims, attempt, records,
                 summary, history>>

(* Environment: the program vanishes from the machine.                     *)
Uninstall ==
  /\ installed /\ pc # "done"
  /\ installed' = FALSE
  /\ UNCHANGED <<setup, pc, run, class, mutant, records, summary, outcome,
                 history>>

-----------------------------------------------------------------------------
Init ==
  /\ sut \in [external : BOOLEAN, reads : Declarations]
  /\ stack \in Stacks
  /\ installed \in (IF sut.external THEN BOOLEAN ELSE {FALSE})
  /\ pc = "preflight" /\ run = "bare" /\ class = 1
  /\ at = 1 /\ claims = {} /\ tree = "none" /\ attempt = 1
  /\ rows = [r \in Runs |-> <<>>] /\ runs = [l \in Layers |-> <<>>]
  /\ summary = {} /\ outcome = "none"
  /\ said = [r \in Runs |-> <<>>] /\ lost = {}

Step ==
  \/ Start \/ SkipClass \/ Materialize \/ AnalyzerAnswers \/ AnalyzerFails
  \/ Gate1Run \/ Gate3fRun \/ CoverageRun \/ RootsRun \/ VetoRun \/ GateFails
  \/ Grade \/ CloseRepo \/ EndRun \/ Compare \/ Gate

Next == Step \/ Uninstall

Spec == Init /\ [][Next]_vars

(* The process runs on, and what it spawns ends: it waits without a limit. *)
FairSpec == Spec /\ WF_vars(Step)

-----------------------------------------------------------------------------
Published == outcome \in {"exit0", "exit1"}

Row ==
  [class : Classes, grade : {"Passed", "Failed", "NotRead"},
   false_removals : SUBSET UNION {{a.name : a \in Live[c]} : c \in Classes},
   decoys_found : Nat, decoys_total : Nat]

AllClaims == UNION {Claimable[c] : c \in Classes}

(* Every variable holds values of its type, and between two classes there  *)
(* is no throwaway repository.                                             *)
TypeOK ==
  /\ sut \in [external : BOOLEAN, reads : Declarations]
  /\ stack \in Stacks /\ installed \in BOOLEAN
  /\ pc \in {"preflight", "class", "analyze", "layer", "close", "compare",
             "gate", "done"}
  /\ run \in Runs /\ class \in 1 .. NumClasses + 1
  /\ at \in Nat \ {0} /\ attempt \in 1 .. ATTEMPTS
  /\ claims \in SUBSET AllClaims
  /\ tree \in {"none", "present", "gone"}
  /\ pc \in {"preflight", "class", "compare", "gate"} => tree = "none"
  /\ rows \in [Runs -> Seq(Row)]
  /\ runs \in [Layers -> Seq([claimed : Nat, survived : Nat,
                              dropped : SUBSET AllClaims])]
  /\ summary \in SUBSET [class : Classes, layer : Layers \cup {"none"},
                         name : UNION {{a.name : a \in Live[c]} : c \in Classes}]
  /\ outcome \in {"none", "missing", "incomplete", "not_a_veto",
                  "nothing_graded", "exit0", "exit1"}
  /\ said \in [Runs -> Seq(SUBSET AllClaims)]
  /\ lost \in SUBSET {"analyzer", "tree", "gate"}

(* A published verdict rests on measurements only: no analyzer that failed *)
(* or vanished, no gate that could not look, and no tree that the system   *)
(* under test removed, in either of the runs (runner.rs, close_repo).      *)
NothingUnmeasured == Published => lost = {}

(* What the layers dropped from the j-th answer of the gated run.          *)
DroppedFrom(j) == {k \in AllClaims :
  \E n \in DOMAIN stack : /\ j \in DOMAIN runs[stack[n]]
                          /\ k \in runs[stack[n]][j].dropped}

(* How many of the first n classes are analyzed; and what the stack kept   *)
(* of the j-th answer in a run.                                            *)
Answered(n) == Cardinality({c \in 1 .. n : reads_mutant(c)})

Kept(r, j) == said[r][j] \ (IF r = "gated" THEN DroppedFrom(j) ELSE {})

(* Exit 0 says that some class was analyzed and that none of its living    *)
(* artifacts is named by a claim that survived the whole stack, exit 1     *)
(* that one is (mutants_cmd.rs, gate).                                     *)
VerdictIsEarned ==
  Published =>
    LET analyzed == {c \in Classes : reads_mutant(c)}
    IN  /\ analyzed # {}
        /\ Len(said[run]) = Cardinality(analyzed)
        /\ (outcome = "exit0") <=>
             \A c \in analyzed : false_removals(c, Kept(run, Answered(c))) = {}

(* Each claim of the analyzer is either still in flight or was dropped, by *)
(* exactly one layer: a drop is absorbing (mutants_cmd.rs, run).           *)
DropIsAbsorbing ==
  pc = "layer" /\ run = "gated" =>
    LET j == Len(said[run])
        dropped(n) == runs[stack[n]][j].dropped
        done == 1 .. at - 1
    IN  /\ said[run][j] = claims \cup UNION {dropped(n) : n \in done}
        /\ \A n \in done : dropped(n) \cap claims = {}
        /\ \A m, n \in done : m # n => dropped(m) \cap dropped(n) = {}

(* If the analyzer said the same in both runs, the comparison is never     *)
(* refused and no prevented removal is left without a layer to credit      *)
(* (mutants_cmd.rs, compare_runs and RescueSummary::unattributed).         *)
HealthyRunAttributes ==
  said["bare"] = said["gated"] =>
    /\ outcome # "not_a_veto"
    /\ \A p \in summary : p.layer # "none"

(* Whatever an analyzer that may answer differently the second time said,  *)
(* the prevented and the remaining false removals of a published class are *)
(* together what the bare run removed (mutants_cmd.rs, compare_runs).      *)
TradeBalances ==
  Published /\ stack # <<>> =>
    \A i \in DOMAIN rows["bare"] :
      rows["bare"][i].false_removals =
        rows["gated"][i].false_removals \cup
        {p.name : p \in {q \in summary : q.class = i}}

(* A layer is credited for a living artifact only if it dropped a claim    *)
(* that names it, when the analyzer said the same in both runs ("the layer *)
(* that dropped the claim naming an artifact is the layer that earned it", *)
(* mutants_cmd.rs, compare_runs).                                          *)
CreditIsEarned ==
  said["bare"] = said["gated"] =>
    \A p \in summary : p.layer # "none" =>
      \E k \in runs[p.layer][Position(p.class)].dropped, a \in Live[p.class] :
        a.name = p.name /\ Names(k, a)

(* The command ends with a verdict or a refusal, however often a tree has  *)
(* to be removed again (runner.rs, close_repo).                            *)
Answers == <>(outcome # "none")
=============================================================================
