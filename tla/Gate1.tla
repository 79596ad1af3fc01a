-------------------------------- MODULE Gate1 --------------------------------
(***************************************************************************)
(* Gate 1 (judged-mutants/src/gate1.rs): the sixteen never-touch classes   *)
(* over one repository, asked about every claim an analyzer makes, or by   *)
(* `judged explain` about one path.  A user works in the tree meanwhile.   *)
(***************************************************************************)
EXTENDS StateGate, ContentGate, ContractGate

CONSTANT Analyses   \* what an analyzer may claim: sequences of claims

(* A path that is claimed is not the root, and not spelled as a directory. *)
ASSUME AnalysesAssumption ==
  \A claims \in Analyses :
    /\ claims \in Seq(Range(claims))
    /\ \A claim \in Range(claims) :
         /\ claim = [kind |-> claim.kind, site |-> claim.site, spelling |-> claim.spelling]
         /\ claim.site # {} => \E path \in claim.site :
              /\ claim.site = {path} /\ path \in Seq(Range(path))
              /\ path # <<>> /\ path[Len(path)] # "/"

VARIABLE gate1      \* struct Gate1Run, and how far it got

gate1Vars == <<tree, aux_moved, survey, content, gate1>>

(* A claim is [kind, site, spelling]: a path, or a symbol and the file     *)
(* that is said to declare it; spelling is "dotted" if the path goes       *)
(* through "..".  Symbols may come without a site.                         *)
attributed(claim) == claim.site # {}

Classes == <<"1a", "1b", "1c", "1d", "1e", "1f", "1g", "1h", "1i", "1j", "1k",
             "1l", "1m", "1n", "1o", "1p">>

(* Every class that refuses by what is there, or "Error".                  *)
judge(path, spelling) ==
  state_judge(path) \cup ({content_judge(path, spelling)} \ {"Abstain"})

(* The refusal, under the first class that objects.                        *)
record(claim, findings) ==
  [claim |-> claim, findings |-> findings,
   class |-> Classes[Min({i \in DOMAIN Classes : Classes[i] \in findings})]]

-----------------------------------------------------------------------------
NewRun(mode, claims) ==
  [pc |-> "survey", mode |-> mode, left |-> claims, claimed |-> Len(claims),
   refused |-> <<>>, survived |-> {}, unattributed |-> 0, exit |-> -1]

Begin1(mode, claims) ==
  /\ gate1.pc = "idle"
  /\ gate1' = NewRun(mode, claims)
  /\ UNCHANGED <<tree, aux_moved, survey, content>>

(* The inner analyzer runs and Gate 1 filters what it claims.              *)
run == \E claims \in Analyses : Begin1("run", claims)

(* `judged explain`: the path is made absolute, so no ".." is left in it.  *)
explain ==
  \E claims \in Analyses : \E i \in DOMAIN claims :
    attributed(claims[i]) /\ Begin1("explain", <<[claims[i] EXCEPT !.spelling = "plain"]>>)

(* No run is better than one that was not gated: any error ends it.        *)
Fails ==
  gate1' = [gate1 EXCEPT !.pc = "error", !.left = <<>>, !.survived = {}, !.exit = 2]

(* There is no working tree.                                               *)
DiscoverFails ==
  /\ gate1.pc = "survey" /\ survey.pc = "stores"
  /\ Fails
  /\ UNCHANGED <<tree, aux_moved, survey, content>>

Survey ==
  /\ gate1.pc = "survey" /\ survey.pc # "surveyed"
  /\ survey_in
  /\ UNCHANGED <<content, gate1>>

Surveyed ==
  /\ gate1.pc = "survey" /\ survey.pc = "surveyed"
  /\ gate1' = [gate1 EXCEPT !.pc = "build"]
  /\ UNCHANGED <<tree, aux_moved, survey, content>>

Build ==
  /\ gate1.pc = "build" /\ content.pc = "walk"
  /\ build
  /\ UNCHANGED <<survey, gate1>>

(* The root cannot be listed, or .gitmodules cannot be read.               *)
BuildFails ==
  /\ gate1.pc = "build"
  /\ content.pc = "error" \/ (content.pc = "walk" /\ <<>> \in content.pending)
  /\ Fails
  /\ UNCHANGED <<tree, aux_moved, survey, content>>

Built ==
  /\ gate1.pc = "build" /\ content.pc = "built"
  /\ gate1' = [gate1 EXCEPT !.pc = "judge"]
  /\ UNCHANGED <<tree, aux_moved, survey, content>>

(* One claim is judged by the file it is about.                            *)
Judge ==
  /\ gate1.pc = "judge" /\ gate1.left # <<>> /\ attributed(Head(gate1.left))
  /\ LET claim == Head(gate1.left)
         path  == CHOOSE p \in claim.site : TRUE
         there == judge(path, claim.spelling)
     IN  \E answer \in CheckIgnore[path] :
           LET findings == there \cup contract_classify(path, answer)
           IN  IF "Error" \in findings THEN Fails
               ELSE IF findings = {}
                 THEN gate1' = [gate1 EXCEPT !.left = Tail(@), !.survived = @ \cup {claim}]
               ELSE gate1' = [gate1 EXCEPT !.left = Tail(@),
                                           !.refused = Append(@, record(claim, findings))]
  /\ UNCHANGED <<tree, aux_moved, survey, content>>

(* A symbol of no file: the unknown is kept.                               *)
JudgeUnattributed ==
  /\ gate1.pc = "judge" /\ gate1.left # <<>> /\ ~ attributed(Head(gate1.left))
  /\ gate1' = [gate1 EXCEPT !.left = Tail(@), !.unattributed = @ + 1,
                            !.refused = Append(@, record(Head(gate1.left), {"1p"}))]
  /\ UNCHANGED <<tree, aux_moved, survey, content>>

Report ==
  /\ gate1.pc = "judge" /\ gate1.left = <<>>
  /\ gate1' = [gate1 EXCEPT !.pc = "done", !.exit = 0]
  /\ UNCHANGED <<tree, aux_moved, survey, content>>

UserMoves ==
  /\ gate1.pc \in {"survey", "build", "judge"}
  /\ \E path \in PathSet : Move(path)
  /\ UNCHANGED <<survey, content, gate1>>

-----------------------------------------------------------------------------
Gate1Init ==
  /\ TreeInit /\ survey = NewSurvey /\ content = NewContent
  /\ gate1 = [NewRun("run", <<>>) EXCEPT !.pc = "idle"]

Gate1Steps ==
  \/ run \/ explain \/ DiscoverFails \/ Survey \/ Surveyed \/ Build \/ BuildFails \/ Built
  \/ Judge \/ JudgeUnattributed \/ Report

Gate1Next == Gate1Steps \/ UserMoves

Gate1Spec == Gate1Init /\ [][Gate1Next]_gate1Vars

-----------------------------------------------------------------------------
(* A claim survives only in a tree without effectors: no file of this      *)
(* repository that stood untouched during the run, and no link to one, is  *)
(* a manifest by its name or names an API group in the part that is read,  *)
(* no YAML file was left unread, and no link leads out of the tree         *)
(* (StateGate::has_external_effector: "not having looked is not the same   *)
(* as having found nothing").                                              *)
NoEffectorUnseen ==
  gate1.survived # {} =>
    \A f \in PathSet : Untouched(f) /\ Standing(f) /\ ~ Elsewhere(f) =>
      /\ ~ (tree[f].type = "link" /\ tree[f].leads = "outside")
      /\ tree[f].type = "file" \/ (tree[f].type = "link" /\ tree[f].leads = "file") =>
           /\ filename_marker(f) = {}
           /\ is_yaml(f) => tree[f].readable /\ ApiGroups(tree[f].lines) = {}

(* No claim survives about a file whose attributes, as git decides them    *)
(* from files that stood untouched, mark it as vendored, generated or kept *)
(* by LFS (attribute_evidence: "git's own precedence").  The two may       *)
(* differ where an attribute is taken away by a line whose pattern the     *)
(* code lets match more than git does: one with **, or a class that admits *)
(* a slash.                                                                *)
AttributesAsGit ==
  \A claim \in gate1.survived : \A path \in claim.site :
    LET dirs == {<<>>} \cup Parents(path)
    IN  /\ claim.spelling = "plain" /\ ~ Elsewhere(path)
        /\ \A d \in dirs : Untouched(GitAttributes(d))
        /\ \A d \in dirs : Reads(GitAttributes(d)) =>
             \A l \in Range(tree[GitAttributes(d)].lines) :
               Lenient(l.pattern) => \A t \in Range(l.tokens) :
                 t.name \in {"linguist-vendored", "linguist-generated", "filter"} => Sets(t)
        => \A attribute \in ATTRIBUTE_NAMES : ~ GitSets(attribute, path)
=============================================================================
