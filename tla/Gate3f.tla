-------------------------------- MODULE Gate3f --------------------------------
(***************************************************************************)
(* Gate 3f (judged-core/src/gate3f.rs and judged-mutants/src/gate3f.rs):   *)
(* what is serialized, queued or linked elsewhere is never called dead.    *)
(* One scan of the repository finds its job frameworks; then every claim   *)
(* of an analyzer is judged by the file it is about, in its order.         *)
(***************************************************************************)
EXTENDS Gate1Tree

CONSTANTS
  ComponentsOf,   \* a word with separators -> its alphanumeric components
  Claims3f        \* what an analyzer may claim: sequences of [kind, name, file]

VARIABLE gate3f   \* struct Gate3f and Gate3fRun, and how far the run got

gate3fVars == <<tree, aux_moved, gate3f>>

(* Claims come in an order; one of a symbol may be of no file.             *)
ASSUME Gate3fAssumption ==
  \A claims \in Claims3f :
    /\ claims \in Seq(Range(claims))
    /\ \A c \in Range(claims) : \A p \in c.file : c.file = {p}

Condition == <<"Serializable", "QueuePayload", "AbiExport">>

-----------------------------------------------------------------------------
(* Markers.  A marker that is one word must be a whole word of the line, a *)
(* marker with punctuation may be anywhere in it.                          *)
SERIALIZATION_MARKERS == {<<"readObject">>, <<"serialVersionUID">>, <<"pickle", ".", "load">>}
ABI_MARKERS           == {<<"soname">>, <<"#[no_mangle]">>, <<"//export">>}
JOB_FRAMEWORKS        == {"celery", "rq"}
MANIFESTS             == {<<"requirements", ".", "txt">>, <<"package", ".", "json">>}

marker_matches(line, marker) == Within(line, marker)

derive_line_names_serde(line) ==
  Within(line, <<"#[derive(">>) /\ Range(line) \cap {"Serialize", "Deserialize"} # {}

(* Of a word, its components: rq is not in torque, celery is in celery_app.*)
contains_component(line, name) ==
  \E w \in Range(line) : IF w \in DOMAIN ComponentsOf THEN name \in ComponentsOf[w] ELSE w = name

is_import_line(line) ==
  \/ line # <<>> /\ Head(line) \in {"import", "from", "use", "require", "#include", "gem"}
  \/ Within(line, <<"require", "(">>)

is_binding_line(line) ==
  \/ line # <<>> /\ Head(line) = "@"
  \/ Range(line) \cap {"class", "extends", "include"} # {}

references_framework(lines, framework) ==
  \E n \in DOMAIN lines :
    LET line == lower(lines[n])
    IN  (is_import_line(line) \/ is_binding_line(line)) /\ contains_component(line, framework)

(* The marker's own line, or one of the three after it, names the symbol,  *)
(* and no blank line is in between.                                        *)
ABI_PROXIMITY_LINES == 3

names_symbol_nearby(lines, n, name) ==
  \E k \in n .. Min({n + ABI_PROXIMITY_LINES, Len(lines)}) :
    name \in Range(lines[k]) /\ \A b \in n + 1 .. k : lines[b] # <<>>

-----------------------------------------------------------------------------
(* The files of the repository, links to directories followed, without     *)
(* what another repository answers for.                                    *)
IsDirectory(path) ==
  tree[path].type = "dir" \/ (tree[path].type = "link" /\ tree[path].leads = "inside")
RealPath(path) == IF tree[path].type = "link" THEN tree[path].target ELSE path

Descended(dirs) ==
  {RealPath(p) : p \in {q \in PathSet : directory(q) \in dirs /\ IsDirectory(q)
     /\ ~ (RealPath(q) \in PathSet /\ stops_the_walk(classify(tree[RealPath(q)].marks)))}}

(* What the stack of the walk has held when it is empty: the root, and     *)
(* what is descended into from what it has held.                           *)
Entered ==
  LET every == {<<>>} \cup {RealPath(p) : p \in {q \in PathSet : IsDirectory(q)}}
  IN  {d \in every : \A dirs \in SUBSET every :
         <<>> \in dirs /\ Descended(dirs) \subseteq dirs => d \in dirs}

walk3f ==
  LET dirs == Entered
  IN  Picked(GatePaths, {i \in DOMAIN GatePaths :
        /\ directory(GatePaths[i]) \in dirs /\ tree[GatePaths[i]].type # "none"
        /\ ~ IsDirectory(GatePaths[i])})

(* Mutant: only a manifest declares a framework.                           *)
manifests_declare(path, line) == basename(path) \in MANIFESTS

(* A manifest declares what it names, another file what it imports.        *)
declaring(path, line) == basename(path) \in MANIFESTS \/ is_import_line(line)

New3f == [pc |-> "run", queue |-> <<>>, frameworks |-> {}, left |-> <<>>, claimed |-> 0,
          refused |-> <<>>, survived |-> <<>>, unattributed |-> 0]

run3f ==
  /\ gate3f.pc = "run"
  /\ \E claims \in Claims3f :
       gate3f' = [gate3f EXCEPT !.pc = "scan", !.queue = walk3f, !.left = claims,
                                !.claimed = Len(claims)]
  /\ UNCHANGED treeVars

(* A directory that cannot be listed ends the run.                         *)
scan_fails ==
  /\ gate3f.pc = "run"
  /\ gate3f' = [gate3f EXCEPT !.pc = "error"]
  /\ UNCHANGED treeVars

(* A file that cannot be read is passed over.                              *)
detect_frameworks ==
  /\ gate3f.pc = "scan" /\ gate3f.queue # <<>>
  /\ LET path  == Head(gate3f.queue)
         lines == IF Reads(path) THEN tree[path].lines ELSE <<>>
     IN  gate3f' = [gate3f EXCEPT !.queue = Tail(@),
           !.frameworks = @ \cup {name \in JOB_FRAMEWORKS : \E n \in DOMAIN lines :
             declaring(path, lower(lines[n])) /\ contains_component(lower(lines[n]), name)}]
  /\ UNCHANGED treeVars

-----------------------------------------------------------------------------
(* The conditions that fire in a file, at the markers in it; for a symbol  *)
(* the third one only near its name.                                       *)
findings(path, symbol) ==
  LET lines == tree[path].lines
      at(c) == [condition |-> c[1], marker |-> c[2]]
  IN  IF ~ Reads(path) THEN {}
      ELSE {at(c) : c \in {"Serializable"} \X {m \in SERIALIZATION_MARKERS :
                            \E n \in DOMAIN lines : marker_matches(lines[n], m)}}
      \cup {at(<<"Serializable", <<"#[derive(">>>>) :
              n \in {i \in DOMAIN lines : derive_line_names_serde(lines[i])}}
      \cup {at(c) : c \in {"AbiExport"} \X {m \in ABI_MARKERS : \E n \in DOMAIN lines :
              marker_matches(lines[n], m)
                /\ (symbol = "none" \/ names_symbol_nearby(lines, n, symbol))}}
      \cup {at(c) : c \in {"QueuePayload"} \X
              {<<name>> : name \in {f \in gate3f.frameworks : references_framework(lines, f)}}}

(* Mutant: one refusal for each condition.                                 *)
one_each(claim, found) ==
  [c \in 1 .. Cardinality({f.condition : f \in found}) |->
     [claim |-> claim, conditions |-> {f.condition : f \in found}]]

(* One refusal for a claim, with all its conditions.                       *)
record3f(claim, found) == <<[claim |-> claim, conditions |-> {f.condition : f \in found}]>>

(* A symbol of no file has nothing to be judged by, and survives.          *)
judge3f ==
  /\ gate3f.pc = "scan" /\ gate3f.queue = <<>> /\ gate3f.left # <<>>
  /\ LET claim == Head(gate3f.left)
         found == IF claim.file = {} THEN {}
                  ELSE findings(CHOOSE p \in claim.file : TRUE, claim.name)
         next  == [gate3f EXCEPT !.left = Tail(@),
                                 !.unattributed = @ + IF claim.file = {} THEN 1 ELSE 0]
     IN  gate3f' = IF found = {} THEN [next EXCEPT !.survived = Append(@, claim)]
                   ELSE [next EXCEPT !.refused = @ \o record3f(claim, found)]
  /\ UNCHANGED treeVars

UserMoves3f ==
  /\ gate3f.pc = "scan"
  /\ \E path \in PathSet : Move(path)
  /\ UNCHANGED gate3f

Init3f == TreeInit /\ gate3f = New3f

Next3f == run3f \/ scan_fails \/ detect_frameworks \/ judge3f \/ UserMoves3f

Spec3f == Init3f /\ [][Next3f]_gate3fVars

-----------------------------------------------------------------------------
(* A file that imports a job framework, and stood untouched in this        *)
(* repository during the run, is never called dead, whether or not a       *)
(* manifest names the framework and whatever file the scan met it in first *)
(* ("No ban count overrides this"); nor is a symbol of it.                 *)
ImportersAreKept ==
  \A claim \in Range(gate3f.survived) : \A path \in claim.file :
    Reads(path) /\ Untouched(path) /\ ~ Elsewhere(path) =>
      \A n \in DOMAIN tree[path].lines :
        LET line == lower(tree[path].lines[n])
        IN  is_import_line(line) => \A f \in JOB_FRAMEWORKS : ~ contains_component(line, f)

(* The layer accounts for every claim it was handed once, and it never     *)
(* lets a file go and keeps a symbol in it for the file's own bytes: both  *)
(* were read as the same file (Gate3fRefusal: "One refusal per claim").    *)
ClaimsAreAccountedFor ==
  /\ gate3f.claimed = Len(gate3f.left) + Len(gate3f.refused) + Len(gate3f.survived)
  /\ \A r \in Range(gate3f.refused) : \A whole \in Range(gate3f.survived) :
       whole.name = "none" /\ whole.file = r.claim.file =>
         \E path \in whole.file : ~ Untouched(path)
=============================================================================
