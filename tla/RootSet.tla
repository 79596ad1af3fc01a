-------------------------------- MODULE RootSet -------------------------------
(***************************************************************************)
(* The root set (judged-mutants/src/roots.rs): what manifests, markers,    *)
(* conventions and people declare to be an entry point, read one after the *)
(* other, and the layer that drops the claims about it; and show-roots     *)
(* (judged-cli/src/roots_cmd.rs), which reports the same set over all the  *)
(* files.  What the manifests and the conventions say is free.             *)
(***************************************************************************)
EXTENDS DeclaredRoots, InSource, FiniteSets

CONSTANTS
  RepoAt,           \* where the repository is, as an absolute path
  Checkouts,        \* what it may hold
  ManifestScans,    \* what the manifests may say: {} for an error, or {a set of targets}
  ConventionScans,  \* likewise for the conventions: [roots, unknown, files]
  RootClaims,       \* what an analyzer may claim: sets of [kind, name, means]
  Expired           \* the deadlines that are over, or that no one can read

VARIABLES
  checkout,  \* [sources, dirs, declared], and what its authors meant by them
  rooted     \* struct RootSet and RootsRun, and how far the run got

rootVars == <<checkout, rooted>>

SKIPPED_DIRECTORIES == {<<"vendor">>, <<"target">>}
Tier == <<"A", "B", "C">>

-----------------------------------------------------------------------------
(* Paths and symbols.  A path keeps a "." only in front.                   *)
normalize_path(path) ==
  FoldLeftDomain(LAMBDA acc, i :
      LET name == names(path)[i]
      IN  IF i = 1 THEN name
          ELSE IF name \in {<<>>, <<".">>} THEN acc ELSE acc \o <<"/">> \o name,
    <<>>, names(path))

relative_to(path) ==
  normalize_path(IF Starts(path, RepoAt \o <<"/">>) THEN SubSeq(path, Len(RepoAt) + 2, Len(path)) ELSE path)

names_declared(claimed, declared) ==
  claimed = declared \/ \E s \in {"::", ".", "/", "#"} : Ends(claimed, <<s>> \o declared)

Root(tier, rule, path, symbol) == [tier |-> tier, rule |-> rule, path |-> path, symbol |-> symbol]

rescues(claim) ==
  {root \in rooted.roots :
     IF claim.kind = "Path" THEN root.path = {relative_to(claim.name)}
     ELSE \E declared \in root.symbol : names_declared(claim.name, declared)}

-----------------------------------------------------------------------------
NewRoots == [pc |-> "run", asked |-> "layer", claims |-> {}, candidates |-> {}, roots |-> {},
             gaps |-> {}, files |-> FALSE, entries |-> <<>>, rescued |-> {}, survived |-> {},
             rot |-> {}]

Collect(to, roots, gaps) ==
  rooted' = [rooted EXCEPT !.pc = to, !.roots = @ \cup roots, !.gaps = @ \cup gaps]

(* The layer's candidates are the paths that are claimed.                  *)
run_rooted ==
  /\ rooted.pc = "run"
  /\ \E claims \in RootClaims :
       rooted' = [rooted EXCEPT !.pc = "manifests", !.claims = claims,
         !.candidates = {relative_to(c.name) : c \in {d \in claims : d.kind = "Path"}}]
  /\ UNCHANGED checkout

(* The command's are the files; a directory that it cannot list is empty.  *)
Walked ==
  {p \in DOMAIN checkout.sources : \A d \in Parents(p) \cup {<<>>} :
     basename(d) \notin SKIPPED_DIRECTORIES /\ checkout.dirs[d].listed}

run_show_roots ==
  /\ rooted.pc = "run"
  /\ rooted' = [rooted EXCEPT !.pc = "manifests", !.asked = "command", !.candidates = Walked]
  /\ UNCHANGED checkout

(* A tier that fails adds no root, and a gap.                              *)
collect_manifests ==
  /\ rooted.pc = "manifests"
  /\ \E scan \in ManifestScans :
       Collect("insource",
         {Root("A", "manifest", IF t.kind = "Path" THEN {normalize_path(t.text)} ELSE {}, {}) :
            t \in UNION scan},
         IF scan = {} THEN {"ManifestUnreadable"} ELSE {})
  /\ UNCHANGED checkout

collect_insource ==
  /\ rooted.pc = "insource"
  /\ IF walk_fails(checkout.dirs) THEN Collect("conventions", {}, {"ManifestUnreadable"})
     ELSE Collect("conventions",
            {Root("A", "marker", r.path, r.symbol) : r \in scan_insource(checkout.sources, checkout.dirs)}, {})
  /\ UNCHANGED checkout

collect_conventions ==
  /\ rooted.pc = "conventions"
  /\ \E scan \in ConventionScans :
       rooted' = [rooted EXCEPT !.pc = "declared",
         !.roots = @ \cup UNION {{Root("B", "convention", {normalize_path(r.path)}, r.symbol) :
                                    r \in s.roots} : s \in scan},
         !.gaps = @ \cup IF scan = {} THEN {"ConventionScanFailed"} ELSE UNION {s.unknown : s \in scan},
         !.files = \E s \in scan : s.files]
  /\ UNCHANGED checkout

(* No file is no root; a file that cannot be read or parsed is a gap.      *)
collect_declared ==
  /\ rooted.pc = "declared"
  /\ LET file   == checkout.declared
         parsed == IF file.readable THEN parse_declared(file.lines) ELSE {}
         to     == IF rooted.asked = "layer" THEN "judge" ELSE "lint"
     IN  IF ~ file.present THEN Collect(to, {}, {})
         ELSE IF parsed = {} THEN Collect(to, {}, {"DeclaredRootsMalformed"})
         ELSE \E entries \in parsed :
           rooted' = [rooted EXCEPT !.pc = to, !.entries = entries,
             !.roots = @ \cup {Root("C", "declared", {normalize_path(path)}, {}) :
                                 path \in Seeds(entries, rooted.candidates)}]
  /\ UNCHANGED checkout

-----------------------------------------------------------------------------
(* The layer only drops, and says which tier rescued a claim.              *)
judge_rooted ==
  /\ rooted.pc = "judge"
  /\ LET kept == {c \in rooted.claims : rescues(c) # {}}
         tier(c) == SelectInSeq(Tier, LAMBDA t : \E root \in rescues(c) : root.tier = t)
     IN  rooted' = [rooted EXCEPT !.pc = "done", !.survived = rooted.claims \ kept,
                                  !.rescued = {[claim |-> c, tier |-> Tier[tier(c)]] : c \in kept}]
  /\ UNCHANGED checkout

(* The command refuses to report on nothing.                               *)
lint_declared ==
  /\ rooted.pc = "lint"
  /\ LET there == DOMAIN checkout.sources \cup DOMAIN checkout.dirs
     IN  rooted' = [rooted EXCEPT
           !.pc = IF ~ rooted.files /\ rooted.candidates = {} THEN "refused" ELSE "done",
           !.rot = lint(rooted.entries, rooted.candidates, there, Expired)]
  /\ UNCHANGED checkout

RootInit == checkout \in Checkouts /\ rooted = NewRoots

RootNext ==
  \/ run_rooted \/ run_show_roots \/ collect_manifests \/ collect_insource
  \/ collect_conventions \/ collect_declared \/ judge_rooted \/ lint_declared

-----------------------------------------------------------------------------
(* What the entries of the file were meant to say of a path: the last one  *)
(* that covers it keeps it or not.                                         *)
Kept(path) ==
  LET meant == checkout.meant.declared
      last  == SelectLastInSeq(meant, LAMBDA d : path \in d.covers)
  IN  last # 0 /\ meant[last].keeps

(* When nothing failed, a claim is dropped if and only if somebody         *)
(* declared what it is about: a manifest or a convention, a marker that is *)
(* code and not the text of a string, a file that an interpreter runs, or  *)
(* the last entry that covers the path, as .gitignore reads it.  A file    *)
(* that is malformed protects nothing and is reported (declared.rs "Every  *)
(* parse failure is fatal rather than skipped"), and an entry that decides *)
(* a path is not reported as one that decided nothing.                     *)
RescuedIffDeclared ==
  rooted.pc = "done" =>
    /\ checkout.meant.bad <=> "DeclaredRootsMalformed" \in rooted.gaps
    /\ "ManifestUnreadable" \notin rooted.gaps => \A claim \in rooted.claims :
         claim \in rooted.survived <=>
           IF claim.kind = "Symbol"
             THEN claim.means \notin checkout.meant.symbols
                    \cup UNION {r.symbol : r \in {x \in rooted.roots : x.rule = "convention"}}
           ELSE /\ claim.means \notin checkout.meant.run /\ ~ Kept(claim.means)
                /\ \A r \in rooted.roots :
                     r.rule \in {"manifest", "convention"} => r.path # {claim.means}
    /\ \A r \in rooted.rot : r.reason = "MatchedNothing" =>
         \A path \in rooted.candidates :
           SelectLastInSeq(checkout.meant.declared, LAMBDA d : path \in d.covers) # r.entry
=============================================================================
