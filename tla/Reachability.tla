---------------------------- MODULE Reachability -----------------------------
(***************************************************************************)
(* Gates 2b and 2c (judged-core/src/veto/reachability.rs): one walk over   *)
(* the repository and one read of every file in it find what a manifest    *)
(* names and what is enumerated at runtime; every candidate is then judged *)
(* against what was found.  The walk classifies each directory first       *)
(* (Boundary).  A user works in the tree meanwhile.                        *)
(*                                                                         *)
(* A path is the sequence of its components, the root is <<>>.  A pattern  *)
(* is [outside, parts]: outside marks a URL, an absolute path, a home      *)
(* directory or a variable; parts is the text between the slashes.         *)
(***************************************************************************)
EXTENDS Integers, SequencesExt, Subsequences, Boundary

CONSTANTS
  Paths,        \* the paths there may be, the root apart
  ManifestOf,   \* path -> ManifestKind::of its name, or "none"
  Globs,        \* the components with a glob metacharacter
  SuffixOf,     \* such a component -> {suffix} if it is * and a literal
  GlobNames,    \* such a component -> the names it matches, "**" any path
  Entries,      \* path -> the things there may be at it
  MaxTouches    \* bound: how many paths the user touches during a scan

ASSUME ReachAssumption ==
  /\ Paths \subseteq Seq(STRING) \ {<<>>}
  /\ MaxTouches \in Nat

VARIABLES
  disk,         \* path -> what is there
  scan,         \* struct Scan, and how far it got
  aux_changed   \* history: the paths touched since the scan began

reachVars == <<disk, scan, aux_changed>>

Root == <<>>
Parent(path) == Front(path)
Under(directory, path) == IsPrefix(directory, path)
Children(directory) ==
  {p \in Paths : Len(p) = Len(directory) + 1 /\ Under(directory, p)}
Above(path) == {SubSeq(path, 1, n) : n \in 1 .. Len(path) - 1}

(* What is listed has a name that is not . or .., below what is listed; a  *)
(* component with a metacharacter is none of these names either, a * with  *)
(* a literal has one suffix, and ** has none.                              *)
ASSUME NameAssumption ==
  \A p \in Paths : Above(p) \subseteq Paths /\ Range(p) \cap {"", ".", ".."} = {}
ASSUME GlobAssumption ==
  /\ Globs \cap {"", ".", ".."} = {} /\ "**" \in Globs /\ SuffixOf["**"] = {}
  /\ \A g \in Globs : \A s \in SuffixOf[g] : SuffixOf[g] = {s}

(* A path leads to a thing of some type if directories lead to it.         *)
Is(path, type) ==
  /\ \A p \in Above(path) : disk[p].type = "dir"
  /\ path # Root => disk[path].type = type

-----------------------------------------------------------------------------
(* Patterns.  The components that say something, and the first of them     *)
(* that is not a plain name.                                               *)
components(parts) == Picked(parts, {i \in DOMAIN parts : parts[i] \notin {"", "."}})

FirstOf(parts, special) ==
  LET hits == {i \in DOMAIN parts : parts[i] \in special}
  IN  IF hits = {} THEN Len(parts) + 1 ELSE Min(hits)

Nothing == [roots |-> {}, suffixes |-> {}]
Rooted(path) == [roots |-> {path}, suffixes |-> {}]

(* Mutant: a pattern that starts with a glob names nothing.                *)
root_literals(pattern) ==
  LET named == components(pattern.parts)
      first == FirstOf(named, Globs \cup {".."})
  IN  IF pattern.outside \/ first = 1 \/ (first <= Len(named) /\ named[first] = "..")
        THEN Nothing
        ELSE Rooted(SubSeq(named, 1, first - 1))

(* What a manifest's pattern roots: its literal prefix, taken from the     *)
(* root of the repository; a suffix; or everything.                        *)
root_pattern(pattern) ==
  LET named == components(pattern.parts)
      first == FirstOf(named, Globs \cup {".."})
      last  == Last(pattern.parts)
  IN  IF pattern.outside THEN Nothing
      ELSE IF pattern.parts = <<".">> THEN Rooted(Root)
      ELSE IF first <= Len(named) /\ named[first] = ".." THEN Nothing
      ELSE IF first > 1 THEN Rooted(SubSeq(named, 1, first - 1))
      ELSE IF named = <<>> THEN Nothing
      ELSE IF last \in Globs /\ SuffixOf[last] # {}
        THEN [roots |-> {}, suffixes |-> SuffixOf[last]]
      ELSE Rooted(Root)

(* .. takes a component back; one that leaves the tree leaves nothing.     *)
normalize(path) ==
  LET out[n \in 0 .. Len(path)] ==
        IF n = 0 THEN {Root}
        ELSE UNION {IF path[n] # ".." THEN {Append(p, path[n])}
                    ELSE IF p = Root THEN {} ELSE {Front(p)} : p \in out[n - 1]}
  IN  out[Len(path)]

(* The directories of the walk a string literal in source might name.      *)
directories_for(source, literal) ==
  LET named    == components(literal.parts)
      prefix   == SubSeq(named, 1, FirstOf(named, Globs) - 1)
      resolved == (normalize(Parent(source) \o prefix) \cup normalize(prefix)) \ {Root}
  IN  IF literal.outside \/ prefix = <<>> THEN {}
      ELSE (resolved \cap scan.directories)
             \cup ({Parent(p) : p \in resolved \cap scan.files} \ {Root})

-----------------------------------------------------------------------------
(* Manifests.  A file that is one holds lines [head, words, opens, closes]:*)
(* what the line starts with, the patterns on it, and its brackets.        *)
WordsOf(line) == Range(line.words)

(* A command names the tokens with a slash in them.                        *)
yaml(lines) ==
  UNION {CASE l.head = "path"    -> WordsOf(l)
           [] l.head = "command" -> {w \in WordsOf(l) : Len(w.parts) > 1 /\ ~ w.outside}
           [] OTHER              -> {} : l \in lines}

(* Lines that end in a backslash go on; a comment in between is dropped.   *)
dockerfile_instructions(text) ==
  LET read == FoldLeft(LAMBDA acc, l :
                LET head == IF acc.head = "" THEN l.head ELSE acc.head
                IN  IF l.head = "#" THEN acc
                    ELSE IF l.opens
                      THEN [acc EXCEPT !.head = head, !.words = @ \o l.words]
                    ELSE [head |-> "", words |-> <<>>,
                          out |-> Append(acc.out, [head |-> head, words |-> acc.words \o l.words])],
                [head |-> "", words |-> <<>>, out |-> <<>>], text)
  IN  Append(read.out, [head |-> read.head, words |-> read.words])

(* The last argument is a path in the image.                               *)
dockerfile(text) ==
  UNION {Range(Front(l.words)) :
           l \in {k \in Range(dockerfile_instructions(text)) : k.head = "copy" /\ k.words # <<>>}}

docker_ignore(lines) == UNION {WordsOf(l) : l \in {k \in lines : k.head = "!"}}

manifest_in(lines) ==
  UNION {CASE l.head \in {"graft", "recursive-include"}  -> Range(SubSeq(l.words, 1, 1))
           [] l.head \in {"include", "global-include"} -> WordsOf(l)
           [] OTHER -> {} : l \in lines}

package_json(lines) == UNION {WordsOf(l) : l \in {k \in lines : k.head = "files"}}

git_attributes(lines) ==
  {Head(l.words) : l \in {k \in lines : k.head = "lfs" /\ k.words # <<>>}}

(* An array that an include line opens goes on until a bracket closes it.  *)
include_lines(text) ==
  FoldLeft(LAMBDA acc, l :
             IF l.head = "#" THEN acc
             ELSE IF acc.inside
               THEN [inside |-> ~ l.closes, named |-> acc.named \cup WordsOf(l)]
             ELSE IF l.head = "include"
               THEN [inside |-> l.opens /\ ~ l.closes, named |-> acc.named \cup WordsOf(l)]
             ELSE acc,
           [inside |-> FALSE, named |-> {}], text).named

(* The patterns of a manifest.                                             *)
manifest(kind, text) ==
  LET lines == Range(text)
  IN  CASE kind = "Yaml"          -> yaml(lines)
        [] kind = "Dockerfile"    -> dockerfile(text)
        [] kind = "DockerIgnore"  -> docker_ignore(lines)
        [] kind = "ManifestIn"    -> manifest_in(lines)
        [] kind = "PackageJson"   -> package_json(lines)
        [] kind = "Include"       -> include_lines(text)
        [] kind = "GitAttributes" -> git_attributes(lines)
        [] kind = "none"          -> {}

(* Text is split at its slashes.                                           *)
ASSUME PatternAssumption ==
  \A p \in Paths : \A e \in Entries[p] :
    \A l \in e.literals \cup manifest(ManifestOf[p], e.lines) : l.parts \in Seq(STRING)

(* A manifest that is not text, or a YAML or JSON one that does not load,  *)
(* has told nothing: the search is incomplete.                             *)
defective(kind, file) ==
  \/ kind # "none" /\ ~ file.utf8
  \/ kind \in {"Yaml", "PackageJson"} /\ ~ file.loads

-----------------------------------------------------------------------------
(* The walk: one directory at a time, in whatever order read_dir lists.    *)
Begin ==
  /\ scan.pc = "idle"
  /\ scan' = [scan EXCEPT !.pc = "walk", !.pending = {Root}, !.directories = {Root}]
  /\ aux_changed' = {}
  /\ UNCHANGED disk

walk(directory) ==
  /\ scan.pc = "walk" /\ directory \in scan.pending
  /\ Is(directory, "dir")
  /\ LET inside  == {p \in Children(directory) : disk[p].type = "dir"}
         bounded == {p \in inside : stops_the_walk(classify(disk[p].marks))}
         unclear == {p \in inside : classify(disk[p].marks) = "Unreadable"}
     IN  scan' = [scan EXCEPT
           !.pending     = (@ \ {directory}) \cup (inside \ bounded),
           !.directories = @ \cup (inside \ bounded),
           !.files       = @ \cup {p \in Children(directory) : disk[p].type = "file"},
           !.incomplete  = @ \cup unclear]
  /\ UNCHANGED <<disk, aux_changed>>

(* The directory is gone or cannot be listed.                              *)
ListingFails(directory) ==
  /\ scan.pc = "walk" /\ directory \in scan.pending
  /\ scan' = [scan EXCEPT !.pending = @ \ {directory}, !.incomplete = @ \cup {directory}]
  /\ UNCHANGED <<disk, aux_changed>>

Walked ==
  /\ scan.pc = "walk" /\ scan.pending = {}
  /\ scan' = [scan EXCEPT !.pc = "analyze", !.left = scan.files]
  /\ UNCHANGED <<disk, aux_changed>>

(* What enumerates roots its own directory, and what its literals name.    *)
enumeration(path, file) ==
  IF file.enumerates
    THEN {Parent(path)} \cup UNION {directories_for(path, l) : l \in file.literals}
    ELSE {}

(* One file is read, or cannot be.                                         *)
analyze(path) ==
  /\ scan.pc = "analyze" /\ path \in scan.left
  /\ LET file == disk[path]
         kind == ManifestOf[path]
         found == {root_pattern(w) : w \in manifest(kind, file.lines)}
     IN  scan' =
       IF ~ Is(path, "file") \/ ~ file.readable
         THEN [scan EXCEPT !.left = @ \ {path}, !.incomplete = @ \cup {path}]
       ELSE IF defective(kind, file)
         THEN [scan EXCEPT !.left = @ \ {path}, !.incomplete = @ \cup {path},
                           !.rooted = @ \cup enumeration(path, file)]
       ELSE [scan EXCEPT !.left = @ \ {path},
               !.rooted   = @ \cup enumeration(path, file) \cup UNION {r.roots : r \in found},
               !.suffixes = @ \cup UNION {r.suffixes : r \in found}]
  /\ UNCHANGED <<disk, aux_changed>>

Analyzed ==
  /\ scan.pc = "analyze" /\ scan.left = {}
  /\ scan' = [scan EXCEPT !.pc = "done"]
  /\ UNCHANGED <<disk, aux_changed>>

(* Is the candidate rescued?                                               *)
HasSuffix(name, suffix) ==
  \E g \in Globs : SuffixOf[g] = {suffix} /\ name \in GlobNames[g]

vetoed(candidate) ==
  \/ scan.incomplete # {}
  \/ \E p \in scan.rooted : Under(p, candidate)
  \/ \E s \in scan.suffixes : HasSuffix(Last(candidate), s)

(* The user puts something else at a path.                                 *)
Change(path) ==
  /\ scan.pc \in {"walk", "analyze"} /\ Cardinality(aux_changed) < MaxTouches
  /\ disk' \in {[disk EXCEPT ![path] = e] : e \in Entries[path] \ {disk[path]}}
  /\ aux_changed' = aux_changed \cup {path}
  /\ UNCHANGED scan

-----------------------------------------------------------------------------
ReachInit ==
  /\ disk \in {d \in [Paths -> UNION Range(Entries)] : \A p \in Paths : d[p] \in Entries[p]}
  /\ scan = [pc |-> "idle", pending |-> {}, directories |-> {}, files |-> {},
             left |-> {}, rooted |-> {}, suffixes |-> {}, incomplete |-> {}]
  /\ aux_changed = {}

ReachNext ==
  \/ Begin \/ Walked \/ Analyzed
  \/ \E d \in scan.pending : walk(d) \/ ListingFails(d)
  \/ \E p \in scan.left : analyze(p)
  \/ \E p \in Paths : Change(p)

ReachSpec == ReachInit /\ [][ReachNext]_reachVars

-----------------------------------------------------------------------------
(* What the patterns of a build tool mean: some path of the tree, component*)
(* by component, where ** stands for any number of them.                   *)
Matches(parts, path) ==
  LET named == components(parts)
  IN  \E cut \in [0 .. Len(named) -> 0 .. Len(path)] :
        /\ cut[0] = 0 /\ cut[Len(named)] = Len(path)
        /\ \A i \in DOMAIN named :
             IF named[i] = "**" THEN cut[i] >= cut[i - 1]
             ELSE /\ cut[i] = cut[i - 1] + 1
                  /\ IF named[i] \in Globs THEN path[cut[i]] \in GlobNames[named[i]]
                     ELSE path[cut[i]] = named[i]

Names(pattern, path) ==
  ~ pattern.outside /\ pattern.parts # <<>> /\ Matches(pattern.parts, path)

(* Files that no one touched, below directories that no one touched and    *)
(* that are no repositories of their own, or below one that is.            *)
Ours(directory) == disk[directory].marks.git = "none" /\ disk[directory].marks.HEAD = "none"

StoodStill ==
  {f \in Paths : disk[f].type = "file" /\ (Above(f) \cup {f}) \cap aux_changed = {}
                 /\ \A p \in Above(f) : disk[p].type = "dir"}

Own     == {f \in StoodStill : \A p \in Above(f) : Ours(p)}
Foreign == {f \in StoodStill : \E p \in Above(f) : classify(disk[p].marks) # "None"}

(* A candidate is cleared only by a search that read every file of the     *)
(* repository, and no file that stood throughout enumerates the directory  *)
(* it is in, names an existing directory above the candidate while it      *)
(* enumerates, or is a manifest that names the candidate, or a directory   *)
(* above it by a pattern that starts with a name (module comment: "an      *)
(* incomplete read is a hit, never an absence").                           *)
StartsWithName(pattern) == Head(components(pattern.parts)) \notin Globs

ClearedIsUnreached ==
  scan.pc = "done" => \A c \in {p \in Paths : ~ vetoed(p)}, f \in Own :
      /\ disk[f].readable /\ ~ defective(ManifestOf[f], disk[f])
      /\ disk[f].enumerates =>
           /\ ~ Under(Parent(f), c)
           /\ \A l \in disk[f].literals :
                components(l.parts) \in Above(c) \cap scan.directories
                  => l.outside \/ ~ StartsWithName(l)
      /\ \A w \in manifest(ManifestOf[f], disk[f].lines) : \A n \in 1 .. Len(c) :
           Names(w, SubSeq(c, 1, n)) => n < Len(c) /\ ~ StartsWithName(w)

(* Another repository's files are not read, so they root nothing here      *)
(* ("0b, through the shared classifier", walk).                            *)
ForeignRootsNothing == \A f \in scan.files : f \notin Foreign
=============================================================================
