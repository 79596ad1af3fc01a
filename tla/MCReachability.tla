---------------------------- MODULE MCReachability ----------------------------
(***************************************************************************)
(* A repository for TLC: a loader beside a directory of data, and each     *)
(* kind of manifest at the top, with the spellings a pattern comes in.     *)
(***************************************************************************)
EXTENDS Reachability

MCGlobs == {"*", "*.bin", "**"}
MCSuffixOf == [g \in MCGlobs |-> IF g = "*.bin" THEN {".bin"} ELSE {}]
MCGlobNames == [g \in MCGlobs |-> IF g = "*.bin" THEN {"w.bin"}
                                  ELSE {"w.bin", "app", "data", "load"}]

ManifestKinds ==
  {"Yaml", "Dockerfile", "DockerIgnore", "ManifestIn", "PackageJson", "Include", "GitAttributes"}
App  == <<"app">>
Load == <<"app", "load">>
Data == <<"data">>
Bin  == <<"data", "w.bin">>

MCPaths == {App, Load, Data, Bin} \cup {<<k>> : k \in ManifestKinds}
MCManifestOf == [p \in MCPaths |-> IF p[1] \in ManifestKinds THEN p[1] ELSE "none"]

(* A directory of this repository, a clone, a worktree, a directory whose  *)
(* markers cannot be read, a bare repository, and what only looks like one.*)
BareMarks == [git |-> "none", HEAD |-> "file", objects |-> "dir", refs |-> "dir", first |-> "ref: "]
Marks ==
  {NoMarks, BareMarks, [BareMarks EXCEPT !.refs = "none"]}
    \cup {[NoMarks EXCEPT !.git = kind] : kind \in {"dir", "file", "error"}}

Absent == [type |-> "none", readable |-> FALSE, utf8 |-> FALSE, loads |-> FALSE,
           enumerates |-> FALSE, literals |-> {}, lines |-> <<>>, marks |-> NoMarks]
Dir(marks) == [Absent EXCEPT !.type = "dir", !.marks = marks]
File(lines) == [Absent EXCEPT !.type = "file", !.readable = TRUE, !.utf8 = TRUE,
                              !.loads = TRUE, !.lines = lines]
Loader(literals) == [File(<<>>) EXCEPT !.enumerates = TRUE, !.literals = literals]

Pat(parts) == [outside |-> FALSE, parts |-> parts]
Outside == [outside |-> TRUE, parts |-> <<"data">>]
(* Every spelling, and those that tell one kind of manifest from another.  *)
Pats == {Pat(<<".", "data", "">>), Pat(<<"*.bin">>), Pat(<<"data", "*">>), Pat(<<"**", "w.bin">>),
         Pat(<<".">>), Pat(<<"..", "data">>), Outside}
PatsOf(kind) == IF kind = "Yaml" THEN Pats ELSE {Pat(<<"data", "*">>), Pat(<<"*.bin">>)}

Says(head, words) == [head |-> head, words |-> words, opens |-> FALSE, closes |-> FALSE]
Opens(line) == [line EXCEPT !.opens = TRUE]
Closes(line) == [line EXCEPT !.closes = TRUE]
Heads(kind) ==
  CASE kind = "Yaml"          -> {"path", "command"}
    [] kind = "DockerIgnore"  -> {"!", "data"}
    [] kind = "ManifestIn"    -> {"graft", "include", "prune"}
    [] kind = "PackageJson"   -> {"files", "main"}
    [] kind = "GitAttributes" -> {"lfs", "text"}
Lines(kind, pattern) ==
  CASE kind = "Dockerfile" ->
         {<<Opens(Says("copy", <<pattern>>)), Says("#", <<Outside>>), Says("", <<Pat(App)>>)>>}
    [] kind = "Include" ->
         {<<first, Says("#", <<Outside>>), Closes(Says("other", <<pattern>>)),
            Says("other", <<Pat(App)>>)>> :
            first \in {Opens(Says("include", <<>>)), Closes(Opens(Says("include", <<>>)))}}
    [] OTHER -> {<<Says(head, <<pattern>>)>> : head \in Heads(kind)}

MCEntries == [p \in MCPaths |->
  IF p \in {App, Data} THEN {Dir(m) : m \in Marks}
  ELSE IF p = Load
    THEN {Absent, Loader({}), Loader({Pat(Data)}), Loader({Pat(<<"..", "data", "w.bin">>)}),
          [Loader({}) EXCEPT !.readable = FALSE]}
  ELSE IF p = Bin THEN {File(<<>>), Absent}
  ELSE {Absent, [File(<<>>) EXCEPT !.loads = FALSE], [File(<<>>) EXCEPT !.utf8 = FALSE]}
         \cup {File(l) : l \in UNION {Lines(p[1], w) : w \in PatsOf(p[1])}}]

(* A loader in any kind of directory, or one manifest.                     *)
Plain == [p \in MCPaths |-> IF p \in {App, Data} THEN Dir(NoMarks)
                            ELSE IF p = Bin THEN File(<<>>) ELSE Absent]
Repositories2b ==
  {[Plain EXCEPT ![App] = d, ![Load] = l] : d \in MCEntries[App], l \in MCEntries[Load]}
    \cup UNION {{[Plain EXCEPT ![<<k>>] = e] : e \in MCEntries[<<k>>]} : k \in ManifestKinds}

NewScan == [pc |-> "idle", pending |-> {}, directories |-> {}, files |-> {},
            left |-> {}, rooted |-> {}, suffixes |-> {}, incomplete |-> {}]
=============================================================================
