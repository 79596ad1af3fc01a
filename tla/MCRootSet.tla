------------------------------ MODULE MCRootSet ------------------------------
(***************************************************************************)
(* A checkout of the root set: two entries in .judged/roots.toml, each     *)
(* with the paths its author means, or one file with markers, each with    *)
(* the names that its author exports.                                      *)
(***************************************************************************)
EXTENDS RootSet, TLC

RAt == <<"/", "srv", "/", "r">>
RClasses == "[am]" :> {"a", "m"} @@ "[!m]" :> {"a", "x", "app", "py", "."}
REndsInR == {"r", "for"}
RPunctuation == {" ", "(", ")", "{", "=", ";", ":", "''"}
M == <<"m", ".", "rb">>
AppM == <<"app", "/", "m", ".", "rb">>
JobsM == <<"app", "/", "jobs", "/", "m", ".", "rb">>
AppX == <<"app", "/", "x", ".", "py">>
Pth == <<"lib", "/", "s", ".", "pth">>
Site == <<"lib", "/", "sitecustomize", ".", "py">>
Rust == <<"lib", "/", "f", ".", "rs">>
Go == <<"lib", "/", "f", ".", "go">>
Vendored == <<"vendor", "/", "m", ".", "rb">>
Jobs == <<"app", "/", "jobs">>

Source(lines) == [readable |-> TRUE, lines |-> lines]
Dir(git, listed) == [marks |-> [NoMarks EXCEPT !.git = git], listed |-> listed]
Plain == [d \in {<<>>, <<"app">>, Jobs, <<"vendor">>, <<"lib">>} |-> Dir("none", TRUE)]
Empty == [p \in {M, AppM, JobsM, AppX, Vendored} |-> Source(<<>>)]

-----------------------------------------------------------------------------
(* Pathspecs, and the paths that they are meant to cover.                  *)
Spec0 == {
  [spec |-> M, covers |-> {M, AppM, JobsM, Vendored}],
  [spec |-> <<"/">> \o M, covers |-> {M}],
  [spec |-> Jobs \o <<"/">>, covers |-> {JobsM}],
  [spec |-> <<"jobs">>, covers |-> {JobsM}],
  [spec |-> <<"app", "/", "**">>, covers |-> {AppM, JobsM, AppX}],
  [spec |-> <<"app", "/", "**", "/", "m", ".", "?">>, covers |-> {AppM, JobsM}],
  [spec |-> <<"app", "/", "*", ".", "py">>, covers |-> {AppX}],
  [spec |-> <<"**", "/", "[!m]", ".", "*">>, covers |-> {AppX}],
  [spec |-> <<"*", "/", "[am]", "*">>, covers |-> {AppM, Vendored}],
  [spec |-> <<"a">>, covers |-> {}],
  [spec |-> <<"!">> \o Jobs, covers |-> {JobsM}],
  [spec |-> <<"!", "app", "/", "m", ".", "rb">>, covers |-> {AppM}]}

L(key, value) == [key |-> key, value |-> {value}]
Entry(spec, status) ==
  <<L("[[root]]", <<>>), L("path", spec), L("", <<>>), L("reason", <<"why">>), L("kind", <<"external">>),
    L("status", <<status>>), L("expires", <<IF status = "rejected" THEN "2025" ELSE "2099">>)>>
Means(e, status) == [covers |-> e.covers, keeps |-> Head(e.spec) # "!" /\ status # "rejected"]
Told(present, readable, lines) == [present |-> present, readable |-> readable, lines |-> lines]
Meant(bad, declared, symbols, run) == [bad |-> bad, declared |-> declared, symbols |-> symbols, run |-> run]

Declaring ==
  {[sources |-> Empty, dirs |-> Plain,
    declared |-> Told(TRUE, TRUE, Entry(e.spec, s[1]) \o Entry(f.spec, s[2])),
    meant |-> Meant(FALSE, <<Means(e, s[1]), Means(f, s[2])>>, {}, {})] :
      e \in Spec0, f \in Spec0, s \in {<<"underReview", "accepted">>, <<"accepted", "rejected">>}}

Good == Entry(M, "accepted")
Broken ==
  {Told(TRUE, FALSE, Good), Told(TRUE, TRUE, Tail(Good)), Told(TRUE, TRUE, Append(Good, L("reason", <<"too">>))),
   Told(TRUE, TRUE, Append(Good, L("[[roots]]", <<>>))),
   Told(TRUE, TRUE, Good \o Entry(M, "ignored")), Told(TRUE, TRUE, Entry(<<"..", "/">> \o M, "accepted") \o Good),
   Told(TRUE, TRUE, Entry(<<"!">>, "accepted")), Told(TRUE, TRUE, Entry(<<"[", "m">>, "accepted"))}
  \cup {Told(TRUE, TRUE, [Good EXCEPT ![i].value = {}]) : i \in {2, 4, 7}}
  \cup {Told(TRUE, TRUE, RemoveAt(Good, i)) : i \in {2, 4, 5, 6}}
Malformed ==
  {[sources |-> Empty, dirs |-> Plain, declared |-> d, meant |-> Meant(TRUE, <<>>, {}, {})] : d \in Broken}

-----------------------------------------------------------------------------
(* Files with markers, some of them in the text of a string.               *)
NoMangle == <<"#", "[", "no_mangle", "]">>
Fn(name) == <<" ", "pub", " ", "fn", " ", name, "(", ")">>
Marked(path, lines, symbols) == [path |-> path, lines |-> lines, symbols |-> {<<x>> : x \in symbols}]
MarkedFiles == {
  Marked(Rust, <<NoMangle, <<"//", " ", "fn", " ", "g">>, <<"#", "[", "cold", "]">>, Fn("f")>>, {"f"}),
  Marked(Rust, <<NoMangle, <<>>, Fn("g")>>, {}),
  Marked(Rust, <<NoMangle, <<"struct", " ", "g">>, Fn("g")>>, {}),
  Marked(Rust, <<<<"#", "[", "export_name", "=", "''", "abi", "''", "]">>, Fn("f")>>, {"abi", "f"}),
  Marked(Rust, <<<<"let", " ", "r", "#", "''", "for">>, NoMangle, <<"''", "for">>, Fn("g"), <<"''", "#", ";">>,
                 <<"#", "[", "used", "]">>, <<"static", " ", "S", ":">>>>, {"S"}),
  Marked(Rust, <<<<"(", "r", "''">>, NoMangle, Fn("g"), <<"''", ")">>, <<"r", "''", "x", "''">>, NoMangle, Fn("f")>>,
         {"f"}),
  Marked(Rust, <<<<"#", "[", "ctor", "]", "/n">>, Fn("g"), NoMangle, Fn("f")>>, {"f"}),
  Marked(Go, <<<<"//go:linkname", " ", "local", " ", "x", "/", "p", ".", "Remote">>, <<"//export", " ", "f">>>>,
         {"local", "Remote", "f"}),
  Marked(Go, <<<<"x", "=", "bq">>, <<"//export", " ", "g">>, <<"bq">>, <<"y", "bq", "z", "bq">>,
               <<"//go:linkname", " ", "local">>>>, {"local"}),
  Marked(Pth, <<<<"import", " ", "f", ";", "g", "(">>, <<"importg">>>>, {"f"}),
  Marked(Site, <<NoMangle, Fn("g")>>, {})}
Bare == {[sources |-> <<>>, dirs |-> <<>> :> Dir("none", TRUE), declared |-> Told(FALSE, TRUE, <<>>),
          meant |-> Meant(FALSE, <<>>, {}, {})]}
LibDirs == {Dir("none", TRUE), Dir("file", TRUE), Dir("none", FALSE)}
Marking ==
  {[sources |-> Empty @@ f.path :> [Source(f.lines) EXCEPT !.readable = readable],
    dirs |-> [Plain EXCEPT ![<<"lib">>] = lib], declared |-> Told(FALSE, TRUE, <<>>),
    meant |-> IF lib.marks.git = "none" /\ readable THEN Meant(FALSE, <<>>, f.symbols, {f.path} \cap {Pth, Site})
              ELSE Meant(FALSE, <<>>, {}, {})] :
     f \in MarkedFiles, lib \in LibDirs, readable \in BOOLEAN}

RCheckouts == Declaring \cup Malformed \cup Marking \cup Bare

-----------------------------------------------------------------------------
PathClaim(name, means) == [kind |-> "Path", name |-> name, means |-> means]
SymbolClaim(name, means) == [kind |-> "Symbol", name |-> name, means |-> means]
RClaims ==
  {{PathClaim(RAt \o <<"/">> \o M, M), PathClaim(<<"app", "/", ".", "/">> \o M, AppM), PathClaim(JobsM, JobsM),
    PathClaim(<<"app", "/", "/", "x", ".", "py">>, AppX), PathClaim(Pth, Pth), PathClaim(Site, Site),
    PathClaim(Rust, Rust), SymbolClaim(<<"p", ".", "f">>, <<"f">>), SymbolClaim(<<"pf">>, <<"pf">>)}
   \cup {SymbolClaim(<<x>>, <<x>>) : x \in {"g", "S", "abi", "local"}}
   \cup {SymbolClaim(<<"x", "::", "Remote">>, <<"Remote">>)}}
RManifests == {{}, {{}}, {{[kind |-> "Path", text |-> <<"app", "/", "x", ".", "py">>], [kind |-> "Glob", text |-> M]}}}
ROver == {<<"2025">>}
RConventions ==
  {{}, {[roots |-> {}, unknown |-> {"FrameworkWithoutPlugin"}, files |-> TRUE]},
   {[roots |-> {[path |-> AppM, symbol |-> {<<"g">>}]}, unknown |-> {}, files |-> TRUE]}}
=============================================================================
