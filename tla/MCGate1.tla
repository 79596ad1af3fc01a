------------------------------- MODULE MCGate1 -------------------------------
(***************************************************************************)
(* Trees for TLC: a module in a directory, and one or two of the things    *)
(* that change what Gate 1 says about it.                                  *)
(***************************************************************************)
EXTENDS Gate1, TLC

GLower == [Pulumi |-> "pulumi", LICENSE |-> "license", NOTICE |-> "notice",
           Chart |-> "chart", BAK |-> "bak"]
GWidth == [long |-> 300]
GClass == ("[ab]" :> {"a", "b", "x"}) @@ ("[!y]" :> {"/", "x"})

Attr(pattern, tokens) == [pattern |-> pattern, tokens |-> tokens]
Tok(sign, name) == [sign |-> sign, name |-> name, value |-> "none"]
Vendored == Tok("", "linguist-vendored")
NotVendored == Tok("-", "linguist-vendored")
Lfs(value) == [sign |-> "", name |-> "filter", value |-> value]

GFile(lines) == [Thing("file") EXCEPT !.lines = lines]
GNone == Thing("none")
GLink(leads, target) == [Thing("link") EXCEPT !.leads = leads, !.target = target]
Unread(thing) == [thing EXCEPT !.readable = FALSE]
GDir(git) == [Thing("dir") EXCEPT !.marks = [NoMarks EXCEPT !.git = git]]

XPy == <<"app", "/", "x", ".", "py">>
Py  == <<"*", ".", "py">>

GOptions == <<
  [path |-> <<".gitattributes">>, may |-> {
     GFile(<<Attr(Py, <<Vendored>>)>>),
     GFile(<<Attr(<<"app", "/", "**">>, <<Vendored>>), Attr(<<"x", ".", "?">>, <<NotVendored>>)>>),
     GFile(<<Attr(<<"/", "*", "/", "x", ".", "py">>, <<Lfs("lfs")>>),
             Attr(<<"[ab]", ".", "py">>, <<Lfs("")>>)>>),
     GFile(<<Attr(<<"/", "app", "[!y]", "x", ".", "*">>, <<[Vendored EXCEPT !.value = "true"]>>),
             Attr(<<"app", "/", "y", ".", "py">>, <<NotVendored>>)>>),
     GFile(<<Attr(<<"**", "/", "x", ".", "py">>, <<Vendored, NotVendored>>),
             Attr(<<"app", "/">>, <<Vendored>>)>>),
     Unread(GFile(<<>>))}],
  [path |-> <<".gitmodules">>, may |-> {
     GFile(<<[key |-> "path", path |-> <<"app">>]>>), Unread(GFile(<<>>)), GLink("broken", <<>>)}],
  [path |-> <<"app">>, may |-> {GDir("file"), GDir("error")}],
  [path |-> <<"app", "/", ".gitattributes">>, may |-> {
     GFile(<<Attr(Py, <<NotVendored>>)>>),
     GFile(<<Attr(<<"x", ".", "*">>, <<Tok("!", "linguist-vendored")>>), Attr(Py, <<Vendored>>)>>)}],
  [path |-> <<"app", "/", "min", ".", "js">>, may |-> {
     GFile(<<<<"long">>, <<"a">>>>), GFile(<<<<"a">>, <<"//# sourceMappingURL", "x">>>>)}],
  [path |-> XPy, may |-> {
     GNone, GFile(<<<<"#">>, <<"SPDX-License-Identifier:", "MIT">>>>), Unread(GFile(<<>>)),
     GLink("file", <<"k", ".", "yml">>), GLink("outside", <<>>),
     GFile(<<<<"SQLite format 3">>>>)}],
  [path |-> <<"k", ".", "yml">>, may |-> {
     GFile(<<<<"argoproj.io">>>>), GFile(<<<<"a">>, <<"fluxcd.io">>>>), Unread(GFile(<<>>))}],
  [path |-> <<"ln">>, may |-> {
     GLink("outside", <<>>), GLink("inside", <<"app">>),
     GLink("broken", <<".git", "/", "annex", "/", "objects", "/", "a">>)}],
  [path |-> <<"main", ".", "tf">>, may |-> {GFile(<<>>), GLink("file", <<"k">>)}],
  [path |-> <<"z", ".", "yaml">>, may |-> {GFile(<<<<"argoproj.io">>>>)}] >>

GPaths == [i \in DOMAIN GOptions |-> GOptions[i].path]
GBase == [p \in Range(GPaths) |->
  CASE p = <<"app">> -> GDir("none")
    [] p \in {XPy, <<"k", ".", "yml">>} -> GFile(<<<<"a">>>>)
    [] OTHER -> GNone]
GMay == [p \in Range(GPaths) |->
  {GBase[p]} \cup UNION {o.may : o \in {q \in Range(GOptions) : q.path = p}}]

Deviate(t, paths) == {t} \cup UNION {{[t EXCEPT ![p] = e] : e \in GMay[p]} : p \in paths}
(* Where a user works: an ordinary tree, and one with attributes.          *)
Moving1 == {GBase, [GBase EXCEPT ![<<".gitattributes">>] = GFile(<<Attr(Py, <<Vendored>>)>>)]}
(* One with more entries than the limits: the last of them is an effector. *)
Crowded == [GBase EXCEPT
  ![<<".gitattributes">>] = GFile(<<Attr(<<"app", "/", "**">>, <<Vendored>>),
                                    Attr(<<"x", ".", "?">>, <<NotVendored>>)>>),
  ![<<".gitmodules">>] = GLink("broken", <<>>), ![<<"ln">>] = GLink("inside", <<"app">>),
  ![<<"main", ".", "tf">>] = GFile(<<>>)]
Trees ==
  {Crowded} \cup UNION {Deviate(t, Range(GPaths)) : t \in Deviate(GBase, {<<".gitattributes">>, <<"app">>})}

Claim(kind, site, spelling) == [kind |-> kind, site |-> site, spelling |-> spelling]
GAnalyses ==
  {<<Claim("Path", {XPy}, "plain"), Claim("Symbol", {}, "plain")>>,
   <<Claim("Path", {XPy}, "dotted")>>,
   <<Claim("Symbol", {<<"app", "/", "min", ".", "js">>}, "plain")>>}
GIgnore == [p \in Range(GPaths) |-> IF p = XPy THEN {"", "!x.py", "error"} ELSE {""}]

Gate1Rest == survey = NewSurvey /\ content = NewContent /\ aux_moved = {}
               /\ gate1 = [NewRun("run", <<>>) EXCEPT !.pc = "idle"]
=============================================================================
