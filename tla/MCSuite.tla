------------------------------- MODULE MCSuite -------------------------------
(***************************************************************************)
(* Two classes for TLC: a polyglot one with a living file, a living symbol *)
(* that the analyzer qualifies and a decoy, and one in another language    *)
(* with a living symbol that the analyzer attributes to no file.           *)
(***************************************************************************)
EXTENDS Suite

Path(name) == [kind |-> "path", name |-> name, attributed |-> TRUE]
Symbol(name, attributed) ==
  [kind |-> "symbol", name |-> name, attributed |-> attributed]

MCLanguagesOf == <<{"python", "yaml"}, {"go"}>>
MCClaimable == <<{Path(<<"apps">>), Symbol(<<"ledger", "Run">>, TRUE), Path(<<"old">>)},
                 {Symbol(<<"Drain">>, FALSE)}>>
MCLive == <<{[kind |-> "path", name |-> <<"apps">>], [kind |-> "symbol", name |-> <<"Run">>]},
            {[kind |-> "symbol", name |-> <<"Drain">>]}>>
MCDecoys == <<{[path |-> <<"old">>, symbol |-> <<>>]}, {}>>
MCDeclarations == {{}, {{}}, {{"python"}}}
MCStacks == {<<>>, <<"gate1", "veto">>, <<"gate3f", "coverage", "roots">>}

(* One class: a living file at the root, and a dead one of the same name   *)
(* in a directory.                                                         *)
NestedLanguagesOf == <<{"python"}>>
NestedClaimable == <<{Path(<<"apps">>), Path(<<"reporting", "apps">>)}>>
NestedLive == <<{[kind |-> "path", name |-> <<"apps">>]}>>
NestedDecoys == <<{[path |-> <<"reporting", "apps">>, symbol |-> <<>>]}>>
=============================================================================
