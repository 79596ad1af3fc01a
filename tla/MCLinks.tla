------------------------------- MODULE MCLinks -------------------------------
(***************************************************************************)
(* A file system for TLC: a repository r and a place o outside it, a link  *)
(* to the repository, and one or two oddities.                             *)
(***************************************************************************)
EXTENDS Links, TLC

R == <<"r">>
In(names) == R \o names

KOptions ==
  <<"l">> :> {Link(R), Node("none")} @@ R :> {Node("dir")}
  @@ In(<<".git">>) :> {Node("dir")}
  @@ In(<<".git", "annex">>) :> {Node("none"), Node("dir"), Link(<<"gone">>)}
  @@ In(<<".git", "lfs">>) :> {Node("dir"), Node("none"), Link(In(<<"a">>))}
  @@ In(<<"a">>) :> {Node("dir"), Link(In(<<"b">>)), Link(In(<<".git">>)), Node("locked")}
  @@ In(<<"a", "x">>) :> {Node("none"), Node("file"), Link(<<"gone">>), Link(In(<<".git", "annex">>))}
  @@ In(<<"b">>) :> {Node("none"), Node("dir"), Link(<<"o">>), Link(In(<<"a">>))}
  @@ In(<<"b", "d">>) :> {Node("dir")}
  @@ In(<<"b", "d", "x">>) :> {Node("file"), Link(<<"o", "x">>)}
  @@ In(<<"b", "store">>) :> {Node("none"), Node("dir")}
  @@ <<"o">> :> {Node("dir")}
  @@ <<"o", "x">> :> {Node("file"), Node("locked")}

KBase == [p \in DOMAIN KOptions |->
  CASE p = <<"l">> -> Link(R)
    [] p \in {In(<<"a", "x">>), In(<<".git", "annex">>), In(<<"b", "store">>)} -> Node("none")
    [] p \in {In(<<"b", "d", "x">>), <<"o", "x">>} -> Node("file")
    [] OTHER -> Node("dir")]

KDeviate(t) == {t} \cup UNION {{[t EXCEPT ![p] = e] : e \in KOptions[p]} : p \in DOMAIN t}
KDeviations == KDeviate(KBase)
FileSystems == UNION {KDeviate(t) : t \in KDeviations}

Repo(git_dir, common, lfs) == [root |-> R, git_dir |-> git_dir, common_dir |-> common, lfs |-> lfs]
KRepos == {Repo(In(<<".git">>), In(<<".git">>), lfs) : lfs \in {{}, {<<"l", "b">>}, {In(<<"b", "store">>)}}}
            \cup {Repo(In(<<".git">>), <<"o">>, {}), Repo(<<"o">>, <<"o">>, {})}

KPaths ==
  {In(p) : p \in {<<>>, <<"a">>, <<"a", "x">>, <<"b">>, <<"b", "d", "x">>, <<"a", "d", "x">>,
                  <<"b", "store">>, <<"b", "store", "x">>, <<"a", "..", ".git">>,
                  <<"n", "..", "b">>, <<".git", "lfs">>, <<"..", "o">>}}
    \cup {<<"l", "b">>, <<"o", "x">>}
KCandidates == [path : KPaths, slash : BOOLEAN]
=============================================================================
