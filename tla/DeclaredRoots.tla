---------------------------- MODULE DeclaredRoots ----------------------------
(***************************************************************************)
(* Tier C (judged-core/src/roots/declared.rs): .judged/roots.toml, the     *)
(* roots that people wrote down.  A line of the file is [key, value]: key  *)
(* "" is a comment or blank, "[[root]]" begins an entry, another key with  *)
(* "[" is another table; value is a text, or {} if it is not a basic       *)
(* string.                                                                 *)
(***************************************************************************)
EXTENDS RepoPath

CONSTANT ClassOf   \* a character class, like "[ab]" -> the pieces it admits

Fields    == {"path", "reason", "kind", "status", "expires"}
Mandatory == Fields \ {"expires"}
SuppressionKind   == {"inSource", "external"}
SuppressionStatus == {"accepted", "underReview", "rejected"}

-----------------------------------------------------------------------------
(* Parsing.  bad is the first refusal; it ends the reading of the file.    *)
NewDraft(n) == [line |-> n, fields |-> [f \in Fields |-> {}]]

NoEscape(pathspec) ==
  LET body == IF Starts(pathspec, <<"!">>) THEN Tail(pathspec) ELSE pathspec
  IN  body # <<>> /\ <<"..">> \notin Range(names(body)) /\ Range(body) \cap {"\\", "["} = {}

Settable(draft, line) ==
  /\ line.key \in Fields /\ line.value # {} /\ draft.fields[line.key] = {}
  /\ line.key = "kind" => line.value \subseteq {<<k>> : k \in SuppressionKind}
  /\ line.key = "status" => line.value \subseteq {<<s>> : s \in SuppressionStatus}

Complete(draft) ==
  /\ \A f \in Mandatory : draft.fields[f] # {}
  /\ \A pathspec \in draft.fields["path"] : NoEscape(pathspec)

(* The draft that is open, as a set, becomes an entry.                     *)
finish(acc) ==
  [bad |-> acc.bad \/ \E d \in acc.draft : ~ Complete(d), draft |-> {},
   entries |-> acc.entries \o SetToSeq(acc.draft)]

read_declaration(acc, line, n) ==
  CASE line.key = "" -> acc
    [] line.key = "[[root]]" -> [finish(acc) EXCEPT !.draft = {NewDraft(n)}]
    [] OTHER ->
         IF \A d \in acc.draft : ~ Settable(d, line) THEN [acc EXCEPT !.bad = TRUE]
         ELSE [acc EXCEPT !.draft = {[d EXCEPT !.fields[line.key] = line.value] : d \in @}]

(* The entries of a file in their order, or nothing if it is malformed.    *)
parse_declared(lines) ==
  LET acc == finish(FoldLeftDomain(LAMBDA a, n : read_declaration(a, lines[n], n),
                                   [bad |-> FALSE, draft |-> {}, entries |-> <<>>], lines))
  IN  IF acc.bad THEN {} ELSE {acc.entries}

Field(entry, f) == CHOOSE v \in entry.fields[f] : TRUE
Pathspec(entry) == Field(entry, "path")

-----------------------------------------------------------------------------
(* Pathspecs.  "**" is any number of names, and at the end at least one.   *)
negated(pathspec) == Head(pathspec) = "!"
Body(pathspec) ==
  LET body == IF negated(pathspec) THEN Tail(pathspec) ELSE pathspec
  IN  SubSeq(body, 1, SelectLastInSeq(body, LAMBDA x : x # "/"))
Named(path) == SelectSeq(names(path), LAMBDA name : name # <<>>)

(* With a slash it is anchored at the root, without one it floats.         *)
segments(pathspec) ==
  IF "/" \in Range(Body(pathspec)) THEN Named(Body(pathspec))
  ELSE <<<<"**">>>> \o Named(Body(pathspec))

literal_path(pathspec) ==
  IF negated(pathspec) \/ Range(Body(pathspec)) \cap ({"*", "**", "?"} \cup DOMAIN ClassOf) # {} THEN {}
  ELSE {IF Starts(Body(pathspec), <<"/">>) THEN Tail(Body(pathspec)) ELSE Body(pathspec)} \ {<<>>}

class_matches(piece, x) == piece = "?" \/ piece = x \/ (piece \in DOMAIN ClassOf /\ x \in ClassOf[piece])

(* How far into a text of some size the pieces of a pattern may reach, one *)
(* by one: each admits certain positions, or any number of them; at the    *)
(* end that number is at least rest.                                       *)
Anywhere == {0}

Reach(admitted, size, rest) ==
  FoldLeftDomain(LAMBDA at, i :
      IF admitted[i] = Anywhere
        THEN {j \in 0 .. size :
                \E k \in at : k + (IF i = Len(admitted) THEN rest ELSE 0) <= j}
      ELSE {j \in admitted[i] : j - 1 \in at},
    {0}, admitted)

component_matches(pattern, name) ==
  Len(name) \in Reach([i \in DOMAIN pattern |->
                        IF pattern[i] = "*" THEN Anywhere
                        ELSE {j \in DOMAIN name : class_matches(pattern[i], name[j])}],
                     Len(name), 0)

(* A pathspec matches a path if it matches it or a directory above it.     *)
matches(pathspec, path) ==
  LET wanted == segments(pathspec)
      there  == Named(path)
  IN  Reach([i \in DOMAIN wanted |->
               IF wanted[i] = <<"**">> THEN Anywhere
               ELSE {j \in DOMAIN there : component_matches(wanted[i], there[j])}],
            Len(there), 1) \ {0} # {}

-----------------------------------------------------------------------------
(* The entry that decides a path is the last that matches it, or 0.        *)
deciding(entries, path) == SelectLastInSeq(entries, LAMBDA e : matches(Pathspec(e), path))

(* What the entries protect of the candidates.                             *)
Seeds(entries, candidates) ==
  {path \in candidates :
     LET i == deciding(entries, path)
     IN  i # 0 /\ ~ negated(Pathspec(entries[i])) /\ Field(entries[i], "status") # <<"rejected">>}

(* Why an entry has to go, one reason for each: what it names is not       *)
(* there, its time is over, or it decided nothing.                         *)
lint(entries, candidates, there, expired) ==
  LET decided == {deciding(entries, path) : path \in candidates}
      gone(e) == \E path \in literal_path(Pathspec(e)) : path \notin there
      over(e) == \E date \in e.fields["expires"] : date \in expired
      rot(i)  == IF gone(entries[i]) THEN "ReferentGone"
                 ELSE IF over(entries[i]) THEN "Expired"
                 ELSE IF i \notin decided THEN "MatchedNothing" ELSE "none"
  IN  {[entry |-> i, reason |-> rot(i)] : i \in {k \in DOMAIN entries : rot(k) # "none"}}
=============================================================================
