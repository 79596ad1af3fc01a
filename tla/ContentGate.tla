----------------------------- MODULE ContentGate -----------------------------
(***************************************************************************)
(* Gate 1, classes 1g to 1k (judged-core/src/gate1/content.rs): a walk for *)
(* .gitattributes, a read of .gitmodules, and then one verdict per         *)
(* candidate from its path, its attributes and at most one read of it.     *)
(* Of each table of names the shapes are kept, with a row of each.         *)
(***************************************************************************)
EXTENDS Gate1Tree

CONSTANTS
  EntryLimit,   \* DEFAULT_ENTRY_LIMIT
  WidthOf,      \* a long piece -> its bytes, 1 otherwise
  ClassOf       \* a piece [...] of a pattern -> the pieces it matches

(* What stands at a .gitattributes is read as lines of patterns and tokens. *)
ASSUME AttributesAssumption ==
  /\ DOMAIN ClassOf \cap {"/", "*", "**", "?"} = {}
  /\ \A p \in PathSet : p # <<>> /\ p[Len(p)] = ".gitattributes" =>
       \A thing \in GateEntries[p] :
         /\ thing.lines \in Seq(Range(thing.lines))
         /\ \A line \in Range(thing.lines) :
              /\ line.pattern \in Seq(Range(line.pattern)) /\ line.pattern # <<>>
              /\ line.tokens \in Seq(Range(line.tokens))
              /\ \A t \in Range(line.tokens) :
                   t = [sign |-> t.sign, name |-> t.name, value |-> t.value]

VARIABLE content    \* struct ContentGate, and how far its walk got

ContentClass == {"1g", "1h", "1i", "1j", "1k"}

-----------------------------------------------------------------------------
(* Matchers: the shapes the regular expressions of Linguist reduce to.     *)
path_matches(rule, path) ==
  LET base == basename(path)
  IN  CASE rule.at = "Anchored" ->
             Starts(path, rule.text) \/ Within(path, <<"/">> \o rule.text)
        [] rule.at = "Contains"         -> Within(path, rule.text)
        [] rule.at = "Prefix"           -> Starts(path, rule.text)
        [] rule.at = "PathExact"        -> path = rule.text
        [] rule.at = "BasenameSuffix"   -> Ends(base, rule.text)
        [] rule.at = "BasenameExact"    -> base = rule.text
        [] rule.at = "BasenamePrefix"   -> Starts(base, rule.text)
        [] rule.at = "BasenameSuffixCi" -> Ends(lower(base), rule.text)
        [] rule.at = "BasenameExactCi"  -> lower(base) = rule.text

At(shape, text) == [at |-> shape, text |-> text]

VENDOR_MATCHERS ==
  {At("Anchored", <<"node_modules", "/">>), At("Prefix", <<"deps", "/">>),
   At("Contains", <<"jquery", ".">>), At("PathExact", <<"rebar">>),
   At("BasenameExact", <<"configure">>), At("BasenameSuffix", <<"-vsdoc", ".", "js">>)}

GENERATED_PATH_MATCHERS ==
  {At("BasenameSuffix", <<".", "nib">>), At("Anchored", <<"Pods", "/">>),
   At("Contains", <<"Cargo", ".", "lock">>), At("BasenameExact", <<"flake", ".", "lock">>),
   At("BasenamePrefix", <<".", "pnp", ".">>),
   At("BasenameSuffixCi", <<".", "designer", ".", "cs">>),
   At("BasenameExactCi", <<"gradlew">>)}

UPLOAD_RULES == {At("Anchored", <<"media", "/">>), At("Anchored", <<"uploads", "/">>)}

SESSION_RULES ==
  {At("BasenameExact", <<".", "RData">>), At("BasenameSuffix", <<".", "bak">>),
   At("Anchored", <<".", "vs", "/">>)}

LEGAL_PATH_RULES ==
  {At("Anchored", <<"LICENSES", "/">>), At("BasenameSuffixCi", <<".", "spdx">>),
   At("BasenameExactCi", <<"bom", ".", "json">>)}

LEGAL_STEMS == {<<"license">>, <<"notice">>}   \* compared without case

judge_table(path, table) == \E rule \in table : path_matches(rule, path)

-----------------------------------------------------------------------------
(* .gitattributes.  A line is [pattern, tokens], a token [sign, name,      *)
(* value], where value is "none" without an equals sign.                   *)
ATTRIBUTE_NAMES == {"linguist-vendored", "linguist-generated", "filter=lfs"}

(* Sets or unsets, or says nothing.                                        *)
attribute_state(token, attribute) ==
  IF attribute = "filter=lfs"
    THEN IF token = [sign |-> "", name |-> "filter", value |-> "lfs"] THEN {TRUE}
         ELSE IF token \in {[sign |-> "-", name |-> "filter", value |-> "none"],
                            [sign |-> "", name |-> "filter", value |-> ""]} THEN {FALSE}
         ELSE {}
  ELSE IF token.name # attribute THEN {}
  ELSE {token.sign = "" /\ token.value \in {"none", "true"}}

parse_attributes(dir, lines) ==
  LET rule(n, token, a) == [directory |-> dir, line |-> n, pattern |-> lines[n].pattern,
                            attribute |-> a, set |-> attribute_state(token, a) = {TRUE}]
      said(n, token) == {rule(n, token, a) :
                           a \in {b \in ATTRIBUTE_NAMES : attribute_state(token, b) # {}}}
  IN  FlattenSeq([n \in DOMAIN lines |->
        FlattenSeq([t \in DOMAIN lines[n].tokens |-> SetToSeq(said(n, lines[n].tokens[t]))])])

(* * and ? do not cross a slash, ** does, and so does **/ with no slash    *)
(* at all: matches[i] are the positions in the text from which on the      *)
(* pattern matches from i on.                                              *)
glob_segment(pattern, text) ==
  LET past(i) == IF pattern[i] = "**" /\ i < Len(pattern) /\ pattern[i + 1] = "/"
                   THEN i + 2 ELSE i + 1
      matches[i \in 1 .. Len(pattern) + 1] ==
        IF i > Len(pattern) THEN {Len(text) + 1}
        ELSE LET rest == matches[past(i)]
             IN  {j \in 1 .. Len(text) + 1 :
               CASE pattern[i] = "**" -> \E k \in rest : j <= k
                 [] pattern[i] = "*" ->
                      \E k \in rest : j <= k /\ "/" \notin Range(SubSeq(text, j, k - 1))
                 [] pattern[i] = "?" -> j + 1 \in rest /\ text[j] # "/"
                 [] pattern[i] \in DOMAIN ClassOf ->
                      j + 1 \in rest /\ text[j] \in ClassOf[pattern[i]]
                 [] OTHER -> j + 1 \in rest /\ text[j] = pattern[i]}
  IN  1 \in matches[1]

(* A pattern for directories only matches no file; one with a slash is     *)
(* about the whole path below its own directory.                           *)
glob_matches(pattern, text) ==
  LET rooted == IF Head(pattern) = "/" THEN Tail(pattern) ELSE pattern
  IN  /\ Last(pattern) # "/"
      /\ glob_segment(rooted, IF "/" \in Range(pattern) THEN text ELSE basename(text))

rule_matches(rule, path) ==
  /\ path # rule.directory /\ under(path, rule.directory)
  /\ glob_matches(rule.pattern,
       IF rule.directory = <<>> THEN path
       ELSE SubSeq(path, Len(rule.directory) + 2, Len(path)))

(* Mutant: the files count in the order they were found.                   *)
as_found(rules) == rules

(* git's precedence: shallower directories first, and within one file the  *)
(* earlier lines.                                                          *)
by_precedence(rules) ==
  FlattenSeq([d \in 1 .. 1 + Max({0} \cup {Depth(rules[i].directory) : i \in DOMAIN rules}) |->
    Picked(rules, {i \in DOMAIN rules : Depth(rules[i].directory) = d - 1})])

(* Each attribute is decided by the last line that mentions it.            *)
attribute_evidence(path) ==
  \E attribute \in ATTRIBUTE_NAMES :
    LET winner == SelectLastInSeq(content.attributes,
                    LAMBDA rule : rule.attribute = attribute /\ rule_matches(rule, path))
    IN  winner # 0 /\ content.attributes[winner].set

-----------------------------------------------------------------------------
(* The candidate's own bytes, read when first asked for: its lines, that   *)
(* there is no regular file, or an error that ends the judgement.          *)
LazyContent(path) ==
  IF ~ Present(path) \/ tree[path].type # "file" THEN [state |-> "Absent", lines |-> <<>>]
  ELSE IF ~ tree[path].readable THEN [state |-> "Error", lines |-> <<>>]
  ELSE [state |-> "Read", lines |-> tree[path].lines]

(* A predicate of generated.rb: the names it is about, how many lines the  *)
(* file must exceed, and the line, from the start or the end, that must    *)
(* hold a text.                                                            *)
GENERATED_CONTENT_RULES ==
  {[suffix |-> <<".", "go">>, min_lines |-> 1, select |-> "First", nth |-> 2,
    text |-> <<"// Code generated ">>],
   [suffix |-> <<".", "c">>, min_lines |-> 1, select |-> "At", nth |-> 1,
    text |-> <<"Generated by Cython">>],
   [suffix |-> <<".", "xml">>, min_lines |-> 1, select |-> "FromEnd", nth |-> 2,
    text |-> <<"</doc>">>]}

content_rule_matches(rule, path, lines) ==
  LET chosen == CASE rule.select = "First"   -> 1 .. rule.nth
                  [] rule.select = "At"      -> {rule.nth}
                  [] rule.select = "FromEnd" -> {Len(lines) + 1 - rule.nth}
  IN  /\ Ends(lower(basename(path)), rule.suffix) /\ Len(lines) > rule.min_lines
      /\ \E n \in chosen \cap DOMAIN lines : Within(lines[n], rule.text)

Width(line) ==
  FoldLeft(LAMBDA sum, x : sum + (IF x \in DOMAIN WidthOf THEN WidthOf[x] ELSE 1), 0, line)

MINIFIED_MEAN_LINE_LENGTH == 110

(* Minified code, and code with a source map in its last two lines.        *)
minified(path, lines) ==
  /\ \E ext \in {<<".", "js">>, <<".", "css">>} :
       Ends(lower(basename(path)), ext) /\ Len(basename(path)) > Len(ext)
  /\ lines # <<>>
  /\ \/ FoldLeft(LAMBDA sum, line : sum + Width(line), 0, lines) \div Len(lines)
          > MINIFIED_MEAN_LINE_LENGTH
     \/ \E n \in {Len(lines) - 1, Len(lines)} \ {0} :
          Starts(lines[n], <<"//# sourceMappingURL">>) \/ Within(lines[n], <<"sourceURL=">>)

generated_by_content(path, lines) ==
  \/ \E rule \in GENERATED_CONTENT_RULES : content_rule_matches(rule, path, lines)
  \/ minified(path, lines)

-----------------------------------------------------------------------------
(* Migrations.  A basename may name a position in a sequence.              *)
Digits == <<"0", "1", "2", "3", "4", "5", "6", "7", "8", "9">>
DigitOf(piece) == SelectInSeq(Digits, LAMBDA d : d = piece) - 1

(* What a number is ordered by: how many digits it has after its leading   *)
(* zeros, then the digits; no number is too long for it.                   *)
NumberKey(digits) ==
  LET first == SelectInSeq(Append(digits, "end"), LAMBDA d : d # "0")
      kept  == SubSeq(digits, first, Len(digits))
  IN  <<Len(kept)>> \o [i \in DOMAIN kept |-> DigitOf(kept[i])]

LeadingDigits(text) ==
  SubSeq(text, 1, SelectInSeq(Append(text, "end"), LAMBDA x : x \notin Range(Digits)) - 1)

sequence_ordinal(base) ==
  LET doubled == SelectInSeq(base, LAMBDA x : x = "__")
      version == SubSeq(base, 2, doubled - 1)
      number  == LeadingDigits(base)
      after   == SubSeq(base, Len(number) + 1, Len(number) + 1)
  IN  IF /\ base # <<>> /\ Head(base) \in {"V", "U"} /\ doubled > 2
         /\ Range(version) \subseteq Range(Digits) \cup {".", "_"}
         /\ Range(version) \cap Range(Digits) # {}
        THEN {[scheme |-> "FlywayVersion", version |->
               LET parts == Split(ReplaceAll(version, "_", "."), ".")
               IN  FlattenSeq([i \in DOMAIN parts |-> NumberKey(parts[i])])]}
      ELSE IF number = <<>> \/ after \notin {<<"_">>, <<"-">>, <<".">>} THEN {}
      ELSE IF Len(number) >= 10 THEN {[scheme |-> "Timestamp", version |-> NumberKey(number)]}
      ELSE IF Len(number) >= 3 /\ Head(base) = "0"
        THEN {[scheme |-> "ZeroPaddedOrdinal", version |-> NumberKey(number)]}
      ELSE {}

(* Component by component; a version that another continues comes first.   *)
Later(a, b) ==
  \/ IsStrictPrefix(b, a)
  \/ \E i \in DOMAIN a \cap DOMAIN b :
       a[i] > b[i] /\ SubSeq(a, 1, i - 1) = SubSeq(b, 1, i - 1)

(* Is a later file of the same scheme beside this one?                     *)
rank_in_sequence(path, ordinal) ==
  LET beside == {p \in Range(Listed(directory(path))) : p # path}
  IN  IF ~ IsDir(directory(path)) THEN "Unknown"
      ELSE IF \E p \in beside, o \in UNION {sequence_ordinal(basename(q)) : q \in beside} :
                /\ o \in sequence_ordinal(basename(p))
                /\ o.scheme = ordinal.scheme /\ Later(o.version, ordinal.version)
        THEN "Earlier"
      ELSE "Newest"

MIGRATION_DIRECTORIES == {<<"migrations">>, <<"migrate">>}

judge_migration(path) ==
  \/ sequence_ordinal(basename(path)) # {}
  \/ \E i \in 1 .. Depth(path) - 1 : lower(names(path)[i]) \in MIGRATION_DIRECTORIES

-----------------------------------------------------------------------------
(* Legal documents, by name or by an SPDX header with something after it.  *)
SPDX_HEADER_LINES == 16

legal_basename(base) ==
  \E stem \in LEGAL_STEMS :
    /\ Starts(lower(base), stem)
    /\ Len(base) > Len(stem) => base[Len(stem) + 1] \in {".", "-", "_"}

spdx(lines) ==
  \E n \in DOMAIN lines :
    /\ n <= SPDX_HEADER_LINES
    /\ \E i \in DOMAIN lines[n] :
         lines[n][i] = "SPDX-License-Identifier:" /\ i < Len(lines[n])

judge_provenance(path, file) ==
  IF \/ content.incomplete \/ attribute_evidence(path)
     \/ \E declared \in content.submodules : under(path, declared)
     \/ judge_table(path, VENDOR_MATCHERS) \/ judge_table(path, GENERATED_PATH_MATCHERS)
    THEN "1j"
  ELSE IF file.state = "Error" THEN "Error"
  ELSE IF file.state = "Read" /\ generated_by_content(path, file.lines) THEN "1j"
  ELSE "Abstain"

(* The class that refuses the candidate.  A path that is spelled with ..   *)
(* is taken for one of another tree.                                       *)
content_judge(path, spelling) ==
  LET file       == LazyContent(path)
      provenance == judge_provenance(path, file)
  IN  IF spelling = "dotted" THEN "Abstain"
      ELSE IF provenance # "Abstain" THEN provenance
      ELSE IF judge_migration(path) THEN "1k"
      ELSE IF \/ legal_basename(basename(path)) \/ judge_table(path, LEGAL_PATH_RULES)
              \/ file.state = "Read" /\ spdx(file.lines) THEN "1i"
      ELSE IF judge_table(path, SESSION_RULES) THEN "1h"
      ELSE IF judge_table(path, UPLOAD_RULES) THEN "1g"
      ELSE "Abstain"

-----------------------------------------------------------------------------
(* The walk, one directory at a time; the reads of what it found; and      *)
(* .gitmodules.  Nothing but the root has to be listed.                    *)
NewContent == [pc |-> "walk", pending |-> {<<>>}, visited |-> 0, files |-> {},
               attributes |-> <<>>, submodules |-> {}, incomplete |-> FALSE]

GitAttributes(dir) == Join(dir, <<".gitattributes">>)
GitModules == <<".gitmodules">>

descend(dir) ==
  /\ content.pc = "walk" /\ dir \in content.pending /\ ~ content.incomplete
  /\ IsDir(dir)
  /\ LET found == Range(Listed(dir))
         inside == {p \in found : tree[p].type = "dir" /\ ~ stops_the_walk(classify(tree[p].marks))}
         visited == content.visited + Cardinality(found)
     IN  content' = IF visited > EntryLimit
           THEN [content EXCEPT !.incomplete = TRUE, !.visited = EntryLimit + 1]
           ELSE [content EXCEPT
             !.pending = (@ \ {dir}) \cup inside, !.visited = visited,
             !.files   = @ \cup {d \in {dir} : GitAttributes(d) \in found
                                              /\ tree[GitAttributes(d)].type # "dir"}]
  /\ UNCHANGED treeVars

(* A directory below the root cannot be listed, or an entry not be read.   *)
descend_fails(dir) ==
  /\ content.pc = "walk" /\ dir \in content.pending \ {<<>>} /\ ~ content.incomplete
  /\ content' = [content EXCEPT !.incomplete = TRUE]
  /\ UNCHANGED treeVars

read_attributes(dir) ==
  /\ content.pc = "walk" /\ (content.pending = {} \/ content.incomplete)
  /\ dir \in content.files
  /\ LET file == GitAttributes(dir)
     IN  content' = IF Reads(file)
           THEN [content EXCEPT !.files = @ \ {dir},
                                !.attributes = @ \o parse_attributes(dir, tree[file].lines)]
           ELSE [content EXCEPT !.files = @ \ {dir}, !.incomplete = TRUE]
  /\ UNCHANGED treeVars

(* .gitmodules: its lines are [key, path].  One that is not there declares *)
(* nothing, one that cannot be read ends the build.                        *)
read_submodules ==
  /\ content.pc = "walk" /\ (content.pending = {} \/ content.incomplete) /\ content.files = {}
  /\ content' =
       IF ~ Missing(GitModules) /\ ~ Reads(GitModules)
         THEN [content EXCEPT !.pc = "error"]
         ELSE [content EXCEPT !.pc = "built", !.attributes = by_precedence(@),
                 !.submodules = IF Missing(GitModules) THEN {}
                   ELSE {l.path : l \in {k \in Range(tree[GitModules].lines) :
                                           k.key = "path" /\ k.path # <<>>}}]
  /\ UNCHANGED treeVars

build ==
  \/ \E dir \in content.pending : descend(dir) \/ descend_fails(dir)
  \/ \E dir \in content.files : read_attributes(dir)
  \/ read_submodules

-----------------------------------------------------------------------------
(* What git means: a pattern is matched name by name, ** is any number of  *)
(* names where it is one by itself (one at least at the end) and * where   *)
(* it is not.                                                              *)
NameMatches(pattern, name) ==
  \E cut \in [0 .. Len(pattern) -> 0 .. Len(name)] :
    /\ cut[0] = 0 /\ cut[Len(pattern)] = Len(name)
    /\ \A i \in DOMAIN pattern :
         IF pattern[i] \in {"*", "**"} THEN cut[i] >= cut[i - 1]
         ELSE /\ cut[i] = cut[i - 1] + 1
              /\ \/ pattern[i] = "?"
                 \/ name[cut[i]] \in IF pattern[i] \in DOMAIN ClassOf THEN ClassOf[pattern[i]]
                                                                    ELSE {pattern[i]}

GitMatches(pattern, text) ==
  LET parts == names(IF Head(pattern) = "/" THEN Tail(pattern) ELSE pattern)
      whole == IF "/" \in Range(pattern) THEN names(text) ELSE <<basename(text)>>
      any   == <<"**">>
  IN  /\ Last(pattern) # "/"
      /\ \E cut \in [0 .. Len(parts) -> 0 .. Len(whole)] :
           /\ cut[0] = 0 /\ cut[Len(parts)] = Len(whole)
           /\ \A i \in DOMAIN parts :
                IF parts[i] = any /\ Len(parts) > 1
                  THEN cut[i] >= cut[i - 1] + (IF i = Len(parts) THEN 1 ELSE 0)
                  ELSE cut[i] = cut[i - 1] + 1 /\ NameMatches(parts[i], whole[cut[i]])

(* A pattern that the code lets match more than git does.                  *)
Lenient(pattern) ==
  Range(pattern) \cap ({"**"} \cup {c \in DOMAIN ClassOf : "/" \in ClassOf[c]}) # {}

(* A token that sets what it names.                                        *)
Sets(token) ==
  token.sign = "" /\ token.value \in IF token.name = "filter" THEN {"lfs"} ELSE {"none", "true"}

(* What the lines of the .gitattributes files above a path say of an       *)
(* attribute, and whether it is set: deeper files count after shallower    *)
(* ones, and the last mention decides.                                     *)
GitSays(attribute, path) ==
  LET files    == {d \in {<<>>} \cup Parents(path) : Reads(GitAttributes(d))}
      lines(d) == tree[GitAttributes(d)].lines
      below(d) == IF d = <<>> THEN path ELSE SubSeq(path, Len(d) + 2, Len(path))
      name     == IF attribute = "filter=lfs" THEN "filter" ELSE attribute
      mention(d, n, t) ==
        LET token == lines(d)[n].tokens[t]
        IN  [at |-> <<Depth(d), n, t>>, set |-> Sets(token)]
  IN  UNION {UNION {{mention(d, n, t) :
          t \in {i \in DOMAIN lines(d)[n].tokens : lines(d)[n].tokens[i].name = name}} :
        n \in {i \in DOMAIN lines(d) : GitMatches(lines(d)[i].pattern, below(d))}} :
      d \in files}

GitSets(attribute, path) ==
  \E m \in GitSays(attribute, path) :
    m.set /\ \A o \in GitSays(attribute, path) \ {m} : Later(m.at, o.at)
=============================================================================
