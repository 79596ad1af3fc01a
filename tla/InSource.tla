------------------------------- MODULE InSource ------------------------------
(***************************************************************************)
(* Markers in the source (judged-core/src/roots/insource.rs): what a       *)
(* directive or an attribute hands to the linker or to an interpreter is a *)
(* root.  A line is a text in which blanks, quotes and signs are pieces.   *)
(***************************************************************************)
EXTENDS RepoPath, Boundary

CONSTANTS EndsInR,     \* the words that end in the letter r
          Punctuation  \* the pieces that are not part of an identifier

Quote   == "''"            \* a double quote
Backtick == "bq"
Escapes == {"/''", "/n"}   \* the same after a backslash, and a newline spelled out
Words(line) == SelectSeq(Split(line, " "), LAMBDA w : w # <<>>)
Trimmed(line) ==
  SubSeq(line, SelectInSeq(line \o <<"">>, LAMBDA x : x # " "), SelectLastInSeq(line, LAMBDA x : x # " "))

(* Where s first begins in a text after its first from pieces, or 0.       *)
FirstOf(line, s, from) ==
  SelectInSeq([i \in DOMAIN line |-> i], LAMBDA i :
    i > from /\ i + Len(s) <= Len(line) + 1 /\ SubSeq(line, i, i + Len(s) - 1) = s)

-----------------------------------------------------------------------------
(* What closes the raw string that a line leaves open, as a set.           *)
raw_opener(line, language) ==
  LET opens(x) == SelectInSeq([i \in DOMAIN line |-> i], LAMBDA i :
        line[i] \in EndsInR /\ i < Len(line) /\ line[i + 1] = x)
      at     == IF opens(Quote) # 0 THEN opens(Quote) ELSE opens("#")
      rest   == SubSeq(line, at + 1, Len(line))
      hashes == SelectInSeq(rest \o <<"">>, LAMBDA x : x # "#") - 1
      close  == <<Quote>> \o [i \in 1 .. hashes |-> "#"]
  IN  IF language = "go"
        THEN IF Len(SelectSeq(line, LAMBDA p : p = Backtick)) % 2 = 1 THEN {<<Backtick>>} ELSE {}
      ELSE IF \/ at = 0 \/ FirstOf(rest, <<Quote>>, 0) # hashes + 1
              \/ Within(SubSeq(rest, hashes + 2, Len(rest)), close)
        THEN {}
      ELSE {close}

(* Mutant: the line that opens a raw string is the only one that is text.  *)
blank_escaped(acc, line, language) ==
  [acc EXCEPT !.lines = Append(@, IF Range(line) \cap Escapes # {} THEN <<>> ELSE line)]

(* The lines inside a raw string, and those with an escape, become blank.  *)
blank_one(acc, line, language) ==
  IF acc.close # {}
    THEN [lines |-> Append(acc.lines, <<>>),
          close |-> {close \in acc.close : ~ Within(line, close)}]
  ELSE IF Range(line) \cap Escapes # {} THEN [acc EXCEPT !.lines = Append(@, <<>>)]
  ELSE [lines |-> Append(acc.lines, line), close |-> raw_opener(line, language)]

blank_string_literals(lines, language) ==
  FoldLeft(LAMBDA acc, line : blank_one(acc, line, language), [lines |-> <<>>, close |-> {}],
           lines).lines

-----------------------------------------------------------------------------
(* What the markers of a file name, as texts.                              *)
trailing_identifier(name) == Last(Split(Last(Split(name, "/")), "."))

scan_go(lines) ==
  UNION {LET line == Trimmed(lines[n])
             rest == Words(Tail(line))
         IN  IF Starts(line, <<"//go:linkname">>)
               THEN {trailing_identifier(rest[k]) : k \in DOMAIN rest \cap {1, 2}}
             ELSE IF Starts(line, <<"//export", " ">>) THEN {rest[k] : k \in DOMAIN rest \cap {1}}
             ELSE {} : n \in {k \in DOMAIN lines : Trimmed(lines[k]) # <<>>}}

quoted(line) ==
  LET start == FirstOf(line, <<Quote>>, 0)
      end   == FirstOf(line, <<Quote>>, start)
  IN  IF start = 0 \/ end = 0 THEN {} ELSE {SubSeq(line, start + 1, end - 1)}

(* The item that an attribute is of: below it, past other attributes and   *)
(* comments, before a blank line.                                          *)
item_after(lines, n) ==
  LET passes(line) == line # <<>> /\ (Starts(line, <<"#", "[">>) \/ Starts(line, <<"//">>))
      item  == Trimmed((lines \o <<<<>>>>)[SelectInSeq([k \in 1 .. Len(lines) + 1 |-> k],
                 LAMBDA k : k > n /\ (k > Len(lines) \/ ~ passes(Trimmed(lines[k]))))])
      ats   == [i \in 1 .. 3 |-> FirstOf(item, <<<<"fn", "static", "const">>[i], " ">>, 0)]
      named == SelectInSeq(ats, LAMBDA at :
                 at # 0 /\ at + 2 <= Len(item) /\ item[at + 2] \notin Punctuation)
  IN  IF named = 0 THEN {} ELSE {<<item[ats[named] + 2]>>}

RustMarkers == {"no_mangle", "used", "ctor", "export_name"}
scan_rust(lines) ==
  UNION {LET line == Trimmed(lines[n])
         IN  (IF line[3] = "export_name" THEN quoted(line) ELSE {}) \cup item_after(lines, n) :
           n \in {k \in DOMAIN lines : LET line == Trimmed(lines[k])
                    IN  Starts(line, <<"#", "[">>) /\ Len(line) > 2 /\ line[3] \in RustMarkers}}

scan_pth(lines) ==
  UNION {LET rest == Words(Tail(Trimmed(lines[n])))
         IN  {Head(Split(rest[k], ";")) : k \in DOMAIN rest \cap {1}} :
           n \in {k \in DOMAIN lines : Starts(Trimmed(lines[k]), <<"import", " ">>)}}

-----------------------------------------------------------------------------
(* sources is path -> [readable, lines], dirs is directory -> [marks,      *)
(* listed].  A directory that another repository answers for is passed by; *)
(* one that cannot be listed ends the scan.                                *)
Answered(path, dirs) == \A d \in Parents(path) : ~ stops_the_walk(classify(dirs[d].marks))
walk_fails(dirs) ==
  \E d \in DOMAIN dirs : Answered(d, dirs) /\ ~ stops_the_walk(classify(dirs[d].marks)) /\ ~ dirs[d].listed

IsEntry(path) == extension(path) = {<<"pth">>} \/ basename(path) \in
  {<<"sitecustomize", ".", "py">>, <<"usercustomize", ".", "py">>}

(* The roots of a file: its path if it is itself run, and its symbols.     *)
scan_file(path, lines) ==
  LET named == CASE extension(path) = {<<"go">>}  -> scan_go(blank_string_literals(lines, "go"))
                 [] extension(path) = {<<"rs">>}  -> scan_rust(blank_string_literals(lines, "rust"))
                 [] extension(path) = {<<"pth">>} -> scan_pth(lines)
                 [] OTHER -> {}
  IN  {[path |-> {}, symbol |-> {name}] : name \in named}
        \cup {[path |-> {p}, symbol |-> {}] : p \in {x \in {path} : IsEntry(x)}}

scan_insource(sources, dirs) ==
  UNION {scan_file(p, sources[p].lines) :
           p \in {x \in DOMAIN sources : Answered(x, dirs) /\ sources[x].readable}}
=============================================================================
