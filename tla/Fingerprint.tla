------------------------------ MODULE Fingerprint ------------------------------
(***************************************************************************)
(* Identity of a finding (judged-core/src/fingerprint.rs): a tool reports  *)
(* the same finding in one checkout after another, while the file is       *)
(* reformatted and edited, and the ratchet knows it again by its           *)
(* fingerprint.  A message is a sequence of tokens, a token a sequence of  *)
(* pieces.  The digest stands for the fields it absorbs, with their        *)
(* lengths.                                                                *)
(***************************************************************************)
EXTENDS Integers, SequencesExt

CONSTANTS
  Findings,      \* [rule, uri, symbol, items]: symbol is a set of at most one
  KindOf,        \* piece -> "integer", "decimal", "absolute", "duration" or "punctuation"
  Worlds         \* [root, line, took, ran, blob]: where and when a tool may run,
                 \* as its messages spell it, and the bytes it runs on

VARIABLES
  world,       \* where the tool runs, and on which bytes
  reported     \* finding -> the blob and the fingerprint it was first reported with

idVars == <<world, reported>>

Kind(piece) == IF piece \in DOMAIN KindOf THEN KindOf[piece] ELSE "word"
Edge(piece) == Kind(piece) = "punctuation"

POSITION_KEYWORDS   == {"line", "column"}
DURATION_UNIT_WORDS == {"ms", "seconds"}

-----------------------------------------------------------------------------
split_edge_punctuation(token) ==
  LET first == SelectInSeq(token, LAMBDA p : ~ Edge(p))
      last  == SelectLastInSeq(token, LAMBDA p : ~ Edge(p))
  IN  IF first = 0 THEN [leading |-> token, core |-> <<>>, trailing |-> <<>>]
      ELSE [leading  |-> SubSeq(token, 1, first - 1),
            core     |-> SubSeq(token, first, last),
            trailing |-> SubSeq(token, last + 1, Len(token))]

(* :12, unless a number is all there is before it.                         *)
strip_one_position(core) ==
  LET n == Len(core)
  IN  IF /\ n >= 3 /\ core[n - 1] = ":" /\ Kind(core[n]) = "integer"
         /\ ~ (n = 3 /\ Kind(core[1]) = "integer")
        THEN SubSeq(core, 1, n - 2) ELSE core

strip_position_suffix(core) == strip_one_position(strip_one_position(core))

is_one(core, kinds) == Len(core) = 1 /\ Kind(core[1]) \in kinds

normalize_core(core, previous) ==
  LET bare == strip_position_suffix(core)
  IN  IF bare # <<>> /\ Kind(bare[1]) = "absolute" THEN <<"<path>">>
      ELSE IF is_one(bare, {"duration"}) THEN <<"<dur>">>
      ELSE IF is_one(bare, {"integer"}) /\ previous \in {<<k>> : k \in POSITION_KEYWORDS}
        THEN <<"<n>">>
      ELSE bare

(* A number and then a unit, with no punctuation between them.             *)
Folded(tokens, token) ==
  IF /\ tokens # <<>> /\ token.leading = <<>>
     /\ token.core \in {<<u>> : u \in DURATION_UNIT_WORDS}
     /\ Last(tokens).trailing = <<>> /\ is_one(Last(tokens).core, {"integer", "decimal"})
    THEN Append(Front(tokens), [Last(tokens) EXCEPT !.core = <<"<dur>">>, !.trailing = token.trailing])
    ELSE Append(tokens, token)

Rendering(tokens) ==
  [i \in DOMAIN tokens |-> tokens[i].leading \o tokens[i].core \o tokens[i].trailing]

(* Both passes, one token further: the first looks back at what it made of *)
(* the token before, the second at the last token it has.                  *)
OneToken(before, raw) ==
  LET token == split_edge_punctuation(raw)
      core == normalize_core(token.core, before.core)
  IN  [core |-> core, tokens |-> Folded(before.tokens, [token EXCEPT !.core = core])]

normalize_message(message) ==
  LET after[n \in 0 .. Len(message)] ==
        IF n = 0 THEN [core |-> <<>>, tokens |-> <<>>] ELSE OneToken(after[n - 1], message[n])
  IN  Rendering(after[Len(message)].tokens)

-----------------------------------------------------------------------------
(* Mutant: every finding is anchored at the bytes of its file.             *)
any_blob(input) == {input.blob}

(* The bytes count only for a finding that has no symbol.                  *)
anchoring_blob_sha(input) == IF input.symbol # {} THEN {} ELSE {input.blob}

fingerprint(input) ==
  <<"judged/v1", input.rule, input.uri, input.symbol, anchoring_blob_sha(input),
    normalize_message(input.message)>>

-----------------------------------------------------------------------------
(* What a tool makes of an item of its message, here and now.              *)
Rendered(item, w) ==
  CASE item.kind = "word"     -> <<<<item.text>>>>
    [] item.kind = "file"     -> <<<<w.root, "/", item.text, ":", w.line, ":", w.took, ":">>>>
    [] item.kind = "relative" -> <<<<"(", item.text, ":", w.line, ")">>>>
    [] item.kind = "position" -> <<<<"line">>, <<w.line, ",">>, <<"column">>, <<w.line>>>>
    [] item.kind = "lasted"   -> <<<<w.took>>, <<"ms", ".">>>>
    [] item.kind = "took"     -> <<<<w.ran>>>>

Input(finding, w) ==
  [rule |-> finding.rule, uri |-> finding.uri, symbol |-> finding.symbol, blob |-> w.blob,
   message |-> FlattenSeq([i \in DOMAIN finding.items |-> Rendered(finding.items[i], w)])]

-----------------------------------------------------------------------------
(* What a message says whatever the world: the reference the normal form   *)
(* is held against.                                                        *)
Form(item) ==
  CASE item.kind = "word"     -> <<<<item.text>>>>
    [] item.kind = "file"     -> <<<<"<path>", ":">>>>
    [] item.kind = "relative" -> <<<<"(", item.text, ")">>>>
    [] item.kind = "position" -> <<<<"line">>, <<"<n>", ",">>, <<"column">>, <<"<n>">>>>
    [] item.kind = "lasted"   -> <<<<"<dur>", ".">>>>
    [] item.kind = "took"     -> <<<<"<dur>">>>>

FormOf(finding) == FlattenSeq([i \in DOMAIN finding.items |-> Form(finding.items[i])])

(* No word of a finding looks like a position or a duration.               *)
Numeral(item) == item.kind = "word" /\ Kind(item.text) \in {"integer", "decimal"}
Follows(item, before) ==
  /\ before.kind \in {"word", "relative"} /\ before.text \in POSITION_KEYWORDS =>
       item.kind # "lasted" /\ ~ (Numeral(item) /\ Kind(item.text) = "integer")
  /\ Numeral(before) => ~ (item.kind = "word" /\ item.text \in DURATION_UNIT_WORDS)

Worded(items) ==
  /\ items \in Seq(Range(items))
  /\ \A i \in DOMAIN items :
       /\ items[i].kind \in {"word", "file", "relative", "position", "lasted", "took"}
       /\ items[i].kind = "word" => Kind(items[i].text) \in {"word", "integer", "decimal"}
       /\ items[i].kind = "relative" => Kind(items[i].text) = "word"
       /\ i > 1 => Follows(items[i], items[i - 1])

(* How tools spell things; and two findings that agree in everything but   *)
(* where, when and on which bytes they are reported are the same one.      *)
ASSUME IdAssumption ==
  /\ \A p \in {",", ".", ":", "(", ")"} : Kind(p) = "punctuation"
  /\ \A p \in {"/", "<path>", "<n>", "<dur>"} \cup POSITION_KEYWORDS \cup DURATION_UNIT_WORDS : Kind(p) = "word"
  /\ \A w \in Worlds : /\ Kind(w.root) = "absolute" /\ Kind(w.line) = "integer"
                        /\ Kind(w.took) \in {"integer", "decimal"} /\ Kind(w.ran) = "duration"
  /\ \A f \in Findings : Worded(f.items)
  /\ \A f, g \in Findings :
       f.rule = g.rule /\ f.uri = g.uri /\ f.symbol = g.symbol /\ FormOf(f) = FormOf(g) => f = g

-----------------------------------------------------------------------------
IdInit == world \in Worlds /\ reported = <<>>

report ==
  /\ \E finding \in Findings \ DOMAIN reported :
       reported' = [f \in DOMAIN reported \cup {finding} |->
         IF f = finding THEN [blob |-> world.blob, fingerprint |-> fingerprint(Input(f, world))]
         ELSE reported[f]]
  /\ UNCHANGED world

(* Another checkout or another run, a formatter, or an edit.               *)
elsewhere == world' \in Worlds \ {world} /\ UNCHANGED reported

IdNext == report \/ elsewhere

IdSpec == IdInit /\ [][IdNext]_idVars

-----------------------------------------------------------------------------
(* A finding is known again wherever and whenever it is reported: one of a *)
(* symbol always, one of a file until the file's bytes change; and no      *)
(* other finding is taken for it (fingerprint.rs "never line-based, or     *)
(* every reformat resets the stability clock", "two merged accusations in  *)
(* the ratchet ledger means one of them is permanently baselined by the    *)
(* other's approval").                                                     *)
IdentityOutlivesTheRun ==
  \A f \in DOMAIN reported : \A g \in Findings :
    LET again == fingerprint(Input(g, world))
    IN  again = reported[f].fingerprint
          <=> g = f /\ (f.symbol = {} => world.blob = reported[f].blob)
=============================================================================
