------------------------------- MODULE RepoPath -------------------------------
(***************************************************************************)
(* Texts and paths, as the never-touch inventory reads them.  A text is    *)
(* the sequence of its pieces: a word, a digit or a sign of punctuation is *)
(* one piece.  A path is a text in which "/" is a piece of its own, and    *)
(* the root of the repository is the empty text.                           *)
(***************************************************************************)
EXTENDS Integers, SequencesExt

CONSTANT LowerOf   \* a piece with a capital -> the piece in lower case

Starts(text, s) == IsPrefix(s, text)
Ends(text, s) == IsSuffix(s, text)
Within(text, s) ==
  \E i \in 0 .. Len(text) - Len(s) : SubSeq(text, i + 1, i + Len(s)) = s

lower(text) ==
  [i \in DOMAIN text |-> IF text[i] \in DOMAIN LowerOf THEN LowerOf[text[i]] ELSE text[i]]

LastOf(text, piece) == Max({0} \cup {i \in DOMAIN text : text[i] = piece})

Longer(parts, x, piece) ==
  IF x = piece THEN Append(parts, <<>>) ELSE [parts EXCEPT ![Len(parts)] = Append(@, x)]
Split(text, piece) ==
  LET parts[n \in 0 .. Len(text)] ==
        IF n = 0 THEN <<<<>>>> ELSE Longer(parts[n - 1], text[n], piece)
  IN  parts[Len(text)]

basename(path) == SubSeq(path, LastOf(path, "/") + 1, Len(path))
directory(path) == SubSeq(path, 1, LastOf(path, "/") - 1)
names(path) == IF path = <<>> THEN <<>> ELSE Split(path, "/")
Depth(path) == Len(names(path))
Join(dir, rest) == IF dir = <<>> THEN rest ELSE dir \o <<"/">> \o rest

(* The path is prefix itself, or inside it.                                *)
under(path, prefix) == prefix = <<>> \/ path = prefix \/ Starts(path, prefix \o <<"/">>)

(* The directories above a path, the root apart.                           *)
Parents(path) == {SubSeq(path, 1, i - 1) : i \in {k \in DOMAIN path : path[k] = "/"}}

(* The extension in lower case, as a set of at most one text: what follows *)
(* the last dot of the basename, unless nothing comes before that dot.     *)
extension(path) ==
  LET name == basename(path)
      dot  == LastOf(name, ".")
  IN  IF dot <= 1 THEN {} ELSE {lower(SubSeq(name, dot + 1, Len(name)))}
=============================================================================
