----------------------------- MODULE Subsequences -----------------------------
(***************************************************************************)
(* The filter of an iterator: the elements of a sequence at the positions  *)
(* that pass.  The recursion is a function, so that it can be proved about *)
(* (RecursionFacts).                                                       *)
(***************************************************************************)
EXTENDS Integers, Sequences

Picked(s, positions) ==
  LET kept[n \in 0 .. Len(s)] ==
        IF n = 0 THEN <<>>
        ELSE IF n \in positions THEN Append(kept[n - 1], s[n])
        ELSE kept[n - 1]
  IN  kept[Len(s)]
=============================================================================
