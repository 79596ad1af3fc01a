----------------------------- MODULE YamlValues ------------------------------
(***************************************************************************)
(* How gate 2b reads YAML (judged-core/src/veto/reachability.rs,           *)
(* yaml_values): the events of a parser drive a stack of open collections, *)
(* and each scalar is collected under the kind of key it stands for.  The  *)
(* parser is saphyr-parser: it emits well-formed streams or an error.      *)
(***************************************************************************)
EXTENDS Integers, SequencesExt

CONSTANTS MaxDepth, MaxValues   \* bounds: collections open, values collected

ASSUME YamlAssumption == MaxDepth \in Nat /\ MaxValues \in Nat

YamlKinds == {"Path", "Command", "None"}   \* Option<YamlKey>

VARIABLES
  stack,      \* the open collections
  out,        \* the kinds of the values collected, in document order
  yaml_state, \* "reading", "loaded" or "defect"
  aux_keys,   \* history: per open collection, the kind of the key in force in it
  aux_due     \* history: the kinds the values should have had

yamlVars == <<stack, out, yaml_state, aux_keys, aux_due>>

Frame(form, kind) ==
  [form |-> form, kind |-> kind, expects |-> IF form = "Mapping" THEN "Key" ELSE kind]

(* What the next node is: a key, or a value under some kind.               *)
expected == IF stack = <<>> THEN "None" ELSE Last(stack).expects

inherited ==
  IF stack # <<>> /\ Last(stack).form = "Mapping" THEN Last(stack).kind ELSE "None"

(* Mutant: a key that is not known hides the one above it.                 *)
known_or_none(kind) == kind

or_inherited(kind) == IF kind = "None" THEN inherited ELSE kind

(* The node the innermost mapping waited for has arrived.                  *)
consumed(next) ==
  IF stack # <<>> /\ Last(stack).form = "Mapping"
    THEN [stack EXCEPT ![Len(stack)].expects = next]
    ELSE stack

(* The kind of the innermost key that is known, of those in force.         *)
NearestKey ==
  LET known == {i \in DOMAIN aux_keys : aux_keys[i] # "None"}
  IN  IF known = {} THEN "None" ELSE aux_keys[Max(known)]

Reading == yaml_state = "reading"

ScalarKey(kind) ==
  /\ Reading /\ expected = "Key"
  /\ stack' = consumed(or_inherited(kind))
  /\ aux_keys' = [aux_keys EXCEPT ![Len(aux_keys)] = kind]
  /\ UNCHANGED <<out, yaml_state, aux_due>>

Collected(kind, kinds) == IF kind = "None" THEN kinds ELSE Append(kinds, kind)

ScalarValue ==
  /\ Reading /\ expected # "Key" /\ Len(out) < MaxValues
  /\ out' = Collected(expected, out)
  /\ stack' = consumed("Key")
  /\ aux_due' = Collected(NearestKey, aux_due)
  /\ UNCHANGED <<yaml_state, aux_keys>>

(* A collection opens under the kind that was expected.                    *)
CollectionStart(form) ==
  /\ Reading /\ expected # "Key" /\ Len(stack) < MaxDepth
  /\ stack' = Append(consumed("Key"), Frame(form, expected))
  /\ aux_keys' = Append(aux_keys, "None")
  /\ UNCHANGED <<out, yaml_state, aux_due>>

(* The stream closes what is open, a mapping only between two entries.     *)
CollectionEnd ==
  /\ Reading /\ stack # <<>>
  /\ Last(stack).form = "Mapping" => expected = "Key"
  /\ stack' = Front(stack)
  /\ aux_keys' = Front(aux_keys)
  /\ UNCHANGED <<out, yaml_state, aux_due>>

(* An alias where nothing is collected is read where it was written.       *)
Alias ==
  /\ Reading /\ expected = "None"
  /\ stack' = consumed("Key")
  /\ UNCHANGED <<out, yaml_state, aux_keys, aux_due>>

(* A key that is not a scalar, an alias that would have been a key or been *)
(* collected, or an error of the parser.                                   *)
YamlDefect ==
  /\ Reading
  /\ yaml_state' = "defect"
  /\ UNCHANGED <<stack, out, aux_keys, aux_due>>

StreamEnd ==
  /\ Reading /\ stack = <<>>
  /\ yaml_state' = "loaded"
  /\ UNCHANGED <<stack, out, aux_keys, aux_due>>

-----------------------------------------------------------------------------
YamlInit ==
  /\ stack = <<>> /\ out = <<>> /\ yaml_state = "reading"
  /\ aux_keys = <<>> /\ aux_due = <<>>

YamlNext ==
  \/ \E kind \in YamlKinds : ScalarKey(kind)
  \/ ScalarValue \/ CollectionStart("Sequence") \/ CollectionStart("Mapping")
  \/ CollectionEnd \/ Alias \/ YamlDefect \/ StreamEnd

YamlSpec == YamlInit /\ [][YamlNext]_yamlVars

-----------------------------------------------------------------------------
(* Every scalar is collected under the innermost known key above it,       *)
(* however deep it is nested and whatever closed in between, and a scalar  *)
(* under no such key is not collected ("everything under paths: is read as *)
(* a path however deeply it is nested", inherited).                        *)
NearestKeyWins == out = aux_due
=============================================================================
