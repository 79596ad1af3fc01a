------------------------------ MODULE SarifInput ------------------------------
(***************************************************************************)
(* The reader of SARIF logs (judged-cli/src/sarif_input.rs) in front of    *)
(* the ratchet.  An analyzer means something and spells it, in any of the  *)
(* ways the format has for it; the reader maps the spelling to the         *)
(* projection, or refuses the log.  An optional field is a set of at most  *)
(* one value, and "bad" a value of another type.  The analyzer is          *)
(* external.                                                               *)
(***************************************************************************)
EXTENDS Integers, SequencesExt

CONSTANTS
  Logs    \* the wire logs analyzers may write, one run each, with what they mean

VARIABLE sarif   \* the log, and what was read

-----------------------------------------------------------------------------
Levels    == {"none", "note", "warning", "error"}
States    == {"new", "unchanged", "updated", "absent"}
Statuses  == {"accepted", "underReview", "rejected"}
Absolutes == {"/abs/a.py", "file:///a.py", "C:/a.py"}   \* of the paths in use

The(option, default) == IF option = {} THEN default ELSE CHOOSE v \in option : TRUE

is_wire(log) == log.driver
is_absolute(uri) == uri \in Absolutes
repo_relative_uri(uri) == uri # "bad" /\ ~ is_absolute(uri)

wire_notification(n) == n.level \subseteq Levels /\ n.text # {} /\ "bad" \notin n.text
wire_invocation(i) ==
  i.success \subseteq {"true", "false"} /\ \A n \in Range(i.notified) : wire_notification(n)
wire_artifact(a)   == a.uri # {} /\ repo_relative_uri(The(a.uri, "bad")) /\ "bad" \notin a.roles

(* Mutant: indices count from one.                                         *)
from_one(table, i) == IF i \in DOMAIN table THEN {table[i]} ELSE {}

(* The entry of a table by its index, which counts from zero.              *)
by_index(table, i) == IF i + 1 \in DOMAIN table THEN {table[i + 1]} ELSE {}

wire_location(log, l) ==
  IF l.uri # {} THEN {u \in l.uri : repo_relative_uri(u)}
  ELSE UNION {a.uri : a \in UNION {by_index(log.artifacts, i) : i \in l.index \ {-1}}}

(* The result's own level, its rule's, or a warning.                       *)
level_of(log, r, id) ==
  LET named   == SelectSeq(log.rules, LAMBDA rule : rule.id = {id})
      byId    == UNION {rule.level : rule \in {named[k] : k \in DOMAIN named \cap {1}}}
      byIndex == UNION {rule.level : rule \in UNION {by_index(log.rules, i) : i \in r.ruleIndex}}
  IN  The(r.level, The(byId, The(byIndex, "warning")))

rule_id(log, r) ==
  IF r.ruleId # {} THEN r.ruleId
  ELSE UNION {rule.id : rule \in UNION {by_index(log.rules, i) : i \in r.ruleIndex}}

wire_suppression(s) ==
  s.kind \in {"inSource", "external"} /\ s.status # {} /\ s.status \subseteq Statuses

(* What can be refused about one result.                                   *)
wire_result(log, r) ==
  /\ \A i \in r.ruleIndex : i >= 0 /\ by_index(log.rules, i) # {}
  /\ rule_id(log, r) # {} /\ "bad" \notin rule_id(log, r)
  /\ r.level \subseteq Levels /\ r.text # {} /\ "bad" \notin r.text
  /\ \A l \in Range(r.locations) : wire_location(log, l) # {}
  /\ r.state \subseteq States /\ \A s \in Range(r.suppressions) : wire_suppression(s)

(* What is read of a result: amnesty is what was reviewed and accepted.    *)
Projected(log, r) ==
  LET id == The(rule_id(log, r), "")
  IN  [rule |-> id, level |-> level_of(log, r, id),
       uris |-> [k \in DOMAIN r.locations |-> The(wire_location(log, r.locations[k]), "")],
       accepted |-> \E s \in Range(r.suppressions) : s.status = {"accepted"}]

wire_run(log) ==
  IF /\ log.name # {} /\ "bad" \notin log.name
     /\ \A rule \in Range(log.rules) : rule.level \subseteq Levels /\ "bad" \notin rule.id
     /\ \A a \in Range(log.artifacts) : wire_artifact(a)
     /\ \A i \in Range(log.invocations) : wire_invocation(i)
     /\ \A r \in Range(log.results) : wire_result(log, r)
    THEN {[ok      |-> [k \in DOMAIN log.invocations |-> The(log.invocations[k].success, "false")],
           warned  |-> \E i \in Range(log.invocations) : \E n \in Range(i.notified) :
                         The(n.level, "warning") \in {"warning", "error"},
           targets |-> {The(a.uri, "") : a \in {b \in Range(log.artifacts) : "analysisTarget" \in b.roles}},
           results |-> [k \in DOMAIN log.results |-> Projected(log, log.results[k])]]}
    ELSE {}

(* A log that is no wire log is the projection already, or malformed.      *)
read(log) == IF is_wire(log) THEN wire_run(log) ELSE {}

-----------------------------------------------------------------------------
SarifInit == sarif = [pc |-> "written", log |-> <<>>, read |-> {}]

write_log ==
  /\ sarif.pc = "written"
  /\ \E log \in Logs : sarif' = [sarif EXCEPT !.pc = "read", !.log = log]

read_log ==
  /\ sarif.pc = "read"
  /\ sarif' = [sarif EXCEPT !.pc = "done", !.read = read(sarif.log.wire)]

SarifNext == write_log \/ read_log

-----------------------------------------------------------------------------
(* A log is read as it was meant, however it was spelled: by id or index,  *)
(* with a level or its rule's.  What was not said (that the run succeeded, *)
(* what it opened, that a suppression was reviewed, where a finding is) is *)
(* never made up: such a log is refused, or read without it (module docs:  *)
(* "Mapping is the whole job; inferring is not").                          *)
ReadAsMeant ==
  sarif.pc = "done" => sarif.read = sarif.log.meant
=============================================================================
