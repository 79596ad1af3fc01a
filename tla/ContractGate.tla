---------------------------- MODULE ContractGate -----------------------------
(***************************************************************************)
(* Gate 1, classes 1l to 1p (judged-core/src/gate1/contracts.rs): files    *)
(* that something outside the repository reads, files that a negation      *)
(* brought back, the tool's own, and files of no known type.  git decides  *)
(* which ignore rule is about a path; it is external.                      *)
(***************************************************************************)
EXTENDS Gate1Tree

CONSTANTS
  CheckIgnore,   \* path -> the answers of git check-ignore: the rule that
                 \* decided, "" for none, "error" for a failure
  Negations      \* the rules that start with !

-----------------------------------------------------------------------------
(* How a row recognises a path.                                            *)
contract_matches(row, path) ==
  LET parts == names(path)
      dirs  == Front(parts)
  IN  CASE row.by = "Basename"  -> basename(path) = row.text
        [] row.by = "ExactPath" -> path = row.text
        [] row.by = "Inside"    -> Within(dirs, names(row.text))
        [] row.by = "Extension" ->
             LET dotted == <<".">> \o row.text
             IN  Ends(basename(path), dotted) /\ basename(path) # dotted

(* says is what deleting the file does, or the class of a tool artifact.   *)
Row(by, text, says) == [by |-> by, text |-> text, says |-> says]

PLATFORM_CONTRACTS ==
  {Row("Basename", <<"CNAME">>, "SecurityEvent"),
   Row("ExactPath", <<".github", "/", "dependabot", ".", "yml">>, "ControlSilentlyRemoved"),
   Row("Inside", <<".github", "/", "workflows">>, "ControlSilentlyRemoved"),
   Row("Inside", <<".well-known">>, "DeliveryStopsSilently"),
   Row("Basename", <<"_redirects">>, "PlatformBehaviourChanges")}

TOOL_ARTIFACTS ==
  {Row("ExactPath", <<".judged", "/", "keep", ".", "toml">>, "1n"),
   Row("Inside", <<".judged">>, "1n"), Row("Basename", <<"lcov", ".", "info">>, "1o"),
   Row("Extension", <<"profraw">>, "1o"), Row("Inside", <<"coverage">>, "1o")}

platform_contract_for(path) == {r \in PLATFORM_CONTRACTS : contract_matches(r, path)}
tool_artifact_for(path) == {r \in TOOL_ARTIFACTS : contract_matches(r, path)}

(* A run may not delete what it is judged by, and may not both edit its    *)
(* ledger and delete.                                                      *)
review_plan(edits, deletions) ==
  LET own == SelectInSeq(deletions, LAMBDA p : tool_artifact_for(p) # {})
  IN  IF own # 0 THEN "RefusedSelfDeletion"
      ELSE IF edits # <<>> /\ deletions # <<>> THEN "RefusedCoOccurrence"
      ELSE "Permitted"

-----------------------------------------------------------------------------
KNOWN_EXTENSIONS == {<<"py">>, <<"sql">>, <<"js">>, <<"css">>, <<"go">>, <<"c">>, <<"xml">>,
                     <<"yml">>, <<"yaml">>, <<"md">>, <<"json">>, <<"csv">>, <<"db">>, <<"bin">>}

KNOWN_PATH_NAMES == {<<"Makefile">>, <<"LICENSE">>, <<"NOTICE">>, <<"README">>,
                     <<"go", ".", "mod">>}

MAGIC == {<<"SQLite format 3">>, <<"#!">>, <<"%PDF-">>}

(* By name, as a contract, by extension, or by the first bytes: being text *)
(* is not a type.                                                          *)
determine_type(path, head) ==
  IF basename(path) \in KNOWN_PATH_NAMES \/ platform_contract_for(path) # {} THEN "PathName"
  ELSE IF extension(path) \cap KNOWN_EXTENSIONS # {} THEN "Extension"
  ELSE IF \E m \in MAGIC : Starts(head, m) THEN "Magic"
  ELSE "none"

negation_un_ignore(answer) == answer \in Negations

(* The first bytes; a directory and what is gone have none, and what       *)
(* cannot be read is an error.                                             *)
head_bytes(path) ==
  IF ~ Present(path) \/ tree[path].type = "dir"
       \/ (tree[path].type = "link" /\ tree[path].leads # "file")
    THEN [ok |-> TRUE, head |-> <<>>]
  ELSE IF ~ tree[path].readable THEN [ok |-> FALSE, head |-> <<>>]
  ELSE [ok |-> TRUE, head |-> IF tree[path].lines = <<>> THEN <<>> ELSE Head(tree[path].lines)]

(* Links are followed before the path is judged, so the path that is       *)
(* judged is the one the link leads to.  A path outside the tree, the root *)
(* itself, and an answer git failed to give end the judgement.             *)
resolved(path) ==
  IF Present(path) /\ tree[path].type = "link" /\ tree[path].leads \in {"file", "inside"}
    THEN tree[path].target ELSE path

outside(path) ==
  path = <<>> \/ (Present(path) /\ tree[path].type = "link" /\ tree[path].leads = "outside")

contract_classify(path, answer) ==
  LET real  == resolved(path)
      head  == head_bytes(real)
      type  == determine_type(real, head.head)
  IN  IF outside(path) \/ answer = "error" \/ ~ head.ok THEN {"Error"}
      ELSE {c \in {"1l"} : platform_contract_for(real) # {}}
             \cup {c \in {"1m"} : negation_un_ignore(answer)}
             \cup {r.says : r \in tool_artifact_for(real)}
             \cup {c \in {"1p"} : type = "none"}
=============================================================================
