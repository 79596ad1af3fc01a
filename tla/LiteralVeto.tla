----------------------------- MODULE LiteralVeto -----------------------------
(***************************************************************************)
(* Gate 2a (judged-core/src/veto/literal.rs): does a tracked file name the *)
(* candidate?  One query is one `git ls-files` and one read of every file  *)
(* it lists, while a user goes on working in the tree.                     *)
(***************************************************************************)
EXTENDS Integers, SequencesExt

CONSTANTS
  Tracked,      \* the paths the index may list, in its order
  Candidate,    \* the path that is asked about
  Spellings,    \* kind of needle -> the text it derives from Candidate, or {}
  Strategies,   \* the sets of optional kinds a caller may select
  MaxHits,      \* ScanLimits::max_hits
  MaxBytes,     \* ScanLimits::max_file_bytes, {} for None
  Budgets,      \* ScanLimits::budget: FALSE for None, TRUE for Some
  MaxEdits      \* bound: how many paths the user touches during a query

Files == {Tracked[i] : i \in DOMAIN Tracked}
Kinds == {"Basename", "Stem", "ParentDir", "Symbol"}
Texts == UNION {Spellings[k] : k \in Kinds}

ASSUME LiteralAssumption ==
  /\ Tracked \in Seq(Files)
  /\ MaxHits \in Nat /\ MaxEdits \in Nat
  /\ MaxBytes \subseteq Nat /\ Budgets \subseteq BOOLEAN

VARIABLES
  index,         \* path -> its kind in the index, or "none"
  worktree,      \* path -> what is there
  query,         \* the query
  aux_touched    \* history: the paths touched since the query was asked

litVars == <<index, worktree, query, aux_touched>>

EntryKind == {"Blob", "Symlink", "Gitlink"}

(* One entry of the work tree: nothing that can be read there, a symlink   *)
(* whose target spells some texts, or a file of some size whose bytes do.  *)
(* A blob that became a link to a file reads as that file.                 *)
TreeEntries ==
  {[state |-> "gone", size |-> 0, names |-> {}]}
    \cup [state : {"link"}, size : {0}, names : SUBSET Texts]
    \cup [state : {"file"}, size : {1, 2}, names : SUBSET Texts]

-----------------------------------------------------------------------------
includes(strategy, kind) == kind = "Basename" \/ kind \in strategy

derive_needles(strategy) ==
  UNION {Spellings[k] : k \in {kind \in Kinds : includes(strategy, kind)}}

(* The candidate's own file says nothing about it, and what a gitlink      *)
(* holds is another repository's.                                          *)
searched(f) == index[f] \in {"Blob", "Symlink"} /\ f # Candidate

corpus ==
  {[at |-> i, kind |-> index[Tracked[i]]] : i \in {k \in DOMAIN Tracked : searched(Tracked[k])}}

(* Mutant: a file that is not there has nothing to say.                    *)
read_what_is_there(entry, kind) ==
  IF entry.state = "file" /\ \E limit \in MaxBytes : entry.size > limit
    THEN "Truncated"
    ELSE "Completed"

(* What reading one entry comes to, before its bytes are searched.         *)
read_entry(entry, kind) ==
  IF entry.state # (IF kind = "Symlink" THEN "link" ELSE "file")
    THEN "Errored"
  ELSE IF kind = "Blob" /\ \E limit \in MaxBytes : entry.size > limit
    THEN "Truncated"
  ELSE "Completed"

(* The first way the search fell short of the corpus is the one reported.  *)
shortfall(q, state) == IF q.state = "Completed" THEN state ELSE q.state

decide(hits, state) ==
  IF hits > 0 THEN "Reference"
  ELSE IF state # "Completed" THEN "IncompleteSearch"
  ELSE "Clear"

recorded(hits) == IF hits > MaxHits THEN MaxHits ELSE hits

(***************************************************************************)
(* One query.                                                              *)
(***************************************************************************)
Ask ==
  /\ query.pc = "idle"
  /\ \E strategy \in Strategies, timed \in Budgets :
       query' = [pc |-> "enumerate", needles |-> derive_needles(strategy),
                 left |-> {}, timed |-> timed, hits |-> 0, hits_capped |-> FALSE,
                 state |-> "Completed", verdict |-> "none"]
  /\ aux_touched' = {}
  /\ UNCHANGED <<index, worktree>>

(* The candidate is outside the tree or its name is not text, no needle    *)
(* can be derived, or git does not answer.                                 *)
abort ==
  /\ query.pc = "enumerate"
  /\ query' = [query EXCEPT !.pc = "done", !.state = "Errored",
                            !.verdict = decide(0, "Errored")]
  /\ UNCHANGED <<index, worktree, aux_touched>>

tracked_files ==
  /\ query.pc = "enumerate" /\ query.needles # {}
  /\ query' = [query EXCEPT !.pc = "scan", !.left = corpus]
  /\ UNCHANGED <<index, worktree, aux_touched>>

(* The budget has run out: the only shortfall that ends the search.        *)
TimesOut ==
  /\ query.pc = "scan" /\ query.timed /\ query.left # {}
  /\ query' = [query EXCEPT !.left = {}, !.state = shortfall(query, "TimedOut")]
  /\ UNCHANGED <<index, worktree, aux_touched>>

(* The entry cannot be read within the limits, and the search goes on.     *)
falls_short(entry, state) ==
  /\ state # "Completed"
  /\ query' = [query EXCEPT !.left = @ \ {entry}, !.state = shortfall(query, state)]

(* A needle inside a longer one is not reported beside it, so some of      *)
(* those that occur fire, and at least one.                                *)
search_bytes(entry, found) ==
  \E fired \in 0 .. Cardinality(found) :
    /\ fired = 0 => found = {}
    /\ query' = [query EXCEPT !.left = @ \ {entry}, !.hits = recorded(@ + fired),
                   !.hits_capped = @ \/ query.hits + fired > MaxHits]

(* The next file is read in full and searched for every needle.            *)
scan_entry ==
  /\ query.pc = "scan"
  /\ \E entry \in query.left :
       /\ \A later \in query.left : entry.at <= later.at
       /\ LET there == worktree[Tracked[entry.at]]
              state == read_entry(there, entry.kind)
          IN  \/ falls_short(entry, state)
              \/ state = "Completed" /\ search_bytes(entry, there.names \cap query.needles)
  /\ UNCHANGED <<index, worktree, aux_touched>>

Decide ==
  /\ query.pc = "scan" /\ query.left = {}
  /\ query' = [query EXCEPT !.pc = "done", !.verdict = decide(query.hits, query.state)]
  /\ UNCHANGED <<index, worktree, aux_touched>>

(* The user edits, removes or replaces a file, or stages another kind.     *)
Touch(f) ==
  /\ query.pc \in {"enumerate", "scan"} /\ Cardinality(aux_touched) < MaxEdits
  /\ \/ worktree' \in {[worktree EXCEPT ![f] = e] : e \in TreeEntries} /\ UNCHANGED index
     \/ index' \in {[index EXCEPT ![f] = k] : k \in EntryKind \cup {"none"}}
        /\ UNCHANGED worktree
  /\ aux_touched' = aux_touched \cup {f}
  /\ UNCHANGED query

-----------------------------------------------------------------------------
LitInit ==
  /\ index \in [Files -> EntryKind \cup {"none"}]
  /\ worktree \in [Files -> TreeEntries]
  /\ query = [pc |-> "idle", needles |-> {}, left |-> {}, timed |-> FALSE,
              hits |-> 0, hits_capped |-> FALSE, state |-> "Completed",
              verdict |-> "none"]
  /\ aux_touched = {}

LitNext ==
  \/ Ask \/ abort \/ tracked_files \/ TimesOut \/ scan_entry \/ Decide
  \/ \E f \in Files : Touch(f)

LitSpec == LitInit /\ [][LitNext]_litVars

-----------------------------------------------------------------------------
(* "Clear" says that the whole corpus was read and nothing in it names the *)
(* candidate: every file that was tracked when the query was asked, and    *)
(* that nobody touched since, can be read within the limits and spells no  *)
(* needle (ScanState, "Only Completed licenses a no-veto answer").         *)
ClearIsAnAbsence ==
  query.verdict = "Clear" /\ MaxHits > 0 =>
    \A f \in Files \ (aux_touched \cup {Candidate}) :
      /\ index[f] = "Symlink" => worktree[f].state = "link"
      /\ index[f] = "Blob" => /\ worktree[f].state = "file"
                             /\ \A limit \in MaxBytes : worktree[f].size <= limit
      /\ index[f] \in {"Blob", "Symlink"} => worktree[f].names \cap query.needles = {}
=============================================================================
