------------------------------ MODULE VetoProofs ------------------------------
(***************************************************************************)
(* Proofs about gates 2a to 2c: the literal veto for every index, every    *)
(* set of needles and limits and any number of edits while a query runs;   *)
(* the walk and the search for what reaches a candidate, for every         *)
(* repository, every order in which it is listed and any number of changes *)
(* while it runs; and the YAML values that are patterns, for every stream  *)
(* of events, however long and however deep.                               *)
(***************************************************************************)
EXTENDS LiteralVeto, YamlValues, Reachability, RecursionFacts, SequenceTheorems

(* Gate 2a: the literal veto. *)
Pcs == {"idle", "enumerate", "scan", "done"}
ScanStates == {"Completed", "Truncated", "Errored", "TimedOut"}
Verdicts == {"none", "Reference", "IncompleteSearch", "Clear"}
CorpusEntries == [at : DOMAIN Tracked, kind : {"Blob", "Symlink"}]

LitType ==
  /\ index \in [Files -> EntryKind \cup {"none"}]
  /\ worktree \in [Files -> TreeEntries]
  /\ query \in [pc : Pcs, needles : SUBSET Texts, left : SUBSET CorpusEntries,
                timed : BOOLEAN, hits : Nat, hits_capped : BOOLEAN,
                state : ScanStates, verdict : Verdicts]

(* The file was read in full, as what the index says it is, and spells no  *)
(* needle.                                                                 *)
ReadAndSilent(f) ==
  /\ index[f] = "Symlink" => worktree[f].state = "link"
  /\ index[f] = "Blob" => /\ worktree[f].state = "file"
                         /\ \A limit \in MaxBytes : worktree[f].size <= limit
  /\ index[f] \in {"Blob", "Symlink"} => worktree[f].names \cap query.needles = {}

(* A file that is searched is still in what is left of the corpus.         *)
StillLeft(f) ==
  index[f] \in {"Blob", "Symlink"} /\
    \E entry \in query.left : Tracked[entry.at] = f /\ entry.kind = index[f]

Untouched == Files \ (aux_touched \cup {Candidate})

(***************************************************************************)
(* The inductive invariant: as long as nothing was found and nothing fell  *)
(* short, what nobody touched was read, or is left to be read.  The edits  *)
(* end with the query, so what was read when it cleared stays as it was.   *)
(***************************************************************************)
LitInv ==
  /\ LitType
  /\ query.pc = "scan" /\ query.state = "Completed" /\ query.hits = 0 /\ MaxHits > 0 =>
       \A f \in Untouched : StillLeft(f) \/ ReadAndSilent(f)
  /\ query.verdict = "Clear" => query.pc = "done"
  /\ query.verdict = "Clear" /\ MaxHits > 0 => \A f \in Untouched : ReadAndSilent(f)

-----------------------------------------------------------------------------
(* Needles are texts that the spellings know.                              *)
LEMMA NeedlesAreTexts == \A strategy : derive_needles(strategy) \subseteq Texts
BY DEF derive_needles, Texts

(* The corpus has an entry for every file of the index that is searched.   *)
LEMMA CorpusCovers ==
  ASSUME LitType
  PROVE  /\ corpus \subseteq CorpusEntries
         /\ \A f \in Files : searched(f) =>
              \E entry \in corpus : Tracked[entry.at] = f /\ entry.kind = index[f]
<1>1. \A i \in DOMAIN Tracked : Tracked[i] \in Files
  BY DEF Files
<1>2. corpus \subseteq CorpusEntries
  BY <1>1 DEF corpus, searched, CorpusEntries
<1>3. ASSUME NEW f \in Files, searched(f)
      PROVE  \E entry \in corpus : Tracked[entry.at] = f /\ entry.kind = index[f]
  <2>1. PICK i \in DOMAIN Tracked : Tracked[i] = f
    BY DEF Files
  <2>2. [at |-> i, kind |-> index[Tracked[i]]] \in corpus
    BY <1>3, <2>1 DEF corpus
  <2> QED
    BY <2>1, <2>2
<1> QED
  BY <1>2, <1>3

(* The invariant speaks of the query and the files that nobody touched.    *)
LEMMA AskKeeps ==
  ASSUME LitInv, Ask
  PROVE  LitInv'
<1>1. PICK strategy \in Strategies, timed \in Budgets :
        query' = [pc |-> "enumerate", needles |-> derive_needles(strategy),
                  left |-> {}, timed |-> timed, hits |-> 0, hits_capped |-> FALSE,
                  state |-> "Completed", verdict |-> "none"]
  BY DEF Ask
<1>2. timed \in BOOLEAN
  BY LiteralAssumption
<1>3. LitType'
  BY <1>1, <1>2, NeedlesAreTexts DEF LitInv, LitType, Ask, Pcs, ScanStates, Verdicts
<1> QED
  BY <1>1, <1>3 DEF LitInv

(* A query that ends early clears nothing.                                 *)
LEMMA AbortKeeps ==
  ASSUME LitInv, abort
  PROVE  LitInv'
<1>1. query' = [query EXCEPT !.pc = "done", !.state = "Errored", !.verdict = "IncompleteSearch"]
  BY DEF abort, decide
<1>2. LitType'
  BY <1>1 DEF LitInv, LitType, abort, Pcs, ScanStates, Verdicts
<1> QED
  BY <1>1, <1>2 DEF LitInv, LitType

(* At first the whole corpus is left.                                      *)
LEMMA ListingKeeps ==
  ASSUME LitInv, tracked_files
  PROVE  LitInv'
<1>1. query' = [query EXCEPT !.pc = "scan", !.left = corpus] /\ UNCHANGED <<index, worktree, aux_touched>>
  BY DEF tracked_files
<1>2. LitType'
  BY <1>1, CorpusCovers DEF LitInv, LitType, Pcs
<1>3. query'.left = corpus /\ query'.pc = "scan" /\ query'.verdict = query.verdict
  BY <1>1 DEF LitInv, LitType
<1>4. query.verdict # "Clear"
  BY DEF LitInv, tracked_files
<1>5. ASSUME NEW f \in Untouched'
      PROVE  StillLeft(f)' \/ ReadAndSilent(f)'
  <2>1. CASE index[f] \in {"Blob", "Symlink"}
    <3>1. f \in Files /\ searched(f)
      BY <1>1, <1>5, <2>1 DEF Untouched, searched
    <3>2. PICK entry \in corpus : Tracked[entry.at] = f /\ entry.kind = index[f]
      BY <3>1, CorpusCovers DEF LitInv
    <3> QED
      BY <1>1, <1>3, <2>1, <3>2 DEF StillLeft
  <2>2. CASE index[f] \notin {"Blob", "Symlink"}
    BY <1>1, <2>2 DEF ReadAndSilent
  <2> QED
    BY <2>1, <2>2
<1> QED
  BY <1>2, <1>3, <1>4, <1>5 DEF LitInv

(* A shortfall is remembered: the search no longer counts as completed.    *)
LEMMA ShortfallSticks ==
  ASSUME LitType, NEW state \in ScanStates \ {"Completed"}
  PROVE  shortfall(query, state) \in ScanStates \ {"Completed"}
BY DEF shortfall, LitType

LEMMA TimeoutKeeps ==
  ASSUME LitInv, TimesOut
  PROVE  LitInv'
<1>1. shortfall(query, "TimedOut") \in ScanStates \ {"Completed"}
  BY ShortfallSticks DEF LitInv, ScanStates
<1>2. query' = [query EXCEPT !.left = {}, !.state = shortfall(query, "TimedOut")]
  BY DEF TimesOut
<1>3. LitType'
  BY <1>1, <1>2 DEF LitInv, LitType, TimesOut
<1>4. query'.state # "Completed" /\ query'.pc = "scan" /\ query'.verdict # "Clear"
  BY <1>1, <1>2 DEF LitInv, LitType, TimesOut
<1> QED
  BY <1>3, <1>4 DEF LitInv

(* A file that was read in full and in which no needle fires is silent.    *)
LEMMA ReadIsSilent ==
  ASSUME LitType, NEW f \in Files, index[f] \in {"Blob", "Symlink"},
         read_entry(worktree[f], index[f]) = "Completed",
         worktree[f].names \cap query.needles = {}
  PROVE  ReadAndSilent(f)
<1>1. worktree[f] \in TreeEntries
  BY DEF LitType
<1>2. worktree[f].size \in Nat
  BY <1>1 DEF TreeEntries
<1>3. worktree[f].state = IF index[f] = "Symlink" THEN "link" ELSE "file"
  BY DEF read_entry
<1>4. ASSUME index[f] = "Blob", NEW limit \in MaxBytes
      PROVE  worktree[f].size <= limit
  <2>1. ~ worktree[f].size > limit
    BY <1>3, <1>4 DEF read_entry
  <2>2. limit \in Nat
    BY LiteralAssumption
  <2> QED
    BY <1>2, <2>1, <2>2
<1> QED
  BY <1>3, <1>4 DEF ReadAndSilent

(* Each entry is taken off what is left only when it was read, or when the *)
(* query can no longer clear.                                              *)
LEMMA ScanKeeps ==
  ASSUME LitInv, scan_entry
  PROVE  LitInv'
<1>1. PICK entry \in query.left :
        LET there == worktree[Tracked[entry.at]]
            state == read_entry(there, entry.kind)
        IN  \/ falls_short(entry, state)
            \/ state = "Completed" /\ search_bytes(entry, there.names \cap query.needles)
  BY DEF scan_entry
<1>2. query.pc = "scan" /\ UNCHANGED <<index, worktree, aux_touched>> /\ query.verdict # "Clear"
  BY DEF scan_entry, LitInv
<1> DEFINE there == worktree[Tracked[entry.at]]
           state == read_entry(there, entry.kind)
<1>3. CASE falls_short(entry, state)
  <2>1. state \in ScanStates \ {"Completed"}
    BY <1>3 DEF falls_short, read_entry, ScanStates
  <2>2. shortfall(query, state) \in ScanStates \ {"Completed"}
    BY <2>1, ShortfallSticks DEF LitInv
  <2> HIDE DEF state
  <2>3. query' = [query EXCEPT !.left = @ \ {entry}, !.state = shortfall(query, state)]
    BY <1>3 DEF falls_short
  <2>4. LitType'
    BY <1>2, <2>2, <2>3 DEF LitInv, LitType
  <2>5. query'.state # "Completed" /\ query'.pc = "scan" /\ query'.verdict # "Clear"
    BY <1>2, <2>2, <2>3 DEF LitInv, LitType
  <2> QED
    BY <2>4, <2>5 DEF LitInv
<1>4. CASE state = "Completed" /\ search_bytes(entry, there.names \cap query.needles)
  <2> DEFINE found == there.names \cap query.needles
  <2>1. PICK fired \in 0 .. Cardinality(found) :
          /\ fired = 0 => found = {}
          /\ query' = [query EXCEPT !.left = @ \ {entry}, !.hits = recorded(@ + fired),
                         !.hits_capped = @ \/ query.hits + fired > MaxHits]
    BY <1>4 DEF search_bytes
  <2>2. fired \in Nat /\ query.hits \in Nat /\ MaxHits \in Nat
    BY LiteralAssumption DEF LitInv, LitType
  <2>3. recorded(query.hits + fired) \in Nat
    BY <2>2 DEF recorded
  <2>4. LitType'
    BY <1>2, <2>1, <2>3 DEF LitInv, LitType
  <2>5. /\ query'.pc = "scan" /\ query'.verdict # "Clear" /\ query'.state = query.state
        /\ query'.left = query.left \ {entry} /\ query'.needles = query.needles
        /\ query'.hits = recorded(query.hits + fired)
    BY <1>2, <2>1 DEF LitInv, LitType
  <2>6. ASSUME query'.state = "Completed", query'.hits = 0, MaxHits > 0, NEW f \in Untouched'
        PROVE  StillLeft(f)' \/ ReadAndSilent(f)'
    <3>1. query.hits = 0 /\ fired = 0 /\ found = {}
      BY <2>1, <2>2, <2>5, <2>6 DEF recorded
    <3>2. f \in Untouched /\ f \in Files
      BY <1>2, <2>6 DEF Untouched
    <3>3. StillLeft(f) \/ ReadAndSilent(f)
      BY <1>2, <2>5, <2>6, <3>1, <3>2 DEF LitInv
    <3>4. ReadAndSilent(f) => ReadAndSilent(f)'
      BY <1>2, <2>5 DEF ReadAndSilent
    <3>5. CASE Tracked[entry.at] = f /\ entry.kind = index[f] /\ index[f] \in {"Blob", "Symlink"}
      <4>1. read_entry(worktree[f], index[f]) = "Completed" /\ worktree[f].names \cap query.needles = {}
        BY <1>4, <3>1, <3>5
      <4> QED
        BY <3>2, <3>4, <3>5, <4>1, ReadIsSilent DEF LitInv
    <3>6. CASE ~ (Tracked[entry.at] = f /\ entry.kind = index[f]) /\ StillLeft(f)
      BY <1>2, <2>5, <3>6 DEF StillLeft
    <3> QED
      BY <3>3, <3>4, <3>5, <3>6 DEF StillLeft
  <2> QED
    BY <2>4, <2>5, <2>6 DEF LitInv
<1> QED
  BY <1>1, <1>3, <1>4

(* Only a completed search that found nothing clears.                      *)
LEMMA DecideKeeps ==
  ASSUME LitInv, Decide
  PROVE  LitInv'
<1>1. /\ query.pc = "scan" /\ query.left = {} /\ UNCHANGED <<index, worktree, aux_touched>>
      /\ query' = [query EXCEPT !.pc = "done", !.verdict = decide(query.hits, query.state)]
  BY DEF Decide
<1>2. decide(query.hits, query.state) \in Verdicts
  BY DEF decide, Verdicts
<1>3. LitType'
  BY <1>1, <1>2 DEF LitInv, LitType, Pcs
<1>4. /\ query'.pc = "done" /\ query'.needles = query.needles
      /\ query'.verdict = decide(query.hits, query.state)
  BY <1>1 DEF LitInv, LitType
<1>5. ASSUME query'.verdict = "Clear", MaxHits > 0, NEW f \in Untouched'
      PROVE  ReadAndSilent(f)'
  <2>1. query.state = "Completed" /\ query.hits = 0
    BY <1>4, <1>5 DEF decide, LitInv, LitType
  <2>2. f \in Untouched
    BY <1>1 DEF Untouched
  <2>3. StillLeft(f) \/ ReadAndSilent(f)
    BY <1>1, <1>5, <2>1, <2>2 DEF LitInv
  <2>4. ReadAndSilent(f)
    BY <1>1, <2>3 DEF StillLeft
  <2> QED
    BY <1>1, <1>4, <2>4 DEF ReadAndSilent
<1> QED
  BY <1>3, <1>4, <1>5 DEF LitInv

(* What the user changes, the query no longer answers for.                 *)
LEMMA TouchKeeps ==
  ASSUME LitInv, NEW f \in Files, Touch(f)
  PROVE  LitInv'
<1>1. /\ query.pc \in {"enumerate", "scan"} /\ UNCHANGED query
      /\ aux_touched' = aux_touched \cup {f}
      /\ \/ (\E e \in TreeEntries : worktree' = [worktree EXCEPT ![f] = e]) /\ UNCHANGED index
         \/ (\E k \in EntryKind \cup {"none"} : index' = [index EXCEPT ![f] = k]) /\ UNCHANGED worktree
  BY DEF Touch
<1>2. LitType'
  BY <1>1 DEF LitInv, LitType
<1>3. query.verdict # "Clear"
  BY <1>1 DEF LitInv
<1>4. ASSUME NEW g \in Untouched'
      PROVE  g \in Untouched /\ index'[g] = index[g] /\ worktree'[g] = worktree[g]
  <2>1. g \in Untouched /\ g # f /\ g \in Files
    BY <1>1, <1>4 DEF Untouched
  <2> QED
    BY <1>1, <2>1 DEF LitInv, LitType
<1>5. ASSUME NEW g \in Untouched', StillLeft(g) \/ ReadAndSilent(g)
      PROVE  StillLeft(g)' \/ ReadAndSilent(g)'
  BY <1>1, <1>4, <1>5 DEF StillLeft, ReadAndSilent
<1> QED
  BY <1>1, <1>2, <1>3, <1>4, <1>5 DEF LitInv

(* The invariant is inductive.                                             *)
LEMMA LitInductive == LitInv /\ [LitNext]_litVars => LitInv'
<1> SUFFICES ASSUME LitInv, [LitNext]_litVars
             PROVE  LitInv'
  OBVIOUS
<1>1. CASE Ask \/ abort \/ tracked_files
  BY <1>1, AskKeeps, AbortKeeps, ListingKeeps
<1>2. CASE TimesOut \/ scan_entry \/ Decide
  BY <1>2, TimeoutKeeps, ScanKeeps, DecideKeeps
<1>3. ASSUME NEW f \in Files, Touch(f) PROVE LitInv'
  BY <1>3, TouchKeeps
<1>4. CASE UNCHANGED litVars
  BY <1>4 DEF litVars, LitInv, LitType, Untouched, StillLeft, ReadAndSilent
<1> QED
  BY <1>1, <1>2, <1>3, <1>4 DEF LitNext

(* "Clear" is an absence for every corpus, every limit and any number of   *)
(* edits: each file that nobody touched was read in full and is silent.    *)
THEOREM Absence == LitSpec => []ClearIsAnAbsence
<1>1. LitInit => LitInv
  BY DEF LitInit, LitInv, LitType, Pcs, ScanStates, Verdicts
<1>2. LitInv => ClearIsAnAbsence
  BY DEF LitInv, Untouched, ReadAndSilent, ClearIsAnAbsence
<1> QED
  BY <1>1, <1>2, LitInductive, PTL DEF LitSpec

-----------------------------------------------------------------------------
(* Gates 2b and 2c: the walk. *)
LEMMA PathsAreSequences == Paths \subseteq Seq(STRING) \ {<<>>}
BY ReachAssumption

(* What was entered is still no boundary, or someone touched it.           *)
Crossed(d) == d \in aux_changed \/ ~ stops_the_walk(classify(disk[d].marks))

(***************************************************************************)
(* The inductive invariant: the walk is only where it came from the root   *)
(* through directories that were no boundary, and what it saw is below.    *)
(***************************************************************************)
WalkInv ==
  /\ DOMAIN disk = Paths
  /\ scan.pc \in {"idle", "walk", "analyze", "done"}
  /\ scan = [pc |-> scan.pc, pending |-> scan.pending, directories |-> scan.directories,
             files |-> scan.files, left |-> scan.left, rooted |-> scan.rooted,
             suffixes |-> scan.suffixes, incomplete |-> scan.incomplete]
  /\ scan.pc = "idle" => scan.directories = {} /\ scan.files = {}
  /\ scan.pending \subseteq scan.directories
  /\ scan.directories \subseteq Paths \cup {Root}
  /\ scan.files \subseteq Paths
  /\ \A d \in scan.directories \ {Root} : Crossed(d) /\ Above(d) \subseteq scan.directories
  /\ \A f \in scan.files : Above(f) \subseteq scan.directories

(* The directories above a child are its parent's, and its parent.         *)
LEMMA AboveChild ==
  ASSUME NEW d \in Paths \cup {Root}, NEW p \in Children(d)
  PROVE  Above(p) \subseteq (Above(d) \cup {d}) \ {Root}
<1>1. p \in Seq(STRING) /\ Len(p) = Len(d) + 1 /\ IsPrefix(d, p) /\ Len(p) \in Nat
  <2>1. p \in Paths /\ Len(p) = Len(d) + 1 /\ IsPrefix(d, p)
    BY Zenon DEF Children, Under
  <2>2. p \in Seq(STRING)
    BY <2>1, PathsAreSequences
  <2> QED
    BY <2>1, <2>2
<1>2. d \in Seq(STRING) /\ Len(d) \in Nat
  <2>1. d \in Seq(STRING)
    <3>1. Root \in Seq(STRING)
      BY EmptySeq DEF Root
    <3> QED
      BY <3>1, PathsAreSequences, Zenon
  <2> QED
    BY <2>1
<1>3. d = SubSeq(p, 1, Len(d))
  BY <1>1, <1>2 DEF IsPrefix
<1> SUFFICES ASSUME NEW n \in 1 .. Len(p) - 1
             PROVE  SubSeq(p, 1, n) \in (Above(d) \cup {d}) \ {Root}
  BY DEF Above
<1>4. SubSeq(p, 1, n) # Root
  BY <1>1 DEF Root
<1>5. CASE n = Len(d)
  BY <1>3, <1>4, <1>5
<1>6. CASE n # Len(d)
  <2>1. n \in 1 .. Len(d) - 1
    BY <1>1, <1>2, <1>6
  <2>2. SubSeq(d, 1, n) = SubSeq(p, 1, n)
    BY <1>1, <1>2, <1>3, <2>1
  <2> QED
    BY <1>4, <2>1, <2>2 DEF Above
<1> QED
  BY <1>5, <1>6

(* The root is above nothing that is listed.                               *)
LEMMA AboveRoot == Above(Root) = {}
BY DEF Above, Root

(* Only what is no boundary is entered.                                    *)
LEMMA WalkKeeps ==
  ASSUME WalkInv, NEW d \in scan.pending, walk(d)
  PROVE  WalkInv'
<1> DEFINE inside  == {p \in Children(d) : disk[p].type = "dir"}
           bounded == {p \in inside : stops_the_walk(classify(disk[p].marks))}
           unclear == {p \in inside : classify(disk[p].marks) = "Unreadable"}
           seen    == {p \in Children(d) : disk[p].type = "file"}
<1>1. /\ scan.pc = "walk" /\ UNCHANGED <<disk, aux_changed>>
      /\ scan' = [scan EXCEPT !.pending     = (@ \ {d}) \cup (inside \ bounded),
                              !.directories = @ \cup (inside \ bounded),
                              !.files       = @ \cup seen,
                              !.incomplete  = @ \cup unclear]
  BY DEF walk
<1>2. /\ inside \subseteq Children(d) /\ seen \subseteq Children(d)
      /\ \A p \in inside \ bounded : Crossed(p)
  BY DEF Crossed
<1>3. Children(d) \subseteq Paths
  BY DEF Children
<1> HIDE DEF inside, bounded, unclear, seen
<1>4. /\ scan'.pc = "walk" /\ scan'.pending = (scan.pending \ {d}) \cup (inside \ bounded)
      /\ scan'.directories = scan.directories \cup (inside \ bounded)
      /\ scan'.files = scan.files \cup seen
      /\ scan' = [pc |-> scan'.pc, pending |-> scan'.pending, directories |-> scan'.directories,
                  files |-> scan'.files, left |-> scan'.left, rooted |-> scan'.rooted,
                  suffixes |-> scan'.suffixes, incomplete |-> scan'.incomplete]
  BY <1>1 DEF WalkInv
<1>5. d \in Paths \cup {Root} /\ Above(d) \cup {d} \subseteq scan.directories \cup {Root}
  BY AboveRoot DEF WalkInv
<1>6. \A p \in Children(d) : Above(p) \subseteq scan.directories
  BY <1>5, AboveChild
<1>7. \A p \in scan'.directories \ {Root} : Crossed(p)' /\ Above(p) \subseteq scan'.directories
  <2> SUFFICES ASSUME NEW p \in scan'.directories \ {Root}
               PROVE  Crossed(p) /\ Above(p) \subseteq scan.directories
    BY <1>1, <1>4 DEF Crossed
  <2> QED
    BY <1>2, <1>4, <1>6 DEF WalkInv
<1>8. \A f \in scan'.files : Above(f) \subseteq scan'.directories
  BY <1>2, <1>4, <1>6 DEF WalkInv
<1> QED
  BY <1>1, <1>2, <1>3, <1>4, <1>7, <1>8 DEF WalkInv

(* What has not to do with directories leaves the walk as it was.          *)
LEMMA RestKeeps ==
  ASSUME WalkInv, UNCHANGED <<disk, aux_changed>>,
         UNCHANGED <<scan.directories, scan.files>>,
         scan'.pending \subseteq scan.pending, scan'.pc \in {"walk", "analyze", "done"},
         scan' = [pc |-> scan'.pc, pending |-> scan'.pending, directories |-> scan'.directories,
                  files |-> scan'.files, left |-> scan'.left, rooted |-> scan'.rooted,
                  suffixes |-> scan'.suffixes, incomplete |-> scan'.incomplete]
  PROVE  WalkInv'
BY DEF WalkInv, Crossed

(* Whatever is changed is touched.                                         *)
LEMMA ChangeKeeps ==
  ASSUME WalkInv, NEW path \in Paths, Change(path)
  PROVE  WalkInv'
<1>1. /\ UNCHANGED scan /\ aux_changed' = aux_changed \cup {path}
      /\ \E e : disk' = [disk EXCEPT ![path] = e]
  BY DEF Change
<1>2. \A d \in Paths : Crossed(d) => Crossed(d)'
  BY <1>1 DEF Crossed, WalkInv
<1> QED
  BY <1>1, <1>2 DEF WalkInv

(* The invariant is inductive.                                             *)
LEMMA WalkInductive == WalkInv /\ [ReachNext]_reachVars => WalkInv'
<1> SUFFICES ASSUME WalkInv, [ReachNext]_reachVars
             PROVE  WalkInv'
  OBVIOUS
<1>1. CASE Begin
  BY <1>1, AboveRoot DEF Begin, WalkInv
<1>2. ASSUME NEW d \in scan.pending, walk(d) PROVE WalkInv'
  BY <1>2, WalkKeeps
<1>3. ASSUME NEW d \in scan.pending, ListingFails(d) PROVE WalkInv'
  BY <1>3, RestKeeps DEF ListingFails, WalkInv
<1>4. CASE Walked \/ Analyzed
  BY <1>4, RestKeeps DEF Walked, Analyzed, WalkInv
<1>5. ASSUME NEW p \in scan.left, analyze(p) PROVE WalkInv'
  <2>1. UNCHANGED <<disk, aux_changed>> /\ scan.pc = "analyze"
    BY <1>5 DEF analyze
  <2> DEFINE left == scan.left \ {p}
  <2>2. \/ \E incomplete : scan' = [scan EXCEPT !.left = left, !.incomplete = incomplete]
        \/ \E incomplete, rooted :
             scan' = [scan EXCEPT !.left = left, !.incomplete = incomplete, !.rooted = rooted]
        \/ \E rooted, suffixes :
             scan' = [scan EXCEPT !.left = left, !.rooted = rooted, !.suffixes = suffixes]
    BY <1>5, Zenon DEF analyze
  <2>3. /\ UNCHANGED <<scan.directories, scan.files>>
        /\ scan'.pending \subseteq scan.pending /\ scan'.pc = "analyze"
        /\ scan' = [pc |-> scan'.pc, pending |-> scan'.pending, directories |-> scan'.directories,
                    files |-> scan'.files, left |-> scan'.left, rooted |-> scan'.rooted,
                    suffixes |-> scan'.suffixes, incomplete |-> scan'.incomplete]
    BY <2>1, <2>2 DEF WalkInv
  <2> QED
    BY <2>1, <2>3, RestKeeps
<1>6. ASSUME NEW p \in Paths, Change(p) PROVE WalkInv'
  BY <1>6, ChangeKeeps
<1>7. CASE UNCHANGED reachVars
  BY <1>7 DEF reachVars, WalkInv, Crossed
<1> QED
  BY <1>1, <1>2, <1>3, <1>4, <1>5, <1>6, <1>7 DEF ReachNext

(* However deep and in whatever order the repository is walked, a file of  *)
(* another one is not among those that are read.                           *)
THEOREM ForeignUnread == ReachSpec => []ForeignRootsNothing
<1>1. ReachInit => WalkInv
  BY DEF ReachInit, WalkInv
<1>2. WalkInv => ForeignRootsNothing
  <2> SUFFICES ASSUME WalkInv, NEW f \in scan.files, f \in Foreign
               PROVE  FALSE
    BY DEF ForeignRootsNothing
  <2>1. PICK d \in Above(f) : classify(disk[d].marks) # "None" /\ d \notin aux_changed
    BY DEF Foreign, StoodStill
  <2>2. d \in scan.directories \ {Root}
    <3>1. d # Root
      BY PathsAreSequences DEF Above, Root, WalkInv
    <3> QED
      BY <3>1 DEF WalkInv
  <2>3. Crossed(d)
    BY <2>2 DEF WalkInv
  <2> QED
    BY <2>1, <2>3 DEF Crossed, stops_the_walk
<1> QED
  BY <1>1, <1>2, WalkInductive, PTL DEF ReachSpec

-----------------------------------------------------------------------------
(* Gates 2b and 2c: the patterns. *)
LEMMA FirstIs ==
  ASSUME NEW parts \in Seq(STRING), NEW special
  PROVE  /\ FirstOf(parts, special) \in 1 .. Len(parts) + 1
         /\ \A i \in 1 .. FirstOf(parts, special) - 1 : parts[i] \notin special
         /\ FirstOf(parts, special) <= Len(parts) => parts[FirstOf(parts, special)] \in special
<1> DEFINE hits == {i \in DOMAIN parts : parts[i] \in special}
<1>1. Len(parts) \in Nat /\ DOMAIN parts = 1 .. Len(parts)
  OBVIOUS
<1>2. CASE hits = {}
  <2>1. FirstOf(parts, special) = Len(parts) + 1
    BY <1>2 DEF FirstOf
  <2> QED
    BY <1>1, <1>2, <2>1
<1>3. CASE hits # {}
  <2>1. hits \subseteq Nat /\ hits \subseteq Int
    BY <1>1
  <2>2. PICK m \in hits : \A n \in hits : m <= n
    <3> HIDE DEF hits
    <3> QED
      BY <1>3, <2>1, LeastNatural
  <2>3. Min(hits) = m
    <3> HIDE DEF hits
    <3> QED
      BY <2>1, <2>2, MinIs
  <2>4. FirstOf(parts, special) = m
    BY <1>3, <2>3 DEF FirstOf
  <2>5. \A i \in 1 .. m - 1 : i \notin hits
    BY <2>1, <2>2
  <2>6. \A i \in 1 .. m - 1 : i \in DOMAIN parts
    BY <1>1, <2>2
  <2>7. m \in 1 .. Len(parts) /\ parts[m] \in special
    BY <1>1, <2>2
  <2> QED
    BY <1>1, <2>4, <2>5, <2>6, <2>7
<1> QED
  BY <1>2, <1>3

LEMMA ComponentsAre ==
  ASSUME NEW parts \in Seq(STRING)
  PROVE  /\ components(parts) \in Seq(STRING)
         /\ parts = <<".">> => components(parts) = <<>>
         /\ parts # <<>> /\ Last(parts) \in Globs =>
              components(parts) # <<>> /\ Last(components(parts)) = Last(parts)
<1> DEFINE P == {i \in DOMAIN parts : parts[i] \notin {"", "."}}
           N == Len(parts)
           named == components(parts)
<1>0. N \in Nat /\ DOMAIN parts = 1 .. N
  OBVIOUS
<1>1. named = Picked(parts, P)
  BY DEF components
<1>2. named \in Seq(STRING) /\ \E place : Places(place, named, parts, P, N)
  <2> HIDE DEF P, named
  <2> QED
    BY <1>1, PickedPlaces
<1>3. PICK place : Places(place, named, parts, P, N)
  BY <1>2
<1> DEFINE L == Len(named)
<1>2a. named \in Seq(STRING)
  BY <1>2
<1>4. L \in Nat
  <2> HIDE DEF named
  <2> QED
    BY <1>2a
<1>5. ASSUME parts = <<".">> PROVE named = <<>>
  <2>1. N = 1 /\ parts[1] = "."
    BY <1>5
  <2>2. P = {}
    <3>1. \A i \in DOMAIN parts : parts[i] = "."
      BY <1>0, <2>1
    <3> QED
      BY <3>1, Zenon
  <2>3. L = 0
    <3> SUFFICES ASSUME L # 0 PROVE FALSE
      OBVIOUS
    <3>1. 1 \in 1 .. L
      BY <1>4
    <3>2. place[1] \in P
      <4> HIDE DEF P, named
      <4> QED
        BY <1>3, <3>1 DEF Places
    <3> HIDE DEF P
    <3> QED
      BY <2>2, <3>2
  <2>4. Len(named) = 0
    BY <2>3
  <2> HIDE DEF named
  <2> QED
    BY <1>2a, <2>4, EmptySeq, Zenon
<1>6. ASSUME parts # <<>>, Last(parts) \in Globs
      PROVE  named # <<>> /\ Last(named) = Last(parts)
  <2>1. N \in P /\ N \in 1 .. N /\ Last(parts) = parts[N]
    <3>1. N \in 1 .. N /\ Last(parts) = parts[N]
      BY <1>0, <1>6 DEF Last
    <3>2. Last(parts) \notin {"", "."}
      BY <1>6, GlobAssumption, Zenon
    <3> QED
      BY <1>0, <3>1, <3>2
  <2> HIDE DEF P, named, N
  <2>2. PICK j \in 1 .. L : place[j] = N
    BY <1>3, <2>1 DEF Places
  <2>3. \A k \in 1 .. L : place[k] \in 1 .. N
    BY <1>3 DEF Places
  <2>4. L \in 1 .. L
    BY <1>4, <2>2
  <2>5. ~ (j < L)
    <3> SUFFICES ASSUME j < L PROVE FALSE
      OBVIOUS
    <3>1. place[j] < place[L]
      BY <1>3, <2>4 DEF Places
    <3>2. place[L] \in 1 .. N
      BY <2>3, <2>4
    <3> QED
      BY <1>0, <2>2, <3>1, <3>2
  <2>6. j = L
    BY <1>4, <2>2, <2>5
  <2>7. named[L] = parts[N]
    BY <1>3, <2>2, <2>4, <2>6 DEF Places
  <2> QED
    <3>1. Last(named) = Last(parts)
      BY <2>1, <2>7 DEF Last
    <3>2. named # <<>>
      BY <2>4
    <3> QED
      BY <3>1, <3>2
<1> QED
  BY <1>2a, <1>5, <1>6

(* A path that a pattern means starts with the names before its first glob.*)
Special == Globs \cup {".."}
LEMMA MatchStarts ==
  ASSUME NEW parts \in Seq(STRING), NEW path \in Seq(STRING), path # <<>>,
         \A i \in 1 .. Len(path) : path[i] # "..", Matches(parts, path),
         NEW named, named = components(parts),
         NEW first, first = FirstOf(named, Special)
  PROVE  /\ named # <<>>
         /\ first - 1 \in 0 .. Len(path)
         /\ \A i \in 1 .. first - 1 : path[i] = named[i]
         /\ first <= Len(named) => named[first] # ".."
         /\ Last(named) \in Globs \ {"**"} => Last(path) \in GlobNames[Last(named)]
<1>0. named \in Seq(STRING) /\ Len(named) \in Nat /\ Len(path) \in Nat \ {0}
      /\ DOMAIN named = 1 .. Len(named)
  BY ComponentsAre
<1>1. PICK cut \in [0 .. Len(named) -> 0 .. Len(path)] :
        /\ cut[0] = 0 /\ cut[Len(named)] = Len(path)
        /\ \A i \in DOMAIN named :
             IF named[i] = "**" THEN cut[i] >= cut[i - 1]
             ELSE /\ cut[i] = cut[i - 1] + 1
                  /\ IF named[i] \in Globs THEN path[cut[i]] \in GlobNames[named[i]]
                     ELSE path[cut[i]] = named[i]
  BY Zenon DEF Matches
<1>2. named # <<>>
  BY <1>0, <1>1
<1>3. /\ first \in 1 .. Len(named) + 1
      /\ \A i \in 1 .. first - 1 : named[i] \notin Special
      /\ first <= Len(named) => named[first] \in Special
  BY <1>0, FirstIs
<1> DEFINE T == {n \in 0 .. first - 1 : cut[n] = n}
<1>4. ASSUME NEW n \in 0 .. (first - 1) - 1, cut[n] = n
      PROVE  cut[n + 1] = n + 1 /\ path[n + 1] = named[n + 1]
  <2>1. n + 1 \in 1 .. first - 1 /\ n + 1 \in DOMAIN named /\ (n + 1) - 1 = n
    BY <1>0, <1>3
  <2>2. named[n + 1] \notin Globs /\ named[n + 1] # "**"
    <3>1. named[n + 1] \notin Special
      BY <1>3, <2>1
    <3> QED
      BY <3>1, GlobAssumption, Zenon DEF Special
  <2> QED
    BY <1>1, <1>4, <2>1, <2>2
<1>5. \A n \in 0 .. first - 1 : n \in T
  <2>1. first - 1 \in Nat
    BY <1>3
  <2>2. 0 \in T /\ \A n \in 0 .. (first - 1) - 1 : n \in T => n + 1 \in T
    BY <1>1, <1>3, <1>4
  <2> HIDE DEF T
  <2> QED
    BY <2>1, <2>2, Upwards
<1>6. ASSUME NEW i \in 1 .. first - 1 PROVE path[i] = named[i]
  <2>1. i - 1 \in 0 .. (first - 1) - 1 /\ (i - 1) + 1 = i
    BY <1>3
  <2>2. cut[i - 1] = i - 1
    BY <1>3, <1>5, <2>1
  <2> QED
    BY <1>4, <2>1, <2>2
<1>7. first - 1 \in 0 .. Len(path)
  <2>1. first - 1 \in 0 .. first - 1 /\ first - 1 \in 0 .. Len(named)
    BY <1>0, <1>3
  <2>2. cut[first - 1] = first - 1
    BY <1>5, <2>1
  <2> QED
    BY <1>1, <2>1, <2>2
<1>8. ASSUME first <= Len(named), named[first] = ".." PROVE FALSE
  <2>1. first \in DOMAIN named /\ first \in 0 .. Len(named)
    BY <1>0, <1>3, <1>8
  <2>2. named[first] \notin Globs /\ named[first] # "**"
    BY <1>8, GlobAssumption
  <2>3. cut[first] = cut[first - 1] + 1 /\ path[cut[first]] = ".."
    BY <1>1, <1>8, <2>1, <2>2
  <2>4. first - 1 \in 0 .. Len(named) /\ cut[first] \in 0 .. Len(path) /\ cut[first - 1] \in 0 .. Len(path)
    BY <1>1, <1>3, <1>0, <2>1
  <2>5. cut[first] \in 1 .. Len(path)
    BY <1>0, <2>3, <2>4
  <2> QED
    BY <2>3, <2>5
<1>9. ASSUME Last(named) \in Globs \ {"**"}
      PROVE  Last(path) \in GlobNames[Last(named)]
  <2>1. Last(named) = named[Len(named)] /\ Len(named) \in DOMAIN named /\ Last(path) = path[Len(path)]
    BY <1>0, <1>2 DEF Last
  <2> QED
    BY <1>1, <1>9, <2>1
<1> QED
  BY <1>2, <1>6, <1>7, <1>8, <1>9

(* A path without .. is what it says.                                      *)
LEMMA NormalizeIs ==
  ASSUME NEW path \in Seq(STRING), \A i \in 1 .. Len(path) : path[i] # ".."
  PROVE  normalize(path) = {path}
<1> DEFINE N == Len(path)
           Values == SUBSET Seq(STRING)
           start == {Root}
           step(n, t) == UNION {IF path[n] # ".." THEN {Append(p, path[n])}
                                ELSE IF p = Root THEN {} ELSE {Front(p)} : p \in t}
           G == [n \in 1 .. N |-> [t \in Values |-> step(n, t)]]
           Solution(f) == f = [n \in 0 .. N |-> IF n = 0 THEN start ELSE step(n, f[n - 1])]
           taken == CHOOSE f : Solution(f)
<1>1. N \in Nat /\ start \in Values
  <2>1. Root \in Seq(STRING)
    BY DEF Root
  <2> QED
    BY <2>1
<1>2. normalize(path) = taken[N]
  BY DEF normalize
<1>3. \A n \in 1 .. N : path[n] \in STRING /\ path[n] # ".."
  OBVIOUS
<1>4. \A n \in 1 .. N, t \in Values : step(n, t) = {Append(p, path[n]) : p \in t}
  BY <1>3
<1>5. \A n \in 1 .. N, t \in Values : step(n, t) \in Values
  <2> SUFFICES ASSUME NEW n \in 1 .. N, NEW t \in Values PROVE step(n, t) \in Values
    OBVIOUS
  <2>1. \A p \in t : Append(p, path[n]) \in Seq(STRING)
    BY <1>3
  <2>2. step(n, t) = {Append(p, path[n]) : p \in t}
    <3> HIDE DEF step, Values
    <3> QED
      BY <1>4
  <2> HIDE DEF step
  <2> QED
    BY <2>1, <2>2
<1>6. taken[0] = start /\ \A n \in 1 .. N : taken[n] = step(n, taken[n - 1])
  <2> HIDE DEF N, Values, start, step
  <2>1. PICK f : Solves(f, N, Values, start, G)
    <3>1. G \in [1 .. N -> [Values -> Values]]
      BY <1>5
    <3> HIDE DEF G
    <3> QED
      BY <1>1, <3>1, Recursion
  <2>2. Solution(f)
    BY <1>1, <2>1, Steps DEF Solves
  <2>3. Solution(taken)
    <3> HIDE DEF Solution
    <3> QED
      BY <2>2
  <2> HIDE DEF taken
  <2> QED
    BY <1>1, <2>3, Steps
<1> HIDE DEF taken
<1> DEFINE T == {n \in 0 .. N : taken[n] = {SubSeq(path, 1, n)}}
<1>7. 0 \in T
  <2>1. SubSeq(path, 1, 0) = <<>>
    OBVIOUS
  <2>2. taken[0] = {Root}
    BY <1>6
  <2>3. 0 \in 0 .. N
    BY <1>1
  <2> QED
    BY <2>1, <2>2, <2>3, Zenon DEF Root
<1>8. ASSUME NEW n \in 0 .. N - 1, n \in T
      PROVE  n + 1 \in T
  <2>1. n + 1 \in 1 .. N /\ (n + 1) - 1 = n /\ n \in 0 .. N
    BY <1>1
  <2> DEFINE q == SubSeq(path, 1, n)
  <2>2. q \in Seq(STRING) /\ Append(q, path[n + 1]) = SubSeq(path, 1, n + 1)
    BY <1>1, <2>1
  <2>3. taken[n + 1] = step(n + 1, {q})
    BY <1>6, <1>8, <2>1
  <2>4. step(n + 1, {q}) = {Append(q, path[n + 1])}
    <3> HIDE DEF q
    <3>1. {q} \in Values
      BY <2>2
    <3>2. step(n + 1, {q}) = {Append(p, path[n + 1]) : p \in {q}}
      <4> HIDE DEF step, Values
      <4> QED
        BY <1>4, <2>1, <3>1
    <3> HIDE DEF step
    <3> QED
      BY <3>2
  <2> QED
    BY <2>1, <2>2, <2>3, <2>4
<1>9. \A n \in 0 .. N : n \in T
  <2>1. \A n \in 0 .. N - 1 : n \in T => n + 1 \in T
    BY <1>8
  <2> HIDE DEF T, N
  <2> QED
    BY <1>1, <1>7, <2>1, Upwards
<1>10. SubSeq(path, 1, N) = path
  OBVIOUS
<1> QED
  BY <1>1, <1>2, <1>9, <1>10

(***************************************************************************)
(* The search.  Read says that a file was read, and what it names is found;*)
(* the inductive invariant that every file of the repository no one        *)
(* touched is read, or listed to be, or below a directory that is, unless  *)
(* the search is incomplete.                                               *)
(***************************************************************************)
Read(f) ==
  /\ disk[f].readable /\ ~ defective(ManifestOf[f], disk[f])
  /\ enumeration(f, disk[f]) \subseteq scan.rooted
  /\ \A w \in manifest(ManifestOf[f], disk[f].lines) :
       /\ root_pattern(w).roots \subseteq scan.rooted
       /\ root_pattern(w).suffixes \subseteq scan.suffixes

Reached(f) ==
  /\ scan.pc = "walk" =>
       f \in scan.files \/ \E d \in scan.pending : d \in Above(f) \cup {Root}
  /\ scan.pc = "analyze" => f \in scan.left \/ Read(f)
  /\ scan.pc = "done" => Read(f)

SearchInv ==
  /\ WalkInv
  /\ \A p \in Paths : disk[p] \in Entries[p]
  /\ \A f \in Own : scan.incomplete # {} \/ Reached(f)

(* Below a directory above a file something is listed that leads to it.    *)
LEMMA TowardsFile ==
  ASSUME NEW f \in Paths, NEW d \in Above(f) \cup {Root}
  PROVE  \E p \in Children(d) : p = f \/ p \in Above(f)
<1>1. f \in Seq(STRING) /\ Len(f) \in Nat \ {0}
  BY PathsAreSequences, EmptySeq
<1>2. PICK n \in 0 .. Len(f) - 1 : d = SubSeq(f, 1, n)
  <2>1. CASE d = Root
    <3>1. SubSeq(f, 1, 0) = <<>>
      OBVIOUS
    <3> QED
      BY <1>1, <2>1, <3>1 DEF Root
  <2>2. CASE d \in Above(f)
    BY <1>1, <2>2 DEF Above
  <2> QED
    BY <2>1, <2>2
<1> DEFINE p == SubSeq(f, 1, n + 1)
<1>3. Len(d) = n /\ Len(p) = n + 1 /\ p \in Seq(STRING) /\ d \in Seq(STRING)
  BY <1>1, <1>2
<1>4. IsPrefix(d, p)
  <2>1. SubSeq(p, 1, n) = d
    BY <1>1, <1>2
  <2>2. Len(d) <= Len(p) /\ d = SubSeq(p, 1, Len(d))
    BY <1>3, <2>1
  <2> QED
    BY <2>2 DEF IsPrefix
<1>5. p = f \/ p \in Above(f)
  <2>1. CASE n + 1 = Len(f)
    BY <1>1, <2>1
  <2>2. CASE n + 1 # Len(f)
    <3>1. n + 1 \in 1 .. Len(f) - 1
      BY <1>1, <1>2, <2>2
    <3> QED
      BY <3>1 DEF Above
  <2> QED
    BY <2>1, <2>2
<1>6. p \in Paths
  BY <1>5, NameAssumption
<1> HIDE DEF p
<1>7. p \in Children(d)
  BY <1>3, <1>4, <1>6 DEF Children, Under
<1> QED
  BY <1>5, <1>7

(* A directory of this repository is entered.                              *)
LEMMA OursAreEntered ==
  ASSUME NEW p, Ours(p)
  PROVE  ~ stops_the_walk(classify(disk[p].marks))
<1>1. classify(disk[p].marks) = bare_repository(disk[p].marks)
  BY DEF Ours, classify
<1>2. bare_repository(disk[p].marks) = "None"
  BY DEF Ours, bare_repository
<1> QED
  BY <1>1, <1>2 DEF stops_the_walk

(* A step that reads nothing and touches nothing.                          *)
LEMMA ReadStays ==
  ASSUME NEW f, Read(f), UNCHANGED disk, UNCHANGED <<scan.directories, scan.files>>,
         scan.rooted \subseteq scan'.rooted, scan.suffixes \subseteq scan'.suffixes
  PROVE  Read(f)'
<1>1. enumeration(f, disk[f])' = enumeration(f, disk[f])
  BY DEF enumeration, directories_for
<1> QED
  BY <1>1 DEF Read

LEMMA WalkReaches ==
  ASSUME SearchInv, NEW d \in scan.pending, walk(d), NEW f \in Own,
         scan.incomplete # {} \/ Reached(f)
  PROVE  (scan.incomplete # {} \/ Reached(f))'
<1> DEFINE inside  == {p \in Children(d) : disk[p].type = "dir"}
           bounded == {p \in inside : stops_the_walk(classify(disk[p].marks))}
           unclear == {p \in inside : classify(disk[p].marks) = "Unreadable"}
           seen    == {p \in Children(d) : disk[p].type = "file"}
<1>1. /\ scan.pc = "walk"
      /\ scan' = [scan EXCEPT !.pending     = (@ \ {d}) \cup (inside \ bounded),
                              !.directories = @ \cup (inside \ bounded),
                              !.files       = @ \cup seen,
                              !.incomplete  = @ \cup unclear]
  BY DEF walk
<1>2. ASSUME d \in Above(f) \cup {Root}
      PROVE  f \in seen \/ \E p \in inside \ bounded : p \in Above(f)
  <2>1. f \in Paths /\ disk[f].type = "file" /\ \A p \in Above(f) : disk[p].type = "dir" /\ Ours(p)
    BY DEF Own, StoodStill
  <2>2. PICK p \in Children(d) : p = f \/ p \in Above(f)
    BY <1>2, <2>1, TowardsFile
  <2> QED
    BY <2>1, <2>2, OursAreEntered
<1> HIDE DEF inside, bounded, unclear, seen
<1>3. /\ scan'.pc = "walk" /\ scan'.pending = (scan.pending \ {d}) \cup (inside \ bounded)
      /\ scan'.files = scan.files \cup seen
      /\ scan'.incomplete = scan.incomplete \cup unclear
  BY <1>1 DEF SearchInv, WalkInv
<1>4. CASE scan.incomplete # {}
  BY <1>3, <1>4
<1>5. CASE f \in scan.files
  BY <1>3, <1>5 DEF Reached
<1>6. ASSUME NEW e \in scan.pending, e \in Above(f) \cup {Root}
      PROVE  Reached(f)'
  <2>1. CASE e = d
    BY <1>2, <1>3, <1>6, <2>1 DEF Reached
  <2>2. CASE e # d
    BY <1>3, <1>6, <2>2 DEF Reached
  <2> QED
    BY <2>1, <2>2
<1> QED
  BY <1>1, <1>4, <1>5, <1>6 DEF Reached

LEMMA AnalyzeReaches ==
  ASSUME SearchInv, NEW p \in scan.left, analyze(p), NEW f \in Own,
         scan.incomplete # {} \/ Reached(f)
  PROVE  (scan.incomplete # {} \/ Reached(f))'
<1> DEFINE file == disk[p]
           kind == ManifestOf[p]
           found == {root_pattern(w) : w \in manifest(kind, file.lines)}
           left == scan.left \ {p}
           enumerated == scan.rooted \cup enumeration(p, file)
           broken == scan.incomplete \cup {p}
           named == enumerated \cup UNION {r.roots : r \in found}
           endings == scan.suffixes \cup UNION {r.suffixes : r \in found}
<1>1. scan.pc = "analyze" /\ UNCHANGED disk
  BY DEF analyze
<1>2. \/ scan' = [scan EXCEPT !.left = left, !.incomplete = broken]
      \/ scan' = [scan EXCEPT !.left = left, !.incomplete = broken, !.rooted = enumerated]
      \/ /\ file.readable /\ ~ defective(kind, file)
         /\ scan' = [scan EXCEPT !.left = left, !.rooted = named, !.suffixes = endings]
  BY Zenon DEF analyze
<1> HIDE DEF left, broken
<1>3. CASE \/ scan' = [scan EXCEPT !.left = left, !.incomplete = broken]
           \/ scan' = [scan EXCEPT !.left = left, !.incomplete = broken, !.rooted = enumerated]
  <2>1. scan'.incomplete = broken
    BY <1>3 DEF SearchInv, WalkInv
  <2> QED
    BY <2>1 DEF broken
<1>4. CASE /\ file.readable /\ ~ defective(kind, file)
           /\ scan' = [scan EXCEPT !.left = left, !.rooted = named, !.suffixes = endings]
  <2> HIDE DEF named, endings
  <2>1. /\ scan'.pc = "analyze" /\ scan'.left = left /\ scan'.rooted = named /\ scan'.suffixes = endings
        /\ UNCHANGED <<scan.directories, scan.files, scan.incomplete>>
    BY <1>1, <1>4 DEF SearchInv, WalkInv
  <2>2. CASE scan.incomplete # {}
    BY <2>1, <2>2
  <2>3. CASE f \in scan.left /\ f # p
    BY <2>1, <2>3 DEF Reached, left
  <2>4. CASE Read(f)
    <3>1. Read(f)'
      BY <1>1, <2>1, <2>4, ReadStays DEF named, endings
    <3> QED
      BY <2>1, <3>1 DEF Reached
  <2>5. CASE f = p
    <3>1. enumeration(p, file)' = enumeration(p, file)
      BY <1>1, <2>1 DEF enumeration, directories_for
    <3>2. Read(f)'
      BY <1>1, <1>4, <2>1, <2>5, <3>1 DEF Read, named, endings
    <3> QED
      BY <2>1, <3>2 DEF Reached
  <2> QED
    BY <1>1, <2>2, <2>3, <2>4, <2>5 DEF Reached
<1> QED
  BY <1>2, <1>3, <1>4

LEMMA ChangeReaches ==
  ASSUME SearchInv, NEW path \in Paths, Change(path), NEW f \in Own'
  PROVE  f \in Own /\ ((scan.incomplete # {} \/ Reached(f)) => (scan.incomplete # {} \/ Reached(f))')
<1>1. /\ UNCHANGED scan /\ aux_changed' = aux_changed \cup {path}
      /\ \E e : disk' = [disk EXCEPT ![path] = e]
  BY DEF Change
<1>2. /\ f \in Paths /\ (Above(f) \cup {f}) \cap aux_changed' = {} /\ disk'[f].type = "file"
      /\ \A p \in Above(f) : disk'[p].type = "dir" /\ Ours(p)'
  BY DEF Own, StoodStill
<1>3. Above(f) \subseteq Paths /\ DOMAIN disk = Paths
  BY <1>2, NameAssumption DEF SearchInv, WalkInv
<1>4. \A p \in Above(f) \cup {f} : disk'[p] = disk[p] /\ p \notin aux_changed
  BY <1>1, <1>2, <1>3
<1>5. f \in Own
  BY <1>2, <1>4 DEF Own, StoodStill, Ours
<1>6. Read(f)' <=> Read(f)
  BY <1>1, <1>4 DEF Read, enumeration, directories_for
<1> QED
  BY <1>1, <1>5, <1>6 DEF Reached

LEMMA SearchInductive == SearchInv /\ [ReachNext]_reachVars => SearchInv'
<1> SUFFICES ASSUME SearchInv, [ReachNext]_reachVars
             PROVE  SearchInv'
  OBVIOUS
<1>1. WalkInv'
  BY WalkInductive DEF SearchInv
<1>2. (\A p \in Paths : disk[p] \in Entries[p])'
  <2>1. UNCHANGED disk \/ \E path \in Paths : \E e \in Entries[path] : disk' = [disk EXCEPT ![path] = e]
    BY DEF ReachNext, reachVars, Begin, walk, ListingFails, Walked, analyze, Analyzed, Change
  <2> QED
    BY <2>1 DEF SearchInv, WalkInv
<1>3. ASSUME UNCHANGED <<disk, aux_changed>>,
             \A f \in Own : scan.incomplete # {} \/ Reached(f) => (scan.incomplete # {} \/ Reached(f))'
      PROVE  SearchInv'
  <2>1. Own' = Own
    BY <1>3 DEF Own, StoodStill, Ours
  <2> QED
    BY <1>1, <1>2, <1>3, <2>1 DEF SearchInv
<1>4. CASE Begin
  <2>1. scan'.pc = "walk" /\ scan'.pending = {Root}
    BY <1>4 DEF Begin, SearchInv, WalkInv
  <2> QED
    BY <1>1, <1>2, <2>1 DEF SearchInv, Reached
<1>5. ASSUME NEW d \in scan.pending, walk(d) PROVE SearchInv'
  <2>1. UNCHANGED <<disk, aux_changed>>
    BY <1>5 DEF walk
  <2> QED
    BY <1>3, <1>5, <2>1, WalkReaches
<1>6. ASSUME NEW d \in scan.pending, ListingFails(d) PROVE SearchInv'
  <2>1. UNCHANGED <<disk, aux_changed>> /\ d \in scan'.incomplete
    BY <1>6 DEF ListingFails, SearchInv, WalkInv
  <2> QED
    BY <1>3, <2>1
<1>7. CASE Walked
  <2>1. /\ UNCHANGED <<disk, aux_changed>> /\ scan.pc = "walk" /\ scan.pending = {}
        /\ scan'.pc = "analyze" /\ scan'.left = scan.files /\ scan'.incomplete = scan.incomplete
    BY <1>7 DEF Walked, SearchInv, WalkInv
  <2> QED
    BY <1>3, <2>1 DEF Reached
<1>8. ASSUME NEW p \in scan.left, analyze(p) PROVE SearchInv'
  <2>1. UNCHANGED <<disk, aux_changed>>
    BY <1>8 DEF analyze
  <2> QED
    BY <1>3, <1>8, <2>1, AnalyzeReaches
<1>9. CASE Analyzed
  <2>1. /\ UNCHANGED <<disk, aux_changed>> /\ scan.pc = "analyze" /\ scan.left = {}
        /\ scan'.pc = "done"
        /\ UNCHANGED <<scan.directories, scan.files, scan.rooted, scan.suffixes, scan.incomplete>>
    BY <1>9 DEF Analyzed, SearchInv, WalkInv
  <2>2. \A f : Read(f) => Read(f)'
    BY <2>1, ReadStays
  <2> QED
    BY <1>3, <2>1, <2>2 DEF Reached
<1>10. ASSUME NEW path \in Paths, Change(path) PROVE SearchInv'
  BY <1>1, <1>2, <1>10, ChangeReaches DEF SearchInv
<1>11. CASE UNCHANGED reachVars
  <2>1. UNCHANGED <<disk, aux_changed>> /\ UNCHANGED scan
    BY <1>11 DEF reachVars
  <2>2. \A f : Read(f) => Read(f)'
    BY <2>1, ReadStays
  <2> QED
    BY <1>3, <2>1, <2>2 DEF Reached
<1> QED
  BY <1>4, <1>5, <1>6, <1>7, <1>8, <1>9, <1>10, <1>11 DEF ReachNext

(* A pattern of a file that was read, or a literal of one that enumerates, *)
(* leaves no candidate it means unvetoed.                                  *)
LEMMA PrefixRoots ==
  ASSUME NEW c \in Seq(STRING), NEW k \in 0 .. Len(c), NEW named \in Seq(STRING),
         NEW n \in 0 .. k, n <= Len(named),
         \A i \in 1 .. n : c[i] = named[i],
         SubSeq(named, 1, n) \in scan.rooted
  PROVE  vetoed(c)
<1> DEFINE p == SubSeq(named, 1, n)
<1>1. Len(c) \in Nat /\ n \in 0 .. Len(c) /\ n \in Nat
  OBVIOUS
<1>2. p = SubSeq(c, 1, n)
  BY <1>1
<1>3. Len(p) = n
  BY <1>1
<1>4. IsPrefix(p, c)
  BY <1>1, <1>2, <1>3 DEF IsPrefix
<1> QED
  BY <1>4 DEF vetoed, Under

LEMMA PatternReaches ==
  ASSUME NEW w, w.parts \in Seq(STRING), NEW c \in Paths, NEW n \in 1 .. Len(c),
         root_pattern(w).roots \subseteq scan.rooted,
         root_pattern(w).suffixes \subseteq scan.suffixes,
         Names(w, SubSeq(c, 1, n)), ~ vetoed(c)
  PROVE  n < Len(c) /\ ~ StartsWithName(w)
<1> DEFINE parts == w.parts
           path == SubSeq(c, 1, n)
<1>1. c \in Seq(STRING) /\ Len(c) \in Nat /\ \A i \in 1 .. Len(c) : c[i] # ".."
  <2>1. c \in Seq(STRING) /\ ".." \notin Range(c)
    BY PathsAreSequences, NameAssumption, Zenon
  <2>2. \A i \in 1 .. Len(c) : c[i] \in Range(c)
    BY <2>1 DEF Range
  <2> QED
    BY <2>1, <2>2
<1>2. /\ path \in Seq(STRING) /\ Len(path) = n /\ path # <<>>
      /\ \A i \in 1 .. n : path[i] = c[i] /\ path[i] # ".."
  BY <1>1
<1>3. ~ w.outside /\ parts # <<>> /\ Matches(parts, path)
  BY DEF Names
<1> HIDE DEF path, parts
<1>4. PICK named : named = components(parts)
  OBVIOUS
<1>5. PICK first : first = FirstOf(named, Special)
  OBVIOUS
<1>6. parts \in Seq(STRING)
  BY DEF parts
<1>7. /\ named # <<>>
      /\ first - 1 \in 0 .. n
      /\ \A i \in 1 .. first - 1 : path[i] = named[i]
      /\ first <= Len(named) => named[first] # ".."
      /\ Last(named) \in Globs \ {"**"} => Last(path) \in GlobNames[Last(named)]
  BY <1>2, <1>3, <1>4, <1>5, <1>6, MatchStarts
<1>8. /\ named \in Seq(STRING) /\ parts # <<".">>
      /\ Last(parts) \in Globs => Last(named) = Last(parts)
  BY <1>3, <1>4, <1>6, <1>7, ComponentsAre
<1>9. /\ first \in 1 .. Len(named) + 1
      /\ \A i \in 1 .. first - 1 : named[i] \notin Special
      /\ first <= Len(named) => named[first] \in Special
  BY <1>5, <1>8, FirstIs
<1>10. root_pattern(w) =
         IF first > 1 THEN Rooted(SubSeq(named, 1, first - 1))
         ELSE IF Last(parts) \in Globs /\ SuffixOf[Last(parts)] # {}
           THEN [roots |-> {}, suffixes |-> SuffixOf[Last(parts)]]
         ELSE Rooted(Root)
  BY <1>3, <1>4, <1>5, <1>7, <1>8, Zenon DEF root_pattern, parts, Special
<1>11. first = 1
  <2> SUFFICES ASSUME first # 1 PROVE FALSE
    OBVIOUS
  <2>1. first > 1
    BY <1>9
  <2>2. SubSeq(named, 1, first - 1) \in scan.rooted
    <3>1. PICK p : p = SubSeq(named, 1, first - 1)
      OBVIOUS
    <3>2. root_pattern(w) = Rooted(p)
      BY <1>10, <2>1, <3>1
    <3> QED
      BY <3>1, <3>2 DEF Rooted
  <2>3. first - 1 \in 0 .. n /\ first - 1 <= Len(named) /\ \A i \in 1 .. first - 1 : c[i] = named[i]
    BY <1>2, <1>7, <1>8, <1>9
  <2>4. n \in 0 .. Len(c)
    BY <1>1
  <2> QED
    BY <1>1, <1>8, <2>2, <2>3, <2>4, PrefixRoots
<1>12. ~ StartsWithName(w)
  <2>1. Head(named) = named[1] /\ 1 <= Len(named)
    BY <1>7, <1>8
  <2>2. named[1] \in Globs
    BY <1>7, <1>9, <1>11, <2>1 DEF Special
  <2> QED
    BY <1>4, <2>1, <2>2 DEF StartsWithName, parts
<1>13. n # Len(c)
  <2> SUFFICES ASSUME n = Len(c) PROVE FALSE
    OBVIOUS
  <2>1. Last(path) = Last(c)
    BY <1>1, <1>2 DEF Last
  <2>2. CASE Last(parts) \in Globs /\ SuffixOf[Last(parts)] # {}
    <3>1. PICK s : SuffixOf[Last(parts)] = {s}
      BY <2>2, GlobAssumption, Zenon
    <3>2. s \in scan.suffixes
      BY <1>10, <1>11, <2>2, <3>1
    <3>3. Last(parts) # "**"
      BY <2>2, GlobAssumption, Zenon
    <3>4. Last(c) \in GlobNames[Last(parts)]
      BY <1>7, <1>8, <2>1, <2>2, <3>3
    <3>5. HasSuffix(Last(c), s)
      BY <2>2, <3>1, <3>4 DEF HasSuffix
    <3> QED
      BY <3>2, <3>5 DEF vetoed
  <2>3. CASE ~ (Last(parts) \in Globs /\ SuffixOf[Last(parts)] # {})
    <3>1. Root \in scan.rooted
      BY <1>10, <1>11, <2>3 DEF Rooted
    <3>2. IsPrefix(Root, c)
      BY <1>1, EmptySeq DEF IsPrefix, Root
    <3> QED
      BY <3>1, <3>2 DEF vetoed, Under
  <2> QED
    BY <2>2, <2>3
<1> QED
  BY <1>1, <1>12, <1>13

LEMMA LiteralReaches ==
  ASSUME WalkInv, NEW source \in Paths, NEW l, l.parts \in Seq(STRING), ~ l.outside,
         NEW c \in Paths, components(l.parts) \in Above(c) \cap scan.directories,
         directories_for(source, l) \subseteq scan.rooted, ~ vetoed(c)
  PROVE  ~ StartsWithName(l)
<1> SUFFICES ASSUME StartsWithName(l) PROVE FALSE
  OBVIOUS
<1>1. PICK named : named = components(l.parts)
  OBVIOUS
<1>2. PICK first : first = FirstOf(named, Globs)
  OBVIOUS
<1>3. named \in Seq(STRING) /\ named \in Paths /\ named \in scan.directories
  BY <1>1, ComponentsAre, NameAssumption
<1>4. /\ first \in 1 .. Len(named) + 1
      /\ first <= Len(named) => named[first] \in Globs
  BY <1>2, <1>3, FirstIs
<1>5. named # <<>> /\ Len(named) \in Nat \ {0} /\ \A i \in 1 .. Len(named) : named[i] # ".."
  <2>1. named # <<>> /\ ".." \notin Range(named)
    BY <1>3, PathsAreSequences, NameAssumption, Zenon
  <2>2. \A i \in 1 .. Len(named) : named[i] \in Range(named)
    BY <1>3 DEF Range
  <2> QED
    BY <1>3, <2>1, <2>2
<1>6. first > 1
  <2>1. Head(named) = named[1]
    BY <1>3, <1>5
  <2> QED
    BY <1>1, <1>4, <1>5, <2>1 DEF StartsWithName
<1> DEFINE prefix == SubSeq(named, 1, first - 1)
<1>7. /\ prefix \in Seq(STRING) /\ Len(prefix) = first - 1 /\ prefix # <<>>
      /\ \A i \in 1 .. Len(prefix) : prefix[i] = named[i] /\ prefix[i] # ".."
  BY <1>3, <1>4, <1>5, <1>6
<1>8. prefix = named \/ prefix \in Above(named)
  <2>1. CASE first - 1 = Len(named)
    BY <1>3, <2>1
  <2>2. CASE first - 1 # Len(named)
    <3>1. first - 1 \in 1 .. Len(named) - 1
      BY <1>4, <1>5, <1>6, <2>2
    <3> QED
      BY <3>1 DEF Above
  <2> QED
    BY <2>1, <2>2
<1>9. prefix \in scan.directories
  <2>1. named \in scan.directories \ {Root}
    BY <1>3, <1>5 DEF Root
  <2> QED
    BY <1>3, <1>8, <2>1 DEF WalkInv
<1>10. prefix \in scan.rooted
  <2> HIDE DEF prefix
  <2>1. normalize(prefix) = {prefix}
    BY <1>7, NormalizeIs
  <2>2. prefix # Root
    BY <1>7 DEF Root
  <2>3. prefix \in directories_for(source, l)
    BY <1>1, <1>2, <1>7, <1>9, <2>1, <2>2 DEF directories_for, prefix
  <2> QED
    BY <2>3
<1>11. c \in Seq(STRING)
  BY PathsAreSequences
<1>12. PICK k \in 1 .. Len(c) - 1 : named = SubSeq(c, 1, k)
  BY <1>1 DEF Above
<1>13. /\ k \in 0 .. Len(c) /\ first - 1 \in 0 .. k /\ first - 1 <= Len(named)
       /\ \A i \in 1 .. first - 1 : c[i] = named[i]
  BY <1>3, <1>4, <1>6, <1>11, <1>12
<1> QED
  BY <1>3, <1>10, <1>11, <1>13, PrefixRoots

(* Whatever the order of the walk and whatever the user does meanwhile, a  *)
(* candidate is cleared only if no file of the repository that stood still *)
(* reaches it.                                                             *)
THEOREM Unreached == ReachSpec => []ClearedIsUnreached
<1>1. ReachInit => SearchInv
  <2> SUFFICES ASSUME ReachInit PROVE SearchInv
    OBVIOUS
  <2>1. DOMAIN disk = Paths /\ \A p \in Paths : disk[p] \in Entries[p]
    BY DEF ReachInit
  <2>2. WalkInv
    BY DEF ReachInit, WalkInv
  <2> QED
    BY <2>1, <2>2 DEF ReachInit, SearchInv, Reached
<1>2. SearchInv => ClearedIsUnreached
  <2> SUFFICES ASSUME SearchInv, scan.pc = "done",
                      NEW c \in Paths, ~ vetoed(c), NEW f \in Own
               PROVE  /\ disk[f].readable /\ ~ defective(ManifestOf[f], disk[f])
                      /\ disk[f].enumerates =>
                           /\ ~ Under(Parent(f), c)
                           /\ \A l \in disk[f].literals :
                                components(l.parts) \in Above(c) \cap scan.directories
                                  => l.outside \/ ~ StartsWithName(l)
                      /\ \A w \in manifest(ManifestOf[f], disk[f].lines) : \A n \in 1 .. Len(c) :
                           Names(w, SubSeq(c, 1, n)) => n < Len(c) /\ ~ StartsWithName(w)
    BY DEF ClearedIsUnreached
  <2>1. f \in Paths /\ disk[f] \in Entries[f] /\ WalkInv
    BY DEF Own, StoodStill, SearchInv
  <2>2. Read(f)
    BY DEF SearchInv, Reached, vetoed
  <2>3. \A l \in disk[f].literals \cup manifest(ManifestOf[f], disk[f].lines) : l.parts \in Seq(STRING)
    BY <2>1, PatternAssumption
  <2>4. ASSUME disk[f].enumerates
        PROVE  /\ ~ Under(Parent(f), c)
               /\ \A l \in disk[f].literals :
                    components(l.parts) \in Above(c) \cap scan.directories
                      => l.outside \/ ~ StartsWithName(l)
    <3>1. Parent(f) \in scan.rooted /\ \A l \in disk[f].literals : directories_for(f, l) \subseteq scan.rooted
      BY <2>2, <2>4 DEF Read, enumeration
    <3>2. ~ Under(Parent(f), c)
      BY <3>1 DEF vetoed
    <3> QED
      BY <2>1, <2>3, <3>1, <3>2, LiteralReaches
  <2>5. ASSUME NEW w \in manifest(ManifestOf[f], disk[f].lines), NEW n \in 1 .. Len(c),
               Names(w, SubSeq(c, 1, n))
        PROVE  n < Len(c) /\ ~ StartsWithName(w)
    BY <2>2, <2>3, <2>5, PatternReaches DEF Read
  <2> QED
    BY <2>2, <2>4, <2>5 DEF Read
<1> QED
  BY <1>1, <1>2, SearchInductive, PTL DEF ReachSpec

-----------------------------------------------------------------------------
(* YAML values. *)
(* kind is that of the innermost known key among the first n of keys.      *)
Governs(keys, n, kind) ==
  \/ kind = "None" /\ \A i \in 1 .. n : keys[i] = "None"
  \/ /\ kind # "None"
     /\ \E j \in 1 .. n : keys[j] = kind /\ \A i \in j + 1 .. n : keys[i] = "None"

(* Looking for the innermost known key finds the kind that governs.        *)
LEMMA NearestGoverns ==
  ASSUME NEW kind, Governs(aux_keys, Len(aux_keys), kind), aux_keys \in Seq(YamlKinds)
  PROVE  NearestKey = kind
<1> DEFINE known == {i \in DOMAIN aux_keys : aux_keys[i] # "None"}
<1>1. DOMAIN aux_keys = 1 .. Len(aux_keys) /\ Len(aux_keys) \in Nat
  OBVIOUS
<1>2. CASE kind = "None"
  <2>1. known = {}
    BY <1>1, <1>2 DEF Governs
  <2> QED
    BY <2>1, <1>2 DEF NearestKey
<1>3. CASE kind # "None"
  <2>1. PICK j \in 1 .. Len(aux_keys) :
          aux_keys[j] = kind /\ \A i \in j + 1 .. Len(aux_keys) : aux_keys[i] = "None"
    BY <1>3 DEF Governs
  <2>2. j \in known /\ known \subseteq Int
    BY <2>1, <1>1, <1>3
  <2>3. ASSUME NEW x \in known PROVE x <= j
    BY <2>1, <1>1
  <2>4. Max(known) = j
    <3> HIDE DEF known
    <3> QED BY <2>2, <2>3, MaxIs
  <2> QED
    BY <2>1, <2>2, <2>4 DEF NearestKey
<1> QED
  BY <1>2, <1>3

(***************************************************************************)
(* The inductive invariant: one key per open collection; a collection was  *)
(* opened under the kind that governed above it; and it expects a key, or  *)
(* a value under the kind that governs in it.                              *)
(***************************************************************************)
Frames == [form : {"Sequence", "Mapping"}, kind : YamlKinds, expects : YamlKinds \cup {"Key"}]

StackInv ==
  /\ stack \in Seq(Frames)
  /\ aux_keys \in Seq(YamlKinds)
  /\ Len(stack) = Len(aux_keys)

OpenedUnder(i) == Governs(aux_keys, i - 1, stack[i].kind)

InForce(i) ==
  IF stack[i].form = "Mapping"
    THEN stack[i].expects = "Key" \/ Governs(aux_keys, i, stack[i].expects)
    ELSE aux_keys[i] = "None" /\ stack[i].expects = stack[i].kind

FramesInv == \A i \in 1 .. Len(stack) : OpenedUnder(i) /\ InForce(i)

YamlInv == StackInv /\ FramesInv /\ NearestKeyWins

(* Whoever expects a value expects it under the kind that governs.         *)
LEMMA ExpectedGoverns ==
  ASSUME StackInv, FramesInv, expected # "Key"
  PROVE  expected \in YamlKinds /\ Governs(aux_keys, Len(aux_keys), expected)
<1>1. CASE stack = <<>>
  BY <1>1 DEF expected, Governs, StackInv, YamlKinds
<1>2. CASE stack # <<>>
  <2> DEFINE n == Len(stack)
  <2>1. n \in Nat \ {0} /\ stack[n] \in Frames /\ Last(stack) = stack[n]
    BY <1>2 DEF StackInv, Last
  <2>2. expected = stack[n].expects
    BY <1>2, <2>1 DEF expected
  <2>3. OpenedUnder(n) /\ InForce(n)
    BY <2>1 DEF FramesInv
  <2>4. CASE stack[n].form = "Mapping"
    BY <2>1, <2>2, <2>3, <2>4 DEF InForce, StackInv, Frames
  <2>5. CASE stack[n].form # "Mapping"
    <3>1. aux_keys[n] = "None" /\ expected = stack[n].kind /\ Governs(aux_keys, n - 1, expected)
      BY <2>2, <2>3, <2>5 DEF InForce, OpenedUnder
    <3>2. Governs(aux_keys, n, expected)
      BY <2>1, <3>1 DEF Governs
    <3> QED
      BY <2>1, <2>2, <3>1, <3>2 DEF StackInv, Frames
  <2> QED
    BY <2>4, <2>5
<1> QED
  BY <1>1, <1>2

(* What governs the first n keys looks at no other.                        *)
LEMMA GovernsPrefix ==
  ASSUME NEW keys, NEW others, NEW n \in Nat, NEW kind,
         \A i \in 1 .. n : keys[i] = others[i], Governs(keys, n, kind)
  PROVE  Governs(others, n, kind)
BY DEF Governs

(* A key changes the mapping it is in: the key governs, or if it is not    *)
(* known what governed where the mapping was opened.                       *)
LEMMA KeyKeeps ==
  ASSUME YamlInv, NEW kind \in YamlKinds, ScalarKey(kind)
  PROVE  YamlInv'
<1>0. PICK n \in Nat : n = Len(stack)
  BY DEF YamlInv, StackInv
<1> DEFINE next == or_inherited(kind)
<1>1. stack # <<>> /\ Last(stack) = stack[n] /\ stack[n].expects = "Key"
  BY <1>0 DEF ScalarKey, expected, Last
<1>2. n \in Nat \ {0} /\ stack[n] \in Frames /\ n = Len(aux_keys)
  BY <1>0, <1>1 DEF YamlInv, StackInv
<1>3. OpenedUnder(n) /\ InForce(n)
  BY <1>0, <1>2 DEF YamlInv, FramesInv
<1>4. stack[n].form = "Mapping"
  BY <1>1, <1>2, <1>3 DEF InForce, Frames, YamlKinds
<1>5. next \in YamlKinds /\ next = IF kind = "None" THEN stack[n].kind ELSE kind
  BY <1>1, <1>2, <1>4 DEF or_inherited, inherited, Frames
<1>6. stack' = [stack EXCEPT ![n] = [@ EXCEPT !.expects = next]]
  BY <1>0, <1>1, <1>4 DEF ScalarKey, consumed
<1>7. aux_keys' = [aux_keys EXCEPT ![n] = kind]
  BY <1>2 DEF ScalarKey
<1> HIDE DEF next
<1>8. StackInv'
  <2>1. [stack[n] EXCEPT !.expects = next] \in Frames
    BY <1>2, <1>5 DEF Frames
  <2> QED
    BY <2>1, <1>2, <1>6, <1>7 DEF YamlInv, StackInv
<1>9. Len(stack') = n
  BY <1>0, <1>2, <1>6 DEF YamlInv, StackInv
<1>10. ASSUME NEW i \in 1 .. n, i # n
       PROVE  OpenedUnder(i)' /\ InForce(i)'
  <2>1. stack'[i] = stack[i] /\ \A k \in 1 .. i : aux_keys'[k] = aux_keys[k]
    BY <1>0, <1>2, <1>6, <1>7, <1>10 DEF YamlInv, StackInv
  <2>2. OpenedUnder(i) /\ InForce(i)
    BY <1>0 DEF YamlInv, FramesInv
  <2> QED
    BY <2>1, <2>2 DEF OpenedUnder, InForce, Governs
<1>11. OpenedUnder(n)' /\ InForce(n)'
  <2>1. stack'[n].form = "Mapping" /\ stack'[n].kind = stack[n].kind /\ stack'[n].expects = next
    BY <1>0, <1>2, <1>4, <1>6 DEF YamlInv, StackInv, Frames
  <2>2. aux_keys'[n] = kind /\ \A k \in 1 .. n - 1 : aux_keys'[k] = aux_keys[k]
    BY <1>2, <1>7 DEF YamlInv, StackInv
  <2>3. Governs(aux_keys', n - 1, stack[n].kind)
    BY <1>2, <1>3, <2>2 DEF OpenedUnder, Governs
  <2>4. Governs(aux_keys', n, next)
    BY <1>2, <1>5, <2>2, <2>3 DEF Governs
  <2> QED
    BY <2>1, <2>3, <2>4 DEF OpenedUnder, InForce
<1>12. NearestKeyWins'
  BY DEF YamlInv, ScalarKey, NearestKeyWins
<1> QED
  BY <1>8, <1>9, <1>10, <1>11, <1>12 DEF YamlInv, FramesInv

(* A value that has arrived leaves its mapping waiting for a key.          *)
LEMMA ConsumedKeeps ==
  ASSUME YamlInv
  PROVE  /\ consumed("Key") \in Seq(Frames) /\ Len(consumed("Key")) = Len(stack)
         /\ \A i \in 1 .. Len(stack) :
              /\ consumed("Key")[i].form = stack[i].form
              /\ consumed("Key")[i].kind = stack[i].kind
              /\ \/ consumed("Key")[i].expects = stack[i].expects
                 \/ stack[i].form = "Mapping" /\ consumed("Key")[i].expects = "Key"
<1>1. CASE stack # <<>> /\ Last(stack).form = "Mapping"
  <2> DEFINE n == Len(stack)
  <2>1. n \in Nat \ {0} /\ Last(stack) = stack[n] /\ stack \in Seq(Frames) /\ stack[n] \in Frames
    BY <1>1 DEF YamlInv, StackInv, Last
  <2>2. consumed("Key") = [stack EXCEPT ![n] = [@ EXCEPT !.expects = "Key"]]
    BY <1>1 DEF consumed
  <2>3. [stack[n] EXCEPT !.expects = "Key"] \in Frames
    BY <2>1 DEF Frames
  <2>4. ASSUME NEW i \in 1 .. n, i # n
        PROVE  consumed("Key")[i] = stack[i]
    BY <2>1, <2>2, <2>4
  <2>5. consumed("Key")[n] = [stack[n] EXCEPT !.expects = "Key"]
    BY <2>1, <2>2
  <2> QED
    BY <1>1, <2>1, <2>2, <2>3, <2>4, <2>5 DEF Frames
<1>2. CASE ~ (stack # <<>> /\ Last(stack).form = "Mapping")
  BY <1>2 DEF consumed, YamlInv, StackInv
<1> QED
  BY <1>1, <1>2

(* The frames that stay below keep what they are, whatever happens above.  *)
LEMMA FramesStay ==
  ASSUME YamlInv, NEW m \in 0 .. Len(stack),
         \A i \in 1 .. m :
           /\ stack'[i].form = stack[i].form /\ stack'[i].kind = stack[i].kind
           /\ \/ stack'[i].expects = stack[i].expects
              \/ stack[i].form = "Mapping" /\ stack'[i].expects = "Key",
         \A i \in 1 .. m : aux_keys'[i] = aux_keys[i]
  PROVE  \A i \in 1 .. m : OpenedUnder(i)' /\ InForce(i)'
<1> SUFFICES ASSUME NEW i \in 1 .. m
             PROVE  OpenedUnder(i)' /\ InForce(i)'
  OBVIOUS
<1>0. Len(stack) \in Nat
  BY DEF YamlInv, StackInv
<1>1. OpenedUnder(i) /\ InForce(i)
  BY <1>0 DEF YamlInv, FramesInv
<1>2. \A k \in 1 .. i : aux_keys'[k] = aux_keys[k]
  BY <1>0
<1>3. OpenedUnder(i)'
  BY <1>0, <1>1, <1>2 DEF OpenedUnder, Governs
<1>4. InForce(i)'
  BY <1>0, <1>1, <1>2 DEF InForce, Governs
<1> QED
  BY <1>3, <1>4

(* A scalar is collected under the kind that governs.                      *)
LEMMA ValueKeeps ==
  ASSUME YamlInv, ScalarValue
  PROVE  YamlInv'
<1>1. stack' = consumed("Key") /\ UNCHANGED aux_keys
  BY DEF ScalarValue
<1>2. StackInv'
  BY <1>1, ConsumedKeeps DEF YamlInv, StackInv
<1>3. Len(stack) \in Nat /\ Len(stack') = Len(stack)
  BY <1>1, ConsumedKeeps DEF YamlInv, StackInv
<1>4. \A i \in 1 .. Len(stack) : OpenedUnder(i)' /\ InForce(i)'
  BY <1>1, <1>3, ConsumedKeeps, FramesStay
<1>5. NearestKey = expected
  BY ExpectedGoverns, NearestGoverns DEF YamlInv, ScalarValue, StackInv
<1>6. NearestKeyWins'
  BY <1>5 DEF YamlInv, NearestKeyWins, ScalarValue
<1> QED
  BY <1>2, <1>3, <1>4, <1>6 DEF YamlInv, FramesInv

(* A collection opens under the kind that governs.                         *)
LEMMA StartKeeps ==
  ASSUME YamlInv, NEW form \in {"Sequence", "Mapping"}, CollectionStart(form)
  PROVE  YamlInv'
<1>0. PICK n \in Nat : n = Len(stack)
  BY DEF YamlInv, StackInv
<1> DEFINE top == Frame(form, expected)
<1>1. stack' = Append(consumed("Key"), top) /\ aux_keys' = Append(aux_keys, "None")
  BY DEF CollectionStart
<1>2. expected \in YamlKinds /\ Governs(aux_keys, n, expected)
  BY <1>0, ExpectedGoverns DEF YamlInv, StackInv, CollectionStart
<1>3. /\ top \in Frames /\ top.form = form /\ top.kind = expected
      /\ top.expects = IF form = "Mapping" THEN "Key" ELSE expected
  BY <1>2 DEF Frame, Frames
<1> HIDE DEF top
<1>4. n \in Nat /\ n = Len(aux_keys) /\ aux_keys \in Seq(YamlKinds)
  BY <1>0 DEF YamlInv, StackInv
<1>5. /\ Len(stack') = n + 1 /\ stack'[n + 1] = top
      /\ \A i \in 1 .. n : stack'[i] = consumed("Key")[i]
  BY <1>0, <1>1, <1>3, <1>4, ConsumedKeeps
<1>6. aux_keys'[n + 1] = "None" /\ \A i \in 1 .. n : aux_keys'[i] = aux_keys[i]
  BY <1>1, <1>4
<1>7. StackInv'
  BY <1>0, <1>1, <1>3, <1>4, ConsumedKeeps DEF StackInv, YamlKinds
<1>8. \A i \in 1 .. n : OpenedUnder(i)' /\ InForce(i)'
  BY <1>0, <1>4, <1>5, <1>6, ConsumedKeeps, FramesStay
<1>9. OpenedUnder(n + 1)' /\ InForce(n + 1)'
  <2>1. Governs(aux_keys', n, expected)
    BY <1>2, <1>4, <1>6, GovernsPrefix
  <2>2. stack'[n + 1].kind = expected
    BY <1>3, <1>5
  <2>3. OpenedUnder(n + 1)'
    BY <1>4, <2>1, <2>2 DEF OpenedUnder
  <2>4. InForce(n + 1)'
    BY <1>3, <1>5, <1>6 DEF InForce
  <2> QED
    BY <2>3, <2>4
<1>10. NearestKeyWins'
  BY DEF YamlInv, NearestKeyWins, CollectionStart
<1> QED
  BY <1>4, <1>5, <1>7, <1>8, <1>9, <1>10 DEF YamlInv, FramesInv

(* What a collection leaves when it ends is what was below it.             *)
LEMMA EndKeeps ==
  ASSUME YamlInv, CollectionEnd
  PROVE  YamlInv'
<1> DEFINE n == Len(stack)
<1>1. /\ n \in Nat \ {0} /\ n = Len(aux_keys)
      /\ stack \in Seq(Frames) /\ aux_keys \in Seq(YamlKinds) /\ aux_keys # <<>> /\ stack # <<>>
  BY DEF YamlInv, StackInv, CollectionEnd
<1>2. stack' = SubSeq(stack, 1, n - 1) /\ aux_keys' = SubSeq(aux_keys, 1, n - 1)
  BY <1>1 DEF CollectionEnd, Front
<1>3. /\ stack' \in Seq(Frames) /\ Len(stack') = n - 1
      /\ aux_keys' \in Seq(YamlKinds) /\ Len(aux_keys') = n - 1
      /\ \A i \in 1 .. n - 1 : stack'[i] = stack[i] /\ aux_keys'[i] = aux_keys[i]
  BY <1>1, <1>2
<1>4. StackInv'
  BY <1>3 DEF StackInv
<1>5. n - 1 \in 0 .. Len(stack)
  BY <1>1
<1>6. \A i \in 1 .. n - 1 : OpenedUnder(i)' /\ InForce(i)'
  BY <1>3, <1>5, FramesStay
<1>7. NearestKeyWins'
  BY DEF YamlInv, NearestKeyWins, CollectionEnd
<1> QED
  BY <1>3, <1>4, <1>6, <1>7 DEF YamlInv, FramesInv

(* An alias that is not collected only takes its turn.                     *)
LEMMA AliasKeeps ==
  ASSUME YamlInv, Alias
  PROVE  YamlInv'
<1>1. stack' = consumed("Key") /\ UNCHANGED <<aux_keys, out, aux_due>>
  BY DEF Alias
<1>2. Len(stack) \in Nat /\ Len(stack') = Len(stack) /\ StackInv'
  BY <1>1, ConsumedKeeps DEF YamlInv, StackInv
<1>3. \A i \in 1 .. Len(stack) : OpenedUnder(i)' /\ InForce(i)'
  BY <1>1, <1>2, ConsumedKeeps, FramesStay
<1> QED
  BY <1>1, <1>2, <1>3 DEF YamlInv, FramesInv, NearestKeyWins

(* The invariant is inductive.                                             *)
LEMMA YamlInductive == YamlInv /\ [YamlNext]_yamlVars => YamlInv'
<1> SUFFICES ASSUME YamlInv, [YamlNext]_yamlVars
             PROVE  YamlInv'
  OBVIOUS
<1>1. ASSUME NEW kind \in YamlKinds, ScalarKey(kind) PROVE YamlInv'
  BY <1>1, KeyKeeps
<1>2. CASE ScalarValue
  BY <1>2, ValueKeeps
<1>3. CASE CollectionStart("Sequence") \/ CollectionStart("Mapping")
  BY <1>3, StartKeeps
<1>4. CASE CollectionEnd
  BY <1>4, EndKeeps
<1>5. CASE Alias
  BY <1>5, AliasKeeps
<1>6. CASE YamlDefect \/ StreamEnd \/ UNCHANGED yamlVars
  <2>1. UNCHANGED <<stack, out, aux_keys, aux_due>>
    BY <1>6 DEF YamlDefect, StreamEnd, yamlVars
  <2>2. StackInv' /\ NearestKeyWins'
    BY <2>1 DEF YamlInv, StackInv, NearestKeyWins
  <2>3. \A i : (OpenedUnder(i)' <=> OpenedUnder(i)) /\ (InForce(i)' <=> InForce(i))
    BY <2>1 DEF OpenedUnder, InForce, Governs
  <2> QED
    BY <2>1, <2>2, <2>3 DEF YamlInv, FramesInv
<1> QED
  BY <1>1, <1>2, <1>3, <1>4, <1>5, <1>6 DEF YamlNext

(* Every scalar is collected under the innermost known key above it, in    *)
(* documents of any depth (yaml_values).                                   *)
THEOREM Nearest == YamlSpec => []NearestKeyWins
<1>1. YamlInit => YamlInv
  BY DEF YamlInit, YamlInv, StackInv, FramesInv, NearestKeyWins
<1> QED
  BY <1>1, YamlInductive, PTL DEF YamlSpec, YamlInv
=============================================================================
